------------------------------ MODULE PoolList ------------------------------
(***************************************************************************)
(* The list of secure memory pools, read without a lock.                   *)
(*                                                                         *)
(* _gcry_private_is_secure walks mainpool and the overflow pools behind it *)
(* without SECMEM_LOCK, from any thread that frees or reallocates memory,  *)
(* while _gcry_secmem_malloc_internal (which holds the lock) sets up the   *)
(* main pool or puts a new overflow pool at the head of the list.  Stores  *)
(* that no barrier separates become visible to other threads in any order. *)
(* _gcry_secmem_term, which takes pools away, is cleanup code and left out.*)
(***************************************************************************)
EXTENDS Integers, FiniteSets

CONSTANTS
  Threads,
  MaxPools      \* bound: overflow pools the process has memory for

\* Descriptor 0 is mainpool; NULL is 0 too, as no pointer leads to mainpool.
Ids  == 0..MaxPools
NULL == 0

\* Where a pointer comes from: one of the pools, or the C library.
Libc  == -1
Homes == Ids \cup {Libc}

Nobody == "nobody"

ASSUME PoolListAssumption == MaxPools \in Nat /\ Nobody \notin Threads

Fields == {"base", "size", "okay", "next"}

VARIABLES
  desc,      \* what other threads see of each descriptor
  lock,      \* the holder of SECMEM_LOCK
  pc,        \* of each thread
  todo,      \* stores of the lock holder that are not visible yet
  made,      \* overflow pools linked so far; they are numbered in that order
  granted,   \* the pools from which callers hold pointers
  arg,       \* of each thread: the home of the pointer it asks about
  cur,       \* of each thread: the descriptor its walk has reached
  answer     \* of each thread: the result of its walk

listVars == <<desc, lock, pc, todo, made, granted, arg, cur, answer>>

\* static pooldesc_t mainpool, and what calloc returns
Zeroed == [base |-> FALSE, size |-> FALSE, okay |-> FALSE, next |-> NULL]

\* pool->okay && ptr_into_pool_p (pool, p): with mem or size still 0 the pool
\* covers no pointer.  The fields only ever go from zero to their value, so
\* reading them one after the other sees what reading them at once may see.
Covers(i, home) == desc[i].okay /\ desc[i].base /\ desc[i].size /\ home = i

ListInit ==
  /\ desc = [i \in Ids |-> Zeroed]
  /\ lock = Nobody
  /\ pc = [t \in Threads |-> "idle"]
  /\ todo = {}
  /\ made = 0
  /\ granted = {}
  /\ arg = [t \in Threads |-> Libc]
  /\ cur = [t \in Threads |-> 0]
  /\ answer = [t \in Threads |-> FALSE]

Goto(t, from, to) == pc[t] = from /\ pc' = [pc EXCEPT ![t] = to]

-----------------------------------------------------------------------------
(* _gcry_secmem_malloc_internal *)

\* SECMEM_LOCK; the main pool is set up first if it is not.
Enter(t) ==
  /\ lock = Nobody
  /\ lock' = t
  /\ IF desc[0].okay
     THEN Goto(t, "idle", "search") /\ UNCHANGED todo
     ELSE Goto(t, "idle", "init") /\ todo' = {"base", "size", "okay"}
  /\ UNCHANGED <<desc, made, granted, arg, cur, answer>>

\* init_pool: its stores, in any order.
StoreMain(t) ==
  /\ pc[t] = "init"
  /\ \E f \in todo :
       /\ desc' = [desc EXCEPT ![0] = [@ EXCEPT ![f] = TRUE]]
       /\ todo' = todo \ {f}
  /\ UNCHANGED <<lock, pc, made, granted, arg, cur, answer>>

InitDone(t) ==
  /\ todo = {}
  /\ Goto(t, "init", "search")
  /\ UNCHANGED <<desc, lock, todo, made, granted, arg, cur, answer>>

\* A pool with room is found, or there is none and no memory for another.
Found(t) ==
  /\ Goto(t, "search", "idle")
  /\ \E i \in 0..made : granted' = granted \cup {i}
  /\ lock' = Nobody
  /\ UNCHANGED <<desc, todo, made, arg, cur, answer>>

NotFound(t) ==
  /\ Goto(t, "search", "idle")
  /\ lock' = Nobody
  /\ UNCHANGED <<desc, todo, made, granted, arg, cur, answer>>

\* calloc and malloc succeed: the stores into the new descriptor are to come.
AllocPool(t) ==
  /\ made < MaxPools
  /\ Goto(t, "search", "fill")
  /\ todo' = Fields
  /\ UNCHANGED <<desc, lock, made, granted, arg, cur, answer>>

StoreNew(t) ==
  /\ pc[t] = "fill"
  /\ \E f \in todo :
       /\ desc' = [desc EXCEPT ![made + 1] = [@ EXCEPT ![f] =
                     IF f = "next" THEN desc[0].next ELSE TRUE]]
       /\ todo' = todo \ {f}
  /\ UNCHANGED <<lock, pc, made, granted, arg, cur, answer>>

\* Mutant: the link is stored, or becomes visible, before the rest.
Publish_NoBarrier(t) ==
  /\ pc[t] = "fill"
  /\ todo = {} \/ desc[0].next # made + 1
  /\ desc' = [desc EXCEPT ![0].next = made + 1]
  /\ IF todo = {}
     THEN /\ pc' = [pc EXCEPT ![t] = "linked"]
          /\ made' = made + 1
     ELSE UNCHANGED <<pc, made>>
  /\ UNCHANGED <<lock, todo, granted, arg, cur, answer>>

\* memory_barrier (); mainpool.next = pool;
Publish(t) ==
  /\ todo = {}
  /\ Goto(t, "fill", "linked")
  /\ desc' = [desc EXCEPT ![0].next = made + 1]
  /\ made' = made + 1
  /\ UNCHANGED <<lock, todo, granted, arg, cur, answer>>

\* mb_get_new in the new pool, which may be too small; SECMEM_UNLOCK.
Grant(t) ==
  /\ Goto(t, "linked", "idle")
  /\ \/ granted' = granted \cup {made}
     \/ granted' = granted
  /\ lock' = Nobody
  /\ UNCHANGED <<desc, todo, made, arg, cur, answer>>

-----------------------------------------------------------------------------
(* _gcry_private_free and _gcry_private_realloc *)

\* _gcry_private_is_secure is asked about a pointer somebody was given.
StartWalk(t, home) ==
  /\ home \in granted \cup {Libc}
  /\ Goto(t, "idle", "check")
  /\ arg' = [arg EXCEPT ![t] = home]
  /\ cur' = [cur EXCEPT ![t] = 0]
  /\ UNCHANGED <<desc, lock, todo, made, granted, answer>>

Check(t) ==
  /\ IF Covers(cur[t], arg[t])
     THEN Goto(t, "check", "done") /\ answer' = [answer EXCEPT ![t] = TRUE]
     ELSE Goto(t, "check", "advance") /\ UNCHANGED answer
  /\ UNCHANGED <<desc, lock, todo, made, granted, arg, cur>>

\* pool = pool->next
Advance(t) ==
  /\ IF desc[cur[t]].next = NULL
     THEN /\ Goto(t, "advance", "done")
          /\ answer' = [answer EXCEPT ![t] = FALSE]
          /\ UNCHANGED cur
     ELSE /\ Goto(t, "advance", "check")
          /\ cur' = [cur EXCEPT ![t] = desc[cur[t]].next]
          /\ UNCHANGED answer
  /\ UNCHANGED <<desc, lock, todo, made, granted, arg>>

\* The answer picks the allocator; secmem_free and secmem_realloc lock.
Dispatch(t) ==
  /\ Goto(t, "done", "idle")
  /\ answer[t] => lock = Nobody
  /\ UNCHANGED <<desc, lock, todo, made, granted, arg, cur, answer>>

LockedMalloc(t) ==
  \/ Enter(t) \/ StoreMain(t) \/ InitDone(t) \/ Found(t) \/ NotFound(t)
  \/ AllocPool(t) \/ StoreNew(t) \/ Publish(t) \/ Grant(t)

Walk(t) == Check(t) \/ Advance(t)

ListNext == \E t \in Threads :
  \/ LockedMalloc(t)
  \/ \E home \in Homes : StartWalk(t, home)
  \/ Walk(t)
  \/ Dispatch(t)

\* A thread inside the loop of _gcry_private_is_secure keeps running; nothing
\* is assumed of the threads that allocate.
ListSpec ==
  /\ ListInit /\ [][ListNext]_listVars
  /\ \A t \in Threads : WF_listVars(Walk(t))

-----------------------------------------------------------------------------
(* Correctness *)

ListTypeOK ==
  /\ desc \in [Ids -> [base : BOOLEAN, size : BOOLEAN, okay : BOOLEAN, next : Ids]]
  /\ lock \in Threads \cup {Nobody}
  /\ pc \in [Threads -> {"idle", "init", "search", "fill", "linked", "check",
                         "advance", "done"}]
  /\ todo \subseteq Fields
  /\ made \in Ids
  /\ granted \subseteq Ids
  /\ arg \in [Threads -> Homes]
  /\ cur \in [Threads -> Ids]
  /\ answer \in [Threads -> BOOLEAN]

\* Whatever other threads allocate meanwhile, a pointer into secure memory is
\* recognised as such, and any other pointer is not: memory goes back to the
\* allocator it came from.
AnswerRight ==
  \A t \in Threads : pc[t] = "done" => (answer[t] <=> arg[t] # Libc)

\* A walk never stands on an overflow pool whose descriptor is not completely
\* visible to it ("prevents _gcry_private_is_secure seeing non-initialized
\* POOL->NEXT pointers").
NoHalfPool ==
  \A t \in Threads : pc[t] \in {"check", "advance"} /\ cur[t] # 0 =>
    /\ desc[cur[t]].okay /\ desc[cur[t]].base /\ desc[cur[t]].size
    /\ desc[cur[t]].next = cur[t] - 1

\* Every walk ends, however many pools are added while it is on its way.
WalkEnds == \A t \in Threads : pc[t] = "check" ~> pc[t] = "done"
=============================================================================
