----------------------------- MODULE SecureHeap -----------------------------
(***************************************************************************)
(* What the secure memory allocator promises its callers, without pools    *)
(* of blocks, headers, splitting or merging: regions that are handed out   *)
(* are large enough, apart from each other and clean, keep their place     *)
(* until they are given back, and leave no secret behind.  SecMem is shown *)
(* to implement this (INSTANCE in SecMem.tla).                             *)
(***************************************************************************)
EXTENDS Integers

VARIABLES
  held,     \* the regions callers hold: [pool, from, to, n], n units asked for
  secret    \* the places that hold what callers wrote: <<pool, offset>>

vars == <<held, secret>>

Bytes(r) == {<<r.pool, x>> : x \in r.from..r.to}

Apart(r, s) == r.pool # s.pool \/ r.to < s.from \/ s.to < r.from

\* A region that may be handed out: it holds n units, nobody else has a part
\* of it, and no one's data is in it.
Fresh(r) ==
  /\ r.n <= r.to - r.from + 1
  /\ \A s \in held : Apart(r, s)
  /\ Bytes(r) \cap secret = {}

Init == held = {} /\ secret = {}

Grant(r) ==
  /\ Fresh(r)
  /\ held' = held \cup {r}
  /\ UNCHANGED secret

\* The holder changes its mind about how much it needs; the region stays.
Resize(r, s) ==
  /\ s.n <= r.to - r.from + 1
  /\ s = [r EXCEPT !.n = s.n]
  /\ held' = (held \ {r}) \cup {s}
  /\ UNCHANGED secret

\* The content of r, and nothing else, is found in s afterwards.
Move(r, s) ==
  /\ Fresh(s)
  /\ held' = (held \ {r}) \cup {s}
  /\ secret' = (secret \ Bytes(r)) \cup
       {<<s.pool, s.from + (b[2] - r.from)>> : b \in secret \cap Bytes(r)}

Release(r) ==
  /\ held' = held \ {r}
  /\ secret' = secret \ Bytes(r)

Fill(r) ==
  /\ secret' = secret \cup {<<r.pool, x>> : x \in r.from..(r.from + r.n - 1)}
  /\ UNCHANGED held

ReleaseAll == held' = {} /\ secret' = {}

\* The regions that appear in a step.
New == held' \ held

Next ==
  \/ \E r \in New : Grant(r)
  \/ \E r \in held, s \in New : Resize(r, s) \/ Move(r, s)
  \/ \E r \in held : Release(r) \/ Fill(r)
  \/ ReleaseAll

Spec == Init /\ [][Next]_vars
=============================================================================
