------------------------------- MODULE SexpUse -------------------------------
(***************************************************************************)
(* A caller works on one S-expression by any sequence of calls: builds a   *)
(* larger one around it, takes elements out, looks for tokens, prints it   *)
(* and reads it back.  tree is the expression as the interface describes   *)
(* it, list the buffer the code keeps.  text is independent of them: what  *)
(* someone types, to be read by both readers.                              *)
(***************************************************************************)
EXTENDS SexpScan

CONSTANTS
  MaxCells,    \* cells of the buffer
  AskCells,    \* cells of one that parameters are asked of
  MaxText,     \* characters typed
  MaxParams,   \* parameters asked for
  GivenOptional \* may an optional parameter have a buffer of the caller's?

ASSUME UseAssumption ==
  {MaxCells, AskCells, MaxText, MaxParams} \subseteq Nat /\ GivenOptional \in BOOLEAN

VARIABLES
  tree, list, text,
  answer       \* of the last extraction

vars == <<tree, list, text, answer>>

-----------------------------------------------------------------------------
(* What an S-expression is: data, or a list of S-expressions. *)

Atom(bytes) == [atom |-> bytes]
List(elems) == [list |-> elems]
IsAtom(t) == "atom" \in DOMAIN t
Nil == List(<<>>)

RECURSIVE Cells(_)
Cells(t) == IF IsAtom(t) THEN DataCells(t.atom)
            ELSE <<StOpen>> \o FlattenSeq([i \in 1..Len(t.list) |-> Cells(t.list[i])])
                 \o <<StClose>>
Buffer(t) == IF t = Nil THEN Null ELSE Append(Cells(t), StStop)

\* An element taken out is a list, if need be of itself alone.
AsList(t) == IF IsAtom(t) THEN List(<<t>>) ELSE t
Nth(t, n) == IF n < Len(t.list) THEN AsList(t.list[n + 1]) ELSE Nil

\* The lists within t that start with tok, outermost and leftmost first.
RECURSIVE Named(_, _)
Named(t, tok) ==
  IF IsAtom(t) THEN <<>>
  ELSE (IF t # Nil /\ t.list[1] = Atom(tok) THEN <<t>> ELSE <<>>)
       \o FlattenSeq([i \in 1..Len(t.list) |-> Named(t.list[i], tok)])
Find(t, tok) == IF Named(t, tok) = <<>> THEN Nil ELSE Head(Named(t, tok))

-----------------------------------------------------------------------------
(* The calls *)

\* What the caller puts in, the names it gives, and what is typed.
Datas == {<<b>> : b \in DOMAIN HexOf \ {" "}} \union
         {<<"F", b>> : b \in {" ", "1", "ff"}}
Names == {<<"F">>, <<"1">>}
Chars == {"(", ")", "1", "2", "F", ":", "\"", "\\", "#", "CR", "LF", "[", "]", "ff"}

NoAnswer == [asked |-> FALSE]

Init ==
  /\ tree = List(<<Atom(<<"F">>)>>) /\ list = Buffer(tree)
  /\ text = <<>> /\ answer = NoAnswer

Becomes(t, d) == /\ tree' = t /\ list' = d
                 /\ answer' = NoAnswer /\ UNCHANGED text

\* gcry_sexp_build with a format and its arguments; what is put in is a list.
Build(t, format, args) ==
  /\ tree # Nil /\ Len(Buffer(t)) <= MaxCells
  /\ Becomes(t, SexpSscan(format, args).sexp)

Enclose(a, b) ==
  \/ Build(List(<<Atom(b), tree>>), <<"(", "%", "b", "%", "S", ")">>, <<b, list>>)
  \/ Build(List(<<tree, Atom(b)>>), <<"(", "%", "S", " ", "%", "b", ")">>, <<list, b>>)
  \/ Build(List(<<Atom(<<"F">>), tree, List(<<Atom(a), Atom(b)>>)>>),
           <<"(", "F", "%", "S", "(", "%", "b", " ", "%", "b", ")", ")">>,
           <<list, a, b>>)

\* gcry_sexp_nth, gcry_sexp_find_token and gcry_sexp_cadr
Take(n) == tree # Nil /\ Becomes(Nth(tree, n), SexpNth(list, n))
Look(tok) == Becomes(Find(tree, tok), SexpFindToken(list, tok))
Second == tree # Nil /\ Becomes(Nth(tree, 1), SexpCadr(list))

\* gcry_sexp_sprint, and gcry_sexp_new of what it printed
Reprint(canon) == Becomes(tree, SexpSscan(SexpSprint(list, canon), <<>>).sexp)

\* gcry_sexp_extract_param
Param == [name : Names, opt : BOOLEAN,
          mode : {"mpi", "string", "number", "buffer", "given"}]
Params == UNION {[1..n -> {q \in Param : q.mode = "given" /\ q.opt => GivenOptional}] :
                   n \in 1..MaxParams}
Ask(path, params) ==
  /\ ~answer.asked /\ list # Null /\ Len(list) <= AskCells
  /\ answer' = [asked |-> TRUE, path |-> path, params |-> params,
                got |-> ExtractParam(list, path, params)]
  /\ UNCHANGED <<tree, list, text>>

\* Somebody types a text, or starts again.
Type(c) ==
  /\ ~answer.asked /\ tree = List(<<Atom(<<"F">>)>>) /\ Len(text) < MaxText
  /\ text' = Append(text, c)
  /\ UNCHANGED <<tree, list, answer>>

Clear ==
  /\ text # <<>>
  /\ text' = <<>>
  /\ UNCHANGED <<tree, list, answer>>

Next ==
  \/ Clear
  \/ /\ text = <<>>
     /\ \/ \E a \in Names, b \in Datas : Enclose(a, b)
        \/ \E b \in Datas : Look(b)
        \/ \E n \in 0..4 : Take(n)
        \/ Second
        \/ \E canon \in BOOLEAN : Reprint(canon)
        \/ \E path \in {<<>>, <<<<"F">>, <<"1">>>>}, params \in Params : Ask(path, params)
  \/ \E c \in Chars : Type(c)

Spec == Init /\ [][Next]_vars

-----------------------------------------------------------------------------
(* Properties *)

\* Through any sequence of calls the buffer is the expression the interface
\* describes, and its length, the data of its elements and the canonical length
\* of its printed form are right (_gcry_sexp_nth, _gcry_sexp_find_token,
\* do_vsexp_sscan, _gcry_sexp_sprint, _gcry_sexp_canon_len).
Represents ==
  /\ list = Buffer(tree)
  /\ SexpLength(list) = Len(tree.list)
  /\ \A n \in 0..4 :
       SexpNthData(list, n) = IF n < Len(tree.list) /\ IsAtom(tree.list[n + 1])
                              THEN tree.list[n + 1].atom ELSE Null
  /\ LET canon == SexpSprint(list, TRUE) IN SexpCanonLen(canon) = Len(canon)

\* d is a sequence of complete elements in front of ST_STOP.
WellFormed(d) ==
  /\ d[Len(d)] = StStop
  /\ Leave(<<StOpen>> \o SubSeq(d, 1, Len(d) - 1) \o <<StClose>>, 2, 1) = Len(d) + 2

RECURSIVE NoEmpty(_, _)
NoEmpty(d, p) == CASE d[p] = StStop -> TRUE
                   [] d[p] = StData -> SizeAt(d, p) > 0 /\ NoEmpty(d, AfterData(d, p))
                   [] OTHER -> NoEmpty(d, p + 1)

\* What do_vsexp_sscan accepts is well-formed and, printed in canonical form,
\* reads as itself again; and the length _gcry_sexp_canon_len gives is that of a
\* text do_vsexp_sscan accepts, without a look at what is behind it.  Nothing is
\* said of a text that ends in an escaped CR or LF when the character behind it
\* is the other half of the pair: the code then reads on (see the README).
\* (Empty data, which "" makes, has a canonical form neither accepts.)
ReadersAgree ==
  LET r == SexpSscan(text, <<>>)
      n == SexpCanonLen(text)
  IN  /\ r.sexp # Null =>
           /\ WellFormed(r.sexp)
           /\ NoEmpty(r.sexp, 1) =>
                SexpSscan(SexpSprint(r.sexp, TRUE), <<>>).sexp = r.sexp
      /\ n > 0 => LET q == SexpSscan(SubSeq(text, 1, n), <<>>) IN q.ok /\ ~q.over

\* An extraction that fails leaves nothing behind: what it allocated before is
\* released, each by the function for its kind, and every pointer is NULL; a
\* buffer of the caller's that it had filled is emptied.  A buffer it did not
\* come to keeps its length, and an integer may have been overwritten
\* (_gcry_sexp_vextract_param).
LeftClean ==
  answer.asked /\ ~answer.got.ok =>
    \A i \in 1..Len(answer.params) :
      answer.got.vals[i] \in
        CASE answer.params[i].mode \in {"mpi", "string", "buffer"} -> {"null"}
          [] answer.params[i].mode = "given" -> {"old", "empty"}
          [] answer.params[i].mode = "number" -> {"old", "zero", "number"}

\* "if the buffer is too small, the function immediately returns with an error
\* code (and LEN set to 0)" (_gcry_sexp_vextract_param).  The code leaves the
\* length of that buffer as it was: see the README.
ShortEmptied ==
  answer.asked /\ answer.path = <<>> =>
    \A q \in {answer.params[1]} :
      LET data == SexpNthData(SexpFindToken(list, q.name), 1)
      IN  q.mode = "given" /\ data # Null /\ Len(data) > GivenSize
            => answer.got.vals[1] = "empty"

\* "Create and return a new list form all elements except for the first one"
\* (doc/gcrypt.texi, gcry_sexp_cdr).  The code returns the second element
\* alone: see the README.
CdrIsRest ==
  tree # Nil => SexpCdr(list) = Buffer(List(Tail(tree.list)))
=============================================================================
