------------------------------ MODULE SexpScan ------------------------------
(***************************************************************************)
(* The two readers of S-expressions, do_vsexp_sscan and                    *)
(* _gcry_sexp_canon_len, and the extraction of parameters                  *)
(* (_gcry_sexp_vextract_param), all of src/src/sexp.c.  Base 64 data is    *)
(* left out: it is decoded by a library.                                   *)
(***************************************************************************)
EXTENDS Sexp

-----------------------------------------------------------------------------
(* The scanner.  s.mode is the kind of element it is in, which the code     *)
(* keeps as the one of several pointers that is set; s.from is that pointer *)
(* and s.p the place in the text w.  s.over: the character behind the text  *)
(* was looked at.                                                           *)

Scanner(args) ==
  [p |-> 1, mode |-> "none", from |-> 0, esc |-> FALSE, disp |-> FALSE,
   level |-> 0, out |-> <<>>, args |-> args, err |-> FALSE, over |-> FALSE]

Go(s, k) == [s EXCEPT !.p = @ + k]
Enter(s, mode) == [s EXCEPT !.mode = mode, !.from = s.p, !.esc = FALSE, !.p = @ + 1]

\* STORE_LEN and the copy of the bytes
Store(s, bytes) == [s EXCEPT !.out = @ \o DataCells(bytes), !.mode = "none"]

Fail(s) == [s EXCEPT !.err = TRUE]
Left(w, s) == Len(w) - s.p + 1
AllIn(w, p, n, set) == \A i \in p..(p + n - 1) : w[i] \in set
Octal == Digits \ {"8", "9"}

\* unquote_string.  A value that is no byte of the model stands as F.
RECURSIVE Unquote(_)
Unquote(b) ==
  LET Rest(k) == Unquote(SubSeq(b, k, Len(b)))
      partner == [c \in {"CR", "LF"} |-> IF c = "CR" THEN "LF" ELSE "CR"]
  IN  CASE b = <<>> -> <<>>
        [] b # <<>> /\ b[1] # "\\" -> <<b[1]>> \o Rest(2)
        [] b # <<>> /\ b[1] = "\\" ->
             CASE b[2] \in Escaped -> <<b[2]>> \o Rest(3)
               [] b[2] \in DOMAIN partner ->
                    IF Len(b) > 2 /\ b[3] = partner[b[2]] THEN Rest(4) ELSE Rest(3)
               [] b[2] = "x" -> <<ByteOf(b[3], b[4])>> \o Rest(5)
               [] b[2] \in Octal -> <<"F">> \o Rest(5)

\* In a quoted string.  The code asks for a character left, and counts the one
\* it is at: for an escaped CR or LF that ends the text it looks at the one behind
\* it.  What is there is not known; the scan goes on here as it does when that is
\* not the other half of a pair.  (When it is, the count left becomes -1 and the
\* code reads on behind the text.)
ScanQuoted(w, s) ==
  LET c    == w[s.p]
      last == Left(w, s) = 1
      Done(k) == [Go(s, k) EXCEPT !.esc = FALSE]
  IN  CASE s.esc /\ c \in Escaped -> Done(1)
        [] s.esc /\ c \in {"CR", "LF"} /\ ~last ->
             Done(IF {c, w[s.p + 1]} = {"CR", "LF"} THEN 2 ELSE 1)
        [] s.esc /\ c \in {"CR", "LF"} /\ last -> [Done(1) EXCEPT !.over = TRUE]
        [] s.esc /\ c \in Octal ->
             IF Left(w, s) > 2 /\ AllIn(w, s.p + 1, 2, Octal) THEN Done(3) ELSE Fail(s)
        [] s.esc /\ c = "x" ->
             IF Left(w, s) > 2 /\ AllIn(w, s.p + 1, 2, HexDigits) THEN Done(3)
             ELSE Fail(s)
        [] s.esc /\ c \notin Escaped \union Octal \union {"CR", "LF", "x"} -> Fail(s)
        [] ~s.esc /\ c = "\\" -> [Go(s, 1) EXCEPT !.esc = TRUE]
        [] ~s.esc /\ c = "\"" ->
             Store(Go(s, 1), Unquote(SubSeq(w, s.from + 1, s.p - 1)))
        [] OTHER -> Go(s, 1)

\* In a string of hex digits
ScanHex(w, s) ==
  LET c   == w[s.p]
      hex == SelectSeq(SubSeq(w, s.from + 1, s.p - 1), LAMBDA x : x \notin Spaces)
  IN  CASE c \in HexDigits \union Spaces -> Go(s, 1)
        [] c = "#" -> IF Len(hex) % 2 = 1 THEN Fail(s)
                      ELSE Store(Go(s, 1), [i \in 1..(Len(hex) \div 2) |->
                                              ByteOf(hex[2 * i - 1], hex[2 * i])])
        [] OTHER -> Fail(s)

\* In a length
ScanDigits(w, s) ==
  LET c   == w[s.p]
      len == FoldLeft(LAMBDA n, d : n * 10 + DigitOf[d], 0, SubSeq(w, s.from, s.p - 1))
  IN  CASE c \in Digits -> Go(s, 1)
        [] c = ":" -> IF len > Left(w, s) - 1 THEN Fail(s)
                      ELSE Store(Go(s, 1 + len), SubSeq(w, s.p + 1, s.p + len))
        [] c = "\"" -> Enter(s, "quoted")
        [] c = "#" -> Enter(s, "hex")
        [] OTHER -> Fail(s)

\* get_internal_buffer of a list, for %S
InternalBuffer(d) == IF d = Null THEN <<>> ELSE SubSeq(d, 1, Leave(d, 2, 1) - 1)

\* After a percent sign: %b, which stands for %s, %d, %u and %m too, and %S.
ScanPercent(w, s) ==
  LET next == [Go(s, 1) EXCEPT !.args = Tail(@)]
  IN  CASE w[s.p] = "b" -> Store(next, Head(s.args))
        [] w[s.p] = "S" -> [next EXCEPT !.out = @ \o InternalBuffer(Head(s.args)),
                                        !.mode = "none"]
        [] OTHER -> Fail(s)

Tagged(s, tag, up) == [Go(s, 1) EXCEPT !.out = Append(@, tag), !.level = @ + up]

\* Mutant: a parenthesis too many is not noticed.
ScanClose_Any(s) == IF s.disp THEN Fail(s) ELSE Tagged(s, StClose, -1)

ScanClose(s) == IF s.disp \/ s.level = 0 THEN Fail(s) ELSE Tagged(s, StClose, -1)

\* Between elements
ScanPlain(w, s) ==
  LET c == w[s.p]
  IN  CASE c = "(" -> IF s.disp THEN Fail(s) ELSE Tagged(s, StOpen, 1)
        [] c = ")" -> ScanClose(s)
        [] c = "\"" -> Enter(s, "quoted")
        [] c = "#" -> Enter(s, "hex")
        [] c = "[" -> IF s.disp THEN Fail(s) ELSE [Go(s, 1) EXCEPT !.disp = TRUE]
        [] c = "]" -> IF s.disp THEN [Go(s, 1) EXCEPT !.disp = FALSE] ELSE Fail(s)
        [] c \in Digits -> IF c = "0" THEN Fail(s) ELSE Enter(s, "digits")
        [] c \in TokenChars \ Digits -> Enter(s, "token")
        [] c \in Spaces -> Go(s, 1)
        [] c = "%" /\ s.args # <<>> -> Enter(s, "percent")
        [] OTHER -> Fail(s)

\* do_vsexp_sscan: a turn of its loop for the character at s.p.  A token ends in
\* front of a character that is then looked at itself.
RECURSIVE ScanFrom(_, _)
ScanFrom(w, s) ==
  IF s.err THEN [ok |-> FALSE, sexp |-> Null, over |-> s.over]
  ELSE IF s.p > Len(w)
  THEN IF s.level > 0 THEN [ok |-> FALSE, sexp |-> Null, over |-> s.over]
       ELSE [ok |-> TRUE, sexp |-> Normalize(Append(s.out, StStop)), over |-> s.over]
  ELSE LET token == s.mode = "token" /\ w[s.p] \in TokenChars
           t == IF s.mode = "token" THEN Store(s, SubSeq(w, s.from, s.p - 1)) ELSE s
       IN  ScanFrom(w, CASE token -> Go(s, 1)
                         [] ~token /\ t.mode = "none" -> ScanPlain(w, t)
                         [] ~token /\ t.mode = "quoted" -> ScanQuoted(w, t)
                         [] ~token /\ t.mode = "hex" -> ScanHex(w, t)
                         [] ~token /\ t.mode = "digits" -> ScanDigits(w, t)
                         [] ~token /\ t.mode = "percent" -> ScanPercent(w, t))
SexpSscan(w, args) == ScanFrom(w, Scanner(args))

-----------------------------------------------------------------------------
(* The length of a canonical S-expression, 0 for an error.                  *)

\* One turn for the character at p; len is the length read so far, or 0.
RECURSIVE CanonFrom(_, _, _, _, _)
CanonFrom(w, p, len, level, disp) ==
  LET c == w[p]
  IN  CASE p > Len(w) -> 0
        [] p <= Len(w) /\ len > 0 ->
             CASE c = ":" -> IF p - 1 + len >= Len(w) THEN 0
                             ELSE CanonFrom(w, p + len + 1, 0, level, disp)
               [] c \in Digits -> CanonFrom(w, p + 1, len * 10 + DigitOf[c], level, disp)
               [] OTHER -> 0
        [] p <= Len(w) /\ len = 0 ->
             CASE c = "(" /\ ~disp -> CanonFrom(w, p + 1, 0, level + 1, disp)
               [] c = ")" /\ ~disp /\ level > 1 -> CanonFrom(w, p + 1, 0, level - 1, disp)
               [] c = ")" /\ ~disp /\ level = 1 -> p
               [] c = "[" /\ ~disp -> CanonFrom(w, p + 1, 0, level, TRUE)
               [] c = "]" /\ disp -> CanonFrom(w, p + 1, 0, level, FALSE)
               [] c \in Digits \ {"0"} -> CanonFrom(w, p + 1, DigitOf[c], level, disp)
               [] OTHER -> 0
SexpCanonLen(w) ==
  IF w = <<>> THEN 0 ELSE IF w[1] # "(" THEN 0 ELSE CanonFrom(w, 1, 0, 0, FALSE)

-----------------------------------------------------------------------------
(* Extraction of parameters.  A parameter is [name, mode, opt].  What its    *)
(* argument holds is, for a pointer, "null" or a new "mpi" or "string"; for  *)
(* an integer what the caller left there, "old", or "zero" or a "number";    *)
(* for a descriptor of a buffer to be made "null" or "made"; and for one of  *)
(* the caller's buffers its length: "old", "empty" or "filled".  desc is     *)
(* arrayisdesc.                                                              *)

\* What the caller passes: pointers are NULL, as the interface demands.
ParamStart(mode) == IF mode \in {"given", "number"} THEN "old" ELSE "null"
GivenSize == 1                    \* bytes the caller's buffer can hold

Fetched(ok, val, desc) == [ok |-> ok, val |-> val, desc |-> desc]

\* One parameter: the second element of the list it names.
Fetch(sexp, q) ==
  LET l    == SexpFindToken(sexp, q.name)
      data == SexpNthData(l, 1)
  IN  IF l = Null
      THEN CASE ~q.opt -> Fetched(FALSE, ParamStart(q.mode), "mpi")
             [] q.opt /\ q.mode \in {"buffer", "mpi"} -> Fetched(TRUE, "null", "mpi")
             [] q.opt /\ q.mode = "given" -> Fetched(TRUE, "empty", "mpi")
             [] q.opt /\ q.mode = "string" -> Fetched(TRUE, "null", "string")
             [] q.opt /\ q.mode = "number" -> Fetched(TRUE, "zero", "ignore")
      ELSE IF data = Null \/ (q.mode = "given" /\ Len(data) > GivenSize)
      THEN Fetched(FALSE, ParamStart(q.mode), "mpi")
      ELSE CASE q.mode = "given" -> Fetched(TRUE, "filled", "given")
             [] q.mode = "buffer" -> Fetched(TRUE, "made", "made")
             [] q.mode = "string" -> Fetched(TRUE, "string", "string")
             [] q.mode = "number" -> Fetched(TRUE, "number", "ignore")
             [] q.mode = "mpi" -> Fetched(TRUE, "mpi", "mpi")

\* Mutant: strings are taken for arguments the cleanup leaves alone.
Released_NoString(f) ==
  CASE f.desc = "mpi" -> IF f.val \in {"null", "mpi"} THEN "null" ELSE "wild"
    [] f.desc = "given" -> "empty"
    [] f.desc = "made" -> "null"
    [] f.desc \in {"string", "ignore"} -> f.val

\* What the cleanup makes of an argument already done: by its desc, not by its
\* kind.  "wild": something that is no MPI is released as one.
Released(f) ==
  CASE f.desc = "mpi" -> IF f.val \in {"null", "mpi"} THEN "null" ELSE "wild"
    [] f.desc = "given" -> "empty"
    [] f.desc \in {"made", "string"} -> "null"
    [] f.desc = "ignore" -> f.val

\* _gcry_sexp_vextract_param: down the path, then in order up to the first
\* parameter that fails.
ExtractParam(sexp, path, params) ==
  LET start == [i \in 1..Len(params) |-> ParamStart(params[i].mode)]
      list  == FoldLeft(SexpFindToken, sexp, path)
      f     == [i \in 1..Len(params) |-> Fetch(list, params[i])]
      bad   == {i \in 1..Len(params) : ~f[i].ok}
      stop  == CHOOSE i \in bad : \A j \in bad : i <= j
  IN  IF path # <<>> /\ list = Null THEN [ok |-> FALSE, vals |-> start]
      ELSE IF bad = {} THEN [ok |-> TRUE, vals |-> [i \in 1..Len(params) |-> f[i].val]]
      ELSE [ok |-> FALSE,
            vals |-> [i \in 1..Len(params) |->
                        IF i < stop THEN Released(f[i]) ELSE start[i]]]
=============================================================================
