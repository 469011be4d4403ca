-------------------------------- MODULE Sexp --------------------------------
(***************************************************************************)
(* S-expressions (src/src/sexp.c): the buffer of tags that holds one, the  *)
(* scanner and the printer, and the functions that take it apart.          *)
(*                                                                         *)
(* A buffer is a sequence of cells: tags, lengths (one cell each) and      *)
(* bytes; a position in it is an index.  Lengths are kept modulo DataMod,  *)
(* as the type DATALEN keeps them modulo 65536.  A text is a sequence of   *)
(* characters; the ones below stand for the classes the scanner tells      *)
(* apart.                                                                  *)
(***************************************************************************)
EXTENDS Integers, Sequences, SequencesExt

CONSTANT DataMod

ASSUME DataModAssumption == DataMod \in Nat \ {0}

StStop == <<"stop">>
StOpen == <<"open">>
StClose == <<"close">>
StData == <<"data">>
Null == <<>>

DataCells(bytes) ==
  <<StData, <<"n", Len(bytes) % DataMod>>>>
  \o [i \in 1..Len(bytes) |-> <<"b", bytes[i]>>]

\* Of the data element at p: its length, its bytes, and where the next cell is.
SizeAt(d, p) == d[p + 1][2]
BytesAt(d, p) == [i \in 1..SizeAt(d, p) |-> d[p + 1 + i][2]]
AfterData(d, p) == p + 2 + SizeAt(d, p)

\* normalize: no list is made of "" or "()".
Normalize(d) ==
  IF d = Null \/ d[1] = StStop \/ (d[1] = StOpen /\ d[2] = StClose)
  THEN Null ELSE d

-----------------------------------------------------------------------------
(* Taking a list apart *)

\* The loops over a list that count its level: from p on, up to behind the
\* ST_CLOSE that brings the level to zero.  0 at ST_STOP.
RECURSIVE Leave(_, _, _)
Leave(d, p, level) ==
  IF level = 0 THEN p
  ELSE CASE d[p] = StData  -> Leave(d, AfterData(d, p), level)
         [] d[p] = StOpen  -> Leave(d, p + 1, level + 1)
         [] d[p] = StClose -> Leave(d, p + 1, level - 1)
         [] d[p] = StStop  -> 0

\* The loops that skip number elements.  0 at ST_STOP.
RECURSIVE Skip(_, _, _, _)
Skip(d, p, number, level) ==
  IF number <= 0 THEN p
  ELSE CASE d[p] = StData  -> Skip(d, AfterData(d, p),
                                   IF level = 0 THEN number - 1 ELSE number, level)
         [] d[p] = StOpen  -> Skip(d, p + 1, number, level + 1)
         [] d[p] = StClose -> Skip(d, p + 1,
                                   IF level = 1 THEN number - 1 ELSE number, level - 1)
         [] d[p] = StStop  -> 0

\* The n cells from head on, n being kept in a DATALEN.
Cut(d, head, n) == SubSeq(d, head, head + (n % DataMod) - 1)

\* Mutant: a closing tag in front of the element counts as one skipped.
SexpNth_NoLevel(list, number) ==
  LET p == Skip(list, 2, number, 1)
  IN  IF list = Null \/ p = 0 THEN Null
      ELSE IF list[p] = StData
           THEN <<StOpen>> \o DataCells(BytesAt(list, p)) \o <<StClose, StStop>>
           ELSE Null

\* _gcry_sexp_nth
SexpNth(list, number) ==
  IF list = Null \/ list[1] # StOpen THEN Null
  ELSE LET p == Skip(list, 2, number, 0)
       IN  CASE p = 0 -> Null
             [] p > 0 /\ list[p] = StData ->
                  <<StOpen>> \o DataCells(BytesAt(list, p)) \o <<StClose, StStop>>
             [] p > 0 /\ list[p] = StOpen ->
                  Normalize(Append(Cut(list, p, Leave(list, p + 1, 1) - p), StStop))
             [] OTHER -> Null

\* do_sexp_nth_data: the bytes, or Null.
SexpNthData(list, number) ==
  IF list = Null \/ (list[1] # StOpen /\ number # 0) THEN Null
  ELSE LET p == Skip(list, IF list[1] = StOpen THEN 2 ELSE 1, number, 0)
       IN  IF p > 0 /\ list[p] = StData THEN BytesAt(list, p) ELSE Null

\* _gcry_sexp_cdr: its second loop ends when the level is back at zero.
SexpCdr(list) ==
  IF list = Null \/ list[1] # StOpen THEN Null
  ELSE LET p   == Skip(list, 2, 1, 0)
           end == CASE list[p] = StData  -> AfterData(list, p)
                    [] list[p] = StOpen  -> Leave(list, p + 1, 1)
                    [] list[p] = StClose -> Leave(list, p + 1, -1)
                    [] list[p] = StStop  -> 0
       IN  IF p = 0 THEN Null
           ELSE IF end = 0 THEN Null
           ELSE Normalize(<<StOpen>> \o Cut(list, p, end - p) \o <<StClose, StStop>>)

\* _gcry_sexp_car and _gcry_sexp_cadr
SexpCar(list) == SexpNth(list, 0)
SexpCadr(list) == SexpCar(SexpCdr(list))

\* _gcry_sexp_length
RECURSIVE LengthFrom(_, _, _)
LengthFrom(d, p, level) ==
  LET one == IF level = 1 THEN 1 ELSE 0
  IN  CASE d[p] = StStop  -> 0
        [] d[p] = StData  -> one + LengthFrom(d, AfterData(d, p), level)
        [] d[p] = StOpen  -> one + LengthFrom(d, p + 1, level + 1)
        [] d[p] = StClose -> LengthFrom(d, p + 1, level - 1)
SexpLength(list) == IF list = Null THEN 0 ELSE LengthFrom(list, 1, 0)

\* _gcry_sexp_find_token: the first list, at any depth, that starts with tok.
RECURSIVE FindFrom(_, _, _)
FindFrom(d, p, tok) ==
  CASE d[p] = StStop -> Null
    [] d[p] = StOpen /\ d[p + 1] = StData ->
         LET behind == AfterData(d, p + 1)
         IN  IF BytesAt(d, p + 1) = tok
             THEN Normalize(Append(Cut(d, p, Leave(d, behind, 1) - p), StStop))
             ELSE FindFrom(d, behind, tok)
    [] d[p] = StData -> FindFrom(d, AfterData(d, p), tok)
    [] OTHER -> FindFrom(d, p + 1, tok)
SexpFindToken(list, tok) == IF list = Null THEN Null ELSE FindFrom(list, 1, tok)

-----------------------------------------------------------------------------
(* Characters *)

DigitOf == [c \in {"0", "1", "2", "3", "4", "5", "6", "7", "8", "9"} |->
              CHOOSE n \in 0..9 : ToString(n) = c]
Digits == DOMAIN DigitOf
Letters == {"F", "x"}               \* F is a hex digit, x is not
TokenChars == Digits \union Letters \union {":"}
Spaces == {" ", "LF", "CR"}
Escaped == {"\"", "\\"}             \* printed with a backslash
HexDigits == Digits \union {"F"}

\* The bytes data is made of, and the two hex digits of each; data that starts
\* with "ff" is shown in hex.
HexOf == [b \in {"F", "1", " ", "\"", "ff"} |->
            CASE b = "F" -> <<"4", "6">> [] b = "1" -> <<"3", "1">>
              [] b = " " -> <<"2", "0">> [] b = "\"" -> <<"2", "2">>
              [] b = "ff" -> <<"F", "F">>]
ByteOf(c1, c2) ==
  IF \E b \in DOMAIN HexOf : HexOf[b] = <<c1, c2>>
  THEN CHOOSE b \in DOMAIN HexOf : HexOf[b] = <<c1, c2>>
  ELSE "F"

-----------------------------------------------------------------------------
(* The printer *)

RECURSIVE Numeral(_)
Numeral(n) == IF n < 10 THEN <<ToString(n)>>
              ELSE Append(Numeral(n \div 10), ToString(n % 10))

\* suitable_encoding
SuitableEncoding(b) ==
  CASE b = <<>> -> "string"
    [] b # <<>> /\ b[1] = "ff" -> "hex"
    [] b # <<>> /\ \A i \in 1..Len(b) : b[i] \in TokenChars /\ b[1] \notin Digits
         -> "token"
    [] OTHER -> "string"

\* convert_to_hex, convert_to_string and convert_to_token
Shown(b) ==
  CASE SuitableEncoding(b) = "token" -> b
    [] SuitableEncoding(b) = "hex" ->
         <<"#">> \o FlattenSeq([i \in 1..Len(b) |-> HexOf[b[i]]]) \o <<"#">>
    [] SuitableEncoding(b) = "string" ->
         <<"\"">> \o FlattenSeq([i \in 1..Len(b) |->
                       IF b[i] \in Escaped THEN <<"\\", b[i]>> ELSE <<b[i]>>])
         \o <<"\"">>

\* _gcry_sexp_sprint; indentation is one newline.
RECURSIVE PrintFrom(_, _, _, _)
PrintFrom(d, p, canon, indent) ==
  LET Line(c) == IF canon \/ ~c THEN <<>> ELSE <<"LF">>
  IN  CASE d[p] = StStop -> Line(TRUE)
        [] d[p] = StOpen ->
             Line(indent > 0) \o <<"(">> \o PrintFrom(d, p + 1, canon, indent + 1)
        [] d[p] = StClose ->
             <<")">> \o Line(d[p + 1] \notin {StOpen, StStop})
             \o PrintFrom(d, p + 1, canon, indent - 1)
        [] d[p] = StData ->
             LET b == BytesAt(d, p)
             IN  (IF canon THEN Numeral(Len(b)) \o <<":">> \o b
                  ELSE Shown(b) \o (IF d[AfterData(d, p)] # StClose
                                    THEN <<" ">> ELSE <<>>))
                 \o PrintFrom(d, AfterData(d, p), canon, indent)
SexpSprint(list, canon) ==
  PrintFrom(IF list = Null THEN <<StOpen, StClose, StStop>> ELSE list, 1, canon, 0)
=============================================================================
