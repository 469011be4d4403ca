------------------------------ MODULE MpiLimbs ------------------------------
(***************************************************************************)
(* The limb arithmetic of src/mpi: natural numbers as vectors of limbs,    *)
(* the least significant one first (generic/mpih-*.c, mpi-inline.h,        *)
(* mpih-mul.c and mpih-div.c).  A limb has LimbBits bits and every         *)
(* addition of limbs wraps, so each carry is found the way the code finds  *)
(* it, by comparing the wrapped result with an operand.                    *)
(*                                                                         *)
(* A vector is a sequence: up[i] of the C code is u[i + 1].  A function    *)
(* that stores a vector and returns a carry is an operator that returns    *)
(* both as the pair <<vector, carry>>.  Vectors are passed by value: the   *)
(* overlaps of source and destination that the code allows (RES == S1) are *)
(* reads before the write of the same limb and show nothing here.          *)
(***************************************************************************)
EXTENDS Integers, Sequences, SequencesExt

CONSTANTS
  LimbBits,   \* BITS_PER_MPI_LIMB
  Threshold   \* KARATSUBA_THRESHOLD, in limbs

ASSUME LimbAssumption == /\ LimbBits \in Nat \ {0}
                         /\ Threshold \in Nat \ {0, 1}

B == 2 ^ LimbBits

Bool2Limb(b) == IF b THEN 1 ELSE 0

\* The two limbs of a product (umul_ppmm); an overflowing limb keeps Low.
Low(x) == x % B

High(x) == (x \div B) % B

\* count_leading_zeros of a limb that is not zero.
Clz(limb) == LimbBits - 1 - Max({k \in 0 .. LimbBits - 1 : limb \div 2 ^ k > 0})

\* The limbs of s from C index i on, n of them.
Part(s, i, n) == SubSeq(s, i + 1, i + n)

\* s with the vector t stored from C index i on.
Stored(s, i, t) ==
  [j \in 1 .. Len(s) |-> IF j \in i + 1 .. i + Len(t) THEN t[j - i] ELSE s[j]]

Zeros(n) == [j \in 1 .. n |-> 0]

----------------------------------------------------------------------------
(* One pass over the limbs, low to high, that hands on a carry. *)

OneMore(before, now) == <<Append(before[1], now[1]), now[2]>>

Pass(Step(_, _), n) ==
  LET done[j \in 0 .. n] ==
        IF j = 0 THEN <<<< >>, 0>>
        ELSE OneMore(done[j - 1], Step(j, done[j - 1][2]))
  IN  done[n]

AddN(s, t) ==
  LET Step(j, cy) == LET y1 == Low(t[j] + cy)
                         y2 == Low(y1 + s[j])
                     IN  <<y2, Bool2Limb(y1 < cy) + Bool2Limb(y2 < s[j])>>
  IN  Pass(Step, Len(s))

SubN(s, t) ==
  LET Step(j, cy) == LET y1 == Low(t[j] + cy)
                         y2 == Low(s[j] - y1)
                     IN  <<y2, Bool2Limb(y1 < cy) + Bool2Limb(y2 > s[j])>>
  IN  Pass(Step, Len(s))

Mul1(s, m) ==
  LET Step(j, cy) == LET low == Low(Low(s[j] * m) + cy)
                     IN  <<low, Low(Bool2Limb(low < cy) + High(s[j] * m))>>
  IN  Pass(Step, Len(s))

AddMul1(r, s, m) ==
  LET Step(j, cy) ==
        LET low == Low(Low(s[j] * m) + cy)
            sum == Low(r[j] + low)
        IN  <<sum, Low(Bool2Limb(low < cy) + High(s[j] * m)
                      + Bool2Limb(sum < r[j]))>>
  IN  Pass(Step, Len(s))

SubMul1(r, s, m) ==
  LET Step(j, cy) ==
        LET low == Low(Low(s[j] * m) + cy)
            diff == Low(r[j] - low)
        IN  <<diff, Low(Bool2Limb(low < cy) + High(s[j] * m)
                       + Bool2Limb(diff > r[j]))>>
  IN  Pass(Step, Len(s))

\* Only the first limb meets the operand, the others a carry of one.
Add1(s, m) ==
  LET Step(j, cy) == LET x == Low(s[j] + (IF j = 1 THEN m ELSE cy))
                     IN  <<x, Bool2Limb(IF j = 1 THEN x < s[j]
                                                 ELSE cy = 1 /\ x = 0)>>
  IN  Pass(Step, Len(s))

Sub1(s, m) ==
  LET Step(j, cy) == LET x == Low(s[j] - (IF j = 1 THEN m ELSE cy))
                     IN  <<x, Bool2Limb(IF j = 1 THEN x > s[j]
                                                 ELSE cy = 1 /\ s[j] = 0)>>
  IN  Pass(Step, Len(s))

\* A vector with its carry: as one vector, and in front of a longer one.
Extended(p) == Append(p[1], p[2])

InFront(low, high) == <<low[1] \o high[1], high[2]>>

\* The longer operand is s.  The carry of AddN enters the rest through Add1.
HandedOn(low, rest, One(_, _)) ==
  InFront(low, IF rest = << >> THEN <<<< >>, low[2]>> ELSE One(rest, low[2]))

Longer(s, t, Same(_, _), One(_, _)) ==
  HandedOn(IF t = << >> THEN <<<< >>, 0>> ELSE Same(Part(s, 0, Len(t)), t),
           Part(s, Len(t), Len(s) - Len(t)), One)

AddLimbs(s, t) == Longer(s, t, AddN, Add1)

SubLimbs(s, t) == Longer(s, t, SubN, Sub1)

\* 1, 0 or -1: from the top limb down, the first difference decides.
CmpLimbs(s, t) ==
  LET differ == {j \in 1 .. Len(s) : s[j] # t[j]}
      top == CHOOSE j \in differ : \A k \in differ : k <= j
  IN  IF differ = {} THEN 0 ELSE IF s[top] > t[top] THEN 1 ELSE -1

\* MPN_NORMALIZE: zero limbs at the top are dropped.
Normalized(s) ==
  LET set == {j \in 1 .. Len(s) : s[j] # 0}
      top == CHOOSE j \in set : \A k \in set : k <= j
  IN  IF set = {} THEN << >> ELSE SubSeq(s, 1, top)

\* Shifts by 0 < cnt < LimbBits; the left one returns the bits shifted out.
LShift(s, cnt) ==
  LET out(j) == IF j = 0 THEN 0 ELSE s[j] \div 2 ^ (LimbBits - cnt)
  IN  <<[j \in 1 .. Len(s) |-> Low(s[j] * 2 ^ cnt) + out(j - 1)], out(Len(s))>>

RShift(s, cnt) ==
  LET in(j) == IF j > Len(s) THEN 0 ELSE Low(s[j] * 2 ^ (LimbBits - cnt))
  IN  [j \in 1 .. Len(s) |-> (s[j] \div 2 ^ cnt) + in(j + 1)]

----------------------------------------------------------------------------
(* Multiplication.  u has at least as many limbs as v, and v at least one. *)

\* One row of the schoolbook method: prod from row i on gains u * m.
Row(prod, u, i, m) ==
  LET at == Part(prod, i, Len(u))
  IN  Stored(prod, i, Extended(IF m = 0 THEN <<at, 0>>
                               ELSE IF m = 1 THEN AddN(at, u) ELSE AddMul1(at, u, m)))

\* mul_n_basecase, _gcry_mpih_sqr_n_basecase and the short _gcry_mpih_mul.
MulBasecase(u, v) ==
  LET first == IF v[1] = 0 THEN <<Zeros(Len(u)), 0>>
               ELSE IF v[1] = 1 THEN <<u, 0>> ELSE Mul1(u, v[1])
  IN  FoldLeftDomain(LAMBDA prod, i : IF i = 1 THEN prod
                                      ELSE Row(prod, u, i - 1, v[i]),
                     Extended(first) \o Zeros(Len(v) - 1), v)

\* The even case of mul_n and sqr_n, from the products of the halves: high,
\* the product of the differences and low.  cy is an unsigned limb that may
\* be -1 for a while.
Carried(p, cy, negative) ==
  <<p[1], Low(IF negative THEN cy - p[2] ELSE cy + p[2])>>

\* The differences on top of both halves of high, p2 being their sum; then low.
WithMiddle(high0, p2, middle, negative) ==
  Carried(IF negative THEN SubN(high0 \o p2[1], middle)
                      ELSE AddN(high0 \o p2[1], middle), p2[2], negative)

WithLow(mid, low) == Carried(AddN(mid[1], low), mid[2], FALSE)

\* The carry enters the top, and low1 the lower half of mid.
WithTop(low0, p1, top) ==
  low0 \o p1[1] \o (IF p1[2] = 0 THEN top ELSE Add1(top, 1)[1])

Joined(mid, high1, low) ==
  LET n == Len(high1)
  IN  WithTop(Part(low, 0, n), AddN(Part(mid[1], 0, n), Part(low, n, n)),
              Part(mid[1], n, n)
                \o (IF mid[2] = 0 THEN high1 ELSE Add1(high1, mid[2])[1]))

Assembled(high, middle, negative, low) ==
  LET n == Len(high) \div 2
      high0 == Part(high, 0, n)
      high1 == Part(high, n, n)
  IN  Joined(WithLow(WithMiddle(high0, AddN(high0, high1), middle, negative), low),
             high1, low)

\* |s - t| and whether s < t.
Difference(s, t) == IF CmpLimbs(s, t) >= 0 THEN <<SubN(s, t)[1], FALSE>>
                                           ELSE <<SubN(t, s)[1], TRUE>>

\* The top limbs of two vectors of odd size, the rest being multiplied.
OddTop(prod, u, v) ==
  LET e == Len(u) - 1
  IN  Part(prod, 0, e)
        \o Extended(AddMul1(Extended(AddMul1(Part(prod, e, e), Part(u, 0, e), v[e + 1])),
                            v, u[e + 1]))

\* MPN_MUL_N_RECURSE with mul_n.
RECURSIVE MulRecurse(_, _)
MulEven(u, v, n, du, dv) ==
  Assembled(MulRecurse(Part(u, n, n), Part(v, n, n)),
            MulRecurse(du[1], dv[1]), du[2] = dv[2],
            MulRecurse(Part(u, 0, n), Part(v, 0, n)))
MulRecurse(u, v) ==
  LET size == Len(u)
      n == size \div 2
  IN  IF size < Threshold THEN MulBasecase(u, v)
      ELSE IF size % 2 = 1
           THEN OddTop(MulRecurse(Part(u, 0, size - 1), Part(v, 0, size - 1)), u, v)
           ELSE MulEven(u, v, n, Difference(Part(u, n, n), Part(u, 0, n)),
                                 Difference(Part(v, n, n), Part(v, 0, n)))

\* MPN_SQR_N_RECURSE with _gcry_mpih_sqr_n: (U1-U0)(U0-U1) is never positive.
RECURSIVE SqrRecurse(_)
SqrRecurse(u) ==
  LET size == Len(u)
      n == size \div 2
  IN  IF size < Threshold THEN MulBasecase(u, u)
      ELSE IF size % 2 = 1 THEN OddTop(SqrRecurse(Part(u, 0, size - 1)), u, u)
           ELSE Assembled(SqrRecurse(Part(u, n, n)),
                          SqrRecurse(Difference(Part(u, n, n), Part(u, 0, n))[1]),
                          TRUE, SqrRecurse(Part(u, 0, n)))

\* t, longer than the n limbs of prod it meets, is added from C index i on.
Overlaid(prod, i, n, t) ==
  Part(prod, 0, i) \o HandedOn(AddN(Part(prod, i, n), Part(t, 0, n)),
                               Part(t, n, Len(t) - n), Add1)[1]

\* _gcry_mpih_mul and _gcry_mpih_mul_karatsuba_case: u is cut into pieces of
\* the size of v; what is left is multiplied with the roles exchanged.
RECURSIVE MulLimbs(_, _)
MulRest(whole, v, rest) ==
  IF rest = << >> THEN whole
  ELSE Overlaid(whole, Len(whole) - Len(v), Len(v), MulLimbs(v, rest))
MulLimbs(u, v) ==
  LET n == Len(v)
      pieces == Len(u) \div n
      piece(k) == MulRecurse(Part(u, k * n, n), v)
  IN  IF n < Threshold THEN MulBasecase(u, v)
      ELSE MulRest(FoldLeft(LAMBDA prod, k : Overlaid(prod, k * n, n, piece(k)),
                            piece(0), [k \in 1 .. pieces - 1 |-> k]),
                   v, Part(u, n * pieces, Len(u) % n))

----------------------------------------------------------------------------
(* Division.  The divisor of DivRem has its top bit set; the dividend has at  *)
(* least as many limbs.  The result is <<the limb of the quotient above       *)
(* Len(n) - Len(d), the quotient below it, the remainder>>.                   *)

\* udiv_qrnnd: two limbs by one, n1 < d.
UDiv(n1, n0, d) == <<(n1 * B + n0) \div d, (n1 * B + n0) % d>>

\* A digit and what is left, in front of the digits so far.
Digit(s, acc) == <<<<s[1]>> \o acc[1], s[2]>>

\* The quotient and the remainder below its highest limb.
Quotient(high, acc) == <<Bool2Limb(high), acc[1], acc[2]>>

\* The inverse of a limb with its top bit set, less B.
Inverted1(d) == IF 2 * d = B THEN B - 1 ELSE UDiv(B - d, 0, d)[1]

\* UDIV_QRNND_PREINV: the estimate q is too small by as often as the divisor is
\* to be taken off, twice while the upper limb is not zero and once more.
UDivInv(n1, n0, d) ==
  LET q == Low(High(n1 * Inverted1(d)) + n1)
      Off(k) == n1 * B + n0 - (q + k) * d
      twice == IF High(Off(0)) = 0 THEN 0 ELSE IF High(Off(1)) = 0 THEN 1 ELSE 2
      k == IF Low(Off(twice)) >= d THEN twice + 1 ELSE twice
  IN  <<Low(q + k), Low(Off(k))>>

\* A digit of the quotient: which way is cheaper (UDIV_TIME) depends on the
\* machine.
UDivAs(inverted, n1, n0, d) ==
  IF inverted THEN UDivInv(n1, n0, d) ELSE UDiv(n1, n0, d)

\* _gcry_mpih_divmod_1: any divisor; <<quotient, remainder>>.
DivMod1(n, d, inverted) ==
  LET top == n[Len(n)]
      from == IF top >= d THEN Len(n) ELSE Len(n) - 1
      Down(acc, limb) == Digit(UDivAs(inverted, acc[2], limb, d), acc)
  IN  FoldLeft(Down, IF top >= d THEN <<<< >>, 0>> ELSE <<<<0>>, top>>,
               Reverse(SubSeq(n, 1, from)))

\* The same where the divisor must have its top bit set: both are shifted.
DivMod1Shifted(n, d, inverted) ==
  LET steps == Clz(d)
      Down(acc, limb) == Digit(UDivAs(inverted, acc[2], limb, d * 2 ^ steps), acc)
      Shifted(s) == FoldLeft(Down, <<<< >>, s[2]>>, Reverse(s[1]))
      Back(acc) == <<acc[1], acc[2] \div 2 ^ steps>>
  IN  IF steps = 0 THEN DivMod1(n, d, inverted) ELSE Back(Shifted(LShift(n, steps)))

\* Case 1 of _gcry_mpih_divrem; the remainder is one limb.
DivRem1(n, d) ==
  LET top == n[Len(n)]
      Down(acc, limb) == Digit(UDiv(acc[2], limb, d), acc)
      Vector(acc) == <<acc[1], <<acc[2]>>>>
  IN  Quotient(top >= d,
               Vector(FoldLeft(Down, <<<< >>, IF top >= d THEN top - d ELSE top>>,
                               Reverse(SubSeq(n, 1, Len(n) - 1)))))

\* The two limbs of a wrapped two-limb sum or difference (sub_ddmmss), as a
\* vector.
Pair(x) == <<Low(x), High(x)>>

\* q_test: the estimate q is lowered until q * d0 fits below the remainder.
RECURSIVE Lowered(_, _, _, _, _)
Lowered(q, r, prod, n2, d) ==
  LET r2 == Low(r + d[2])
      prod2 == (prod - d[1]) % (B * B)
  IN  IF prod <= r * B + n2 THEN <<q, r, prod>>
      ELSE IF r2 < d[2] THEN <<q - 1, r2, prod2>>
           ELSE Lowered(q - 1, r2, prod2, n2, d)

\* One step of case 2: <<q, <<n0, n1>>>> from the remainder n1 n0 and the next
\* limb n2.
Reached2(low, n2) == <<low[1], Pair(low[2] * B + n2 - low[3])>>

Guessed2(est, n2, d) == Lowered(est[1], est[2], d[1] * est[1], n2, d)

Step2(n1, n0, n2, d) ==
  LET r == Low(n0 + d[2])
  IN  IF n1 = d[2] /\ r < d[2] THEN <<B - 1, Pair(Low(r - d[1]) * B + n2 + d[1])>>
      ELSE Reached2(IF n1 = d[2]
                    THEN Lowered(B - 1, r, (IF d[1] = 0 THEN 0 ELSE d[1] - 1) * B
                                             + Low(-d[1]), n2, d)
                    ELSE Guessed2(UDiv(n1, n0, d[2]), n2, d), n2)

DivRem2(n, d) ==
  LET head == Part(n, Len(n) - 2, 2)
      high == CmpLimbs(head, d) >= 0
      Down(acc, limb) == Digit(Step2(acc[2][2], acc[2][1], limb, d), acc)
  IN  Quotient(high, FoldLeft(Down, <<<< >>, IF high THEN SubN(head, d)[1] ELSE head>>,
                              Reverse(SubSeq(n, 1, Len(n) - 2))))

\* The estimate of the default case: from the two top limbs of the divisor.
RECURSIVE Corrected(_, _, _, _, _, _)
Corrected(q, r, prod, next, dX, d1) ==
  LET r2 == Low(r + dX)
  IN  IF prod <= r * B + next THEN q
      ELSE IF r2 < dX THEN q - 1
           ELSE Corrected(q - 1, r2, (prod - d1) % (B * B), next, dX, d1)

GuessedN(est, next, dX, d1) == Corrected(est[1], est[2], d1 * est[1], next, dX, d1)

Estimate(n0, rest, d) ==
  LET size == Len(d)
  IN  IF n0 = d[size] THEN B - 1
      ELSE GuessedN(UDiv(n0, rest[size], d[size]), rest[size - 1],
                    d[size], d[size - 1])

\* A bug: an estimate that is one too large is kept.
AddedBack_Never(n2, sub, d, q) == <<q, sub[1]>>

\* submul_1, and the divisor added back when the estimate was one too large.
AddedBack(n2, sub, d, q) ==
  IF n2 # sub[2] THEN <<q - 1, AddN(sub[1], d)[1]>> ELSE <<q, sub[1]>>

\* One step of the default case: the window moves down by one limb.
Subtracted(n2, rest, d, q) == AddedBack(n2, SubMul1(rest, d, q), d, q)

StepN(window, limb, d) ==
  LET rest == <<limb>> \o Front(window)
      n2 == window[Len(window)]
  IN  Subtracted(n2, rest, d, Estimate(n2, rest, d))

DivRemN(n, d) ==
  LET size == Len(d)
      more == Len(n) - size
      head == Part(n, more, size)
      high == \/ head[size] > d[size]
              \/ /\ head[size] = d[size]
                 /\ CmpLimbs(Front(head), Front(d)) >= 0
      Down(acc, limb) == Digit(StepN(acc[2], limb, d), acc)
  IN  Quotient(high, FoldLeft(Down, <<<< >>, IF high THEN SubN(head, d)[1] ELSE head>>,
                              Reverse(SubSeq(n, 1, more))))

\* _gcry_mpih_divrem, as its callers use it: no extra quotient limbs.
DivRem(n, d) == CASE Len(d) = 1 -> DivRem1(n, d[1])
                  [] Len(d) = 2 -> DivRem2(n, d)
                  [] OTHER      -> DivRemN(n, d)
=============================================================================
