--------------------------------- MODULE Mpi ---------------------------------
(***************************************************************************)
(* The signed integers of src/mpi: an MPI is its sign and its limbs, the   *)
(* first nlimbs of d.  The sign of zero is whatever the last operation     *)
(* left there, and a number may have zero limbs at its top: both are       *)
(* states the code produces.                                               *)
(*                                                                         *)
(* Every operator takes the operands as they were when the function was    *)
(* called.  Where the code reads an operand after the result was stored,   *)
(* and the two may be the same MPI, the operator says which value it reads.*)
(***************************************************************************)
EXTENDS MpiLimbs, FiniteSetsExt

CONSTANT MaxWindow   \* the widest window of mpi_powm, at most LimbBits

ASSUME WindowAssumption == MaxWindow \in 1 .. LimbBits

Zero == [neg |-> FALSE, d |-> << >>]

Num(neg, d) == [neg |-> neg, d |-> d]

Clean(u) == Num(u.neg, Normalized(u.d))

\* A possible carry, or a possible zero limb, at the top.
Topped(p) == IF p[2] = 0 THEN p[1] ELSE Extended(p)

Untopped(d) == IF d # << >> /\ Last(d) = 0 THEN Front(d) ELSE d

LowBit(d) == d # << >> /\ d[1] % 2 = 1

\* count_trailing_zeros of a limb that is not zero.
Ctz(limb) == Max({k \in 0 .. LimbBits - 1 : limb % 2 ^ k = 0})

----------------------------------------------------------------------------
(* mpi-add.c *)

AddUi(u, v) ==
  IF u.d = << >> THEN Num(FALSE, Topped(<<<< >>, v>>))
  ELSE IF ~u.neg THEN Num(FALSE, Topped(Add1(u.d, v)))
  ELSE IF Len(u.d) = 1 /\ u.d[1] < v THEN Num(FALSE, <<v - u.d[1]>>)
       ELSE Num(TRUE, Untopped(Sub1(u.d, v)[1]))

SubUi(u, v) ==
  IF u.d = << >> THEN Num(TRUE, Topped(<<<< >>, v>>))
  ELSE IF u.neg THEN Num(TRUE, Topped(Add1(u.d, v)))
  ELSE IF Len(u.d) = 1 /\ u.d[1] < v THEN Num(TRUE, <<v - u.d[1]>>)
       ELSE Num(FALSE, Untopped(Sub1(u.d, v)[1]))

\* A bug: the sign of the first operand is kept when the second is larger.
AddBySize_Sign(u, v) ==
  IF v.d = << >> THEN u
  ELSE IF u.neg = v.neg THEN Num(u.neg, Topped(AddLimbs(u.d, v.d)))
  ELSE IF Len(u.d) # Len(v.d) THEN Num(u.neg, Normalized(SubLimbs(u.d, v.d)[1]))
  ELSE IF CmpLimbs(u.d, v.d) < 0
       THEN Num(u.neg, Normalized(SubN(v.d, u.d)[1]))
       ELSE Num(u.neg, Normalized(SubN(u.d, v.d)[1]))

\* The operand with more limbs first.
AddBySize(u, v) ==
  IF v.d = << >> THEN u
  ELSE IF u.neg = v.neg THEN Num(u.neg, Topped(AddLimbs(u.d, v.d)))
  ELSE IF Len(u.d) # Len(v.d) THEN Num(u.neg, Normalized(SubLimbs(u.d, v.d)[1]))
  ELSE IF CmpLimbs(u.d, v.d) < 0
       THEN Num(~u.neg, Normalized(SubN(v.d, u.d)[1]))
       ELSE Num(u.neg, Normalized(SubN(u.d, v.d)[1]))

AddInvSign(u, v, inv) ==
  LET w == Num(v.neg # inv, v.d)
  IN  IF Len(u.d) < Len(v.d) THEN AddBySize(w, u) ELSE AddBySize(u, w)

Add(u, v) == AddInvSign(u, v, FALSE)

Sub(u, v) == AddInvSign(u, v, TRUE)

----------------------------------------------------------------------------
(* mpi-mul.c *)

MulUi(u, v) ==
  IF u.d = << >> \/ v = 0 THEN Zero ELSE Num(u.neg, Topped(Mul1(u.d, v)))

Mul2Exp(u, cnt) ==
  IF u.d = << >> THEN Zero
  ELSE Num(u.neg, Zeros(cnt \div LimbBits) \o
                    (IF cnt % LimbBits = 0 THEN u.d
                     ELSE Topped(LShift(u.d, cnt % LimbBits))))

Mul(u, v) ==
  LET long == IF Len(u.d) < Len(v.d) THEN v.d ELSE u.d
      short == IF Len(u.d) < Len(v.d) THEN u.d ELSE v.d
  IN  Num(u.neg # v.neg,
          IF short = << >> THEN << >> ELSE Untopped(MulLimbs(long, short)))

----------------------------------------------------------------------------
(* mpi-div.c.  The divisor is not zero: _gcry_divide_by_zero aborts. *)

\* _gcry_mpi_tdiv_qr for a divisor of two limbs or more.
ShiftedUp(d, steps) == IF steps = 0 THEN <<d, 0>> ELSE LShift(d, steps)

ShiftedDown(rest, steps) ==
  IF steps = 0 \/ rest = << >> THEN rest ELSE Untopped(RShift(rest, steps))

LongResult(res, num, den, steps) ==
  <<Num(num.neg # den.neg, Topped(<<res[2], res[1]>>)),
    Num(num.neg, ShiftedDown(Normalized(res[3]), steps))>>

LongDiv(num, den) ==
  LET steps == Clz(Last(den.d))
  IN  LongResult(DivRem(Topped(ShiftedUp(num.d, steps)), ShiftedUp(den.d, steps)[1]),
                 num, den, steps)

\* For a divisor of one limb.
ShortResult(one, num, den) ==
  <<Num(num.neg # den.neg, Untopped(one[1])), Num(num.neg, Topped(<<<< >>, one[2]>>))>>

\* <<quotient, remainder>>, rounded to zero.
TdivQr(num, den) ==
  IF Len(num.d) < Len(den.d) THEN <<Zero, num>>
  ELSE IF Len(den.d) = 1 THEN ShortResult(DivMod1(num.d, den.d[1], FALSE), num, den)
       ELSE LongDiv(num, den)

FlooredR(rem, dividend, divisor) ==
  IF divisor.neg # dividend.neg /\ rem.d # << >> THEN Add(rem, divisor) ELSE rem

FdivR(dividend, divisor) == FlooredR(TdivQr(dividend, divisor)[2], dividend, divisor)

\* inplace: the quotient replaces the dividend, whose sign is read after that.
FlooredQr(res, dividend, divisor, inplace) ==
  LET sign == IF inplace THEN res[1].neg ELSE dividend.neg
  IN  IF divisor.neg # sign /\ res[2].d # << >>
      THEN <<SubUi(res[1], 1), Add(res[2], divisor)>> ELSE res

FdivQr(dividend, divisor, inplace) ==
  FlooredQr(TdivQr(dividend, divisor), dividend, divisor, inplace)

Mod(u, m) == FdivR(u, m)

Addm(u, v, m) == Mod(Add(u, v), m)

Subm(u, v, m) == Mod(Sub(u, v), m)

\* mulm reduces with the truncating division.
Mulm(u, v, m) == TdivQr(Mul(u, v), m)[2]

----------------------------------------------------------------------------
(* mpi-bit.c *)

MpiRshift(a, n) ==
  LET limbs == n \div LimbBits
      bits == n % LimbBits
      rest == SubSeq(a.d, limbs + 1, Len(a.d))
  IN  Num(a.neg, IF limbs >= Len(a.d) THEN << >>
                 ELSE Normalized(IF bits = 0 THEN rest ELSE RShift(rest, bits)))

\* An MPI shifted in place by nothing is left as it is.
MpiLshift(a, n, inplace) ==
  LET limbs == n \div LimbBits
      bits == n % LimbBits
  IN  IF inplace /\ n = 0 THEN a
      ELSE Num(a.neg, Normalized(Zeros(limbs) \o (IF bits = 0 \/ a.d = << >> THEN a.d
                                                  ELSE Extended(LShift(a.d, bits)))))

RshiftLimbs(a, count) == Num(a.neg, SubSeq(a.d, count + 1, Len(a.d)))

LshiftLimbs(a, count) == IF a.d = << >> THEN a ELSE Num(a.neg, Zeros(count) \o a.d)

Bit(limb, k) == (limb \div 2 ^ k) % 2

TestBit(a, n) == n \div LimbBits < Len(a.d)
                 /\ Bit(a.d[(n \div LimbBits) + 1], n % LimbBits) = 1

\* Room for limb number k, with zeros.
Grown(a, k) == IF k < Len(a.d) THEN a.d ELSE a.d \o Zeros(k + 1 - Len(a.d))

WithBit(limb, k) == IF Bit(limb, k) = 1 THEN limb ELSE limb + 2 ^ k

SetBit(a, n) ==
  LET k == n \div LimbBits
  IN  Num(a.neg, [Grown(a, k) EXCEPT ![k + 1] = WithBit(@, n % LimbBits)])

SetHighbit(a, n) ==
  LET k == n \div LimbBits
      d == [Grown(a, k) EXCEPT ![k + 1] = WithBit(@, n % LimbBits)
                                            % 2 ^ ((n % LimbBits) + 1)]
  IN  Num(a.neg, Part(d, 0, k + 1))

ClearHighbit(a, n) ==
  LET k == n \div LimbBits
  IN  IF k >= Len(a.d) THEN a
      ELSE Num(a.neg, Append(Part(a.d, 0, k), a.d[k + 1] % 2 ^ (n % LimbBits)))

ClearBit(a, n) ==
  LET k == n \div LimbBits
  IN  IF TestBit(a, n) THEN Num(a.neg, [a.d EXCEPT ![k + 1] = @ - 2 ^ (n % LimbBits)])
      ELSE a

NBits(a) == LET d == Normalized(a.d)
            IN  IF d = << >> THEN 0 ELSE Len(d) * LimbBits - Clz(Last(d))

TrailingZeros(a) ==
  LET set == {j \in 1 .. Len(a.d) : a.d[j] # 0}
  IN  (Min(set) - 1) * LimbBits + Ctz(a.d[Min(set)])

----------------------------------------------------------------------------
(* mpi-cmp.c: a number with the sign of the answer.  Both compare functions *)
(* normalise their operands for good.                                       *)

CmpUi(u, v) ==
  LET d == Normalized(u.d)
  IN  IF d = << >> THEN (IF v = 0 THEN 0 ELSE -1)
      ELSE IF u.neg THEN -1
      ELSE IF Len(d) > 1 THEN 1 ELSE CmpLimbs(d, <<v>>)

\* A bug: +0 and -0 are told apart.
CmpClean_Zeros(u, v) ==
  LET cmp == CmpLimbs(u.d, v.d)
  IN  IF ~u.neg /\ v.neg THEN 1
      ELSE IF u.neg /\ ~v.neg THEN -1
      ELSE IF Len(u.d) # Len(v.d)
           THEN (IF u.neg THEN Len(v.d) + Len(u.d) ELSE Len(u.d) - Len(v.d))
      ELSE IF cmp = 0 THEN 0 ELSE IF (cmp < 0) = u.neg THEN 1 ELSE -1

CmpClean(u, v) ==
  LET cmp == CmpLimbs(u.d, v.d)
  IN  IF u.d = << >> /\ v.d = << >> THEN 0
      ELSE IF ~u.neg /\ v.neg THEN 1
      ELSE IF u.neg /\ ~v.neg THEN -1
      ELSE IF Len(u.d) # Len(v.d)
           THEN (IF u.neg THEN Len(v.d) + Len(u.d) ELSE Len(u.d) - Len(v.d))
      ELSE IF cmp = 0 THEN 0 ELSE IF (cmp < 0) = u.neg THEN 1 ELSE -1

Cmp(u, v) == CmpClean(Clean(u), Clean(v))

CmpAbs(u, v) == CmpClean(Num(FALSE, Normalized(u.d)), Num(FALSE, Normalized(v.d)))

IsNeg(a) == a.neg /\ CmpUi(a, 0) # 0

----------------------------------------------------------------------------
(* mpi-gcd.c *)

RECURSIVE GcdOf(_, _)
GcdOf(a, b) == IF CmpUi(b, 0) = 0 THEN a ELSE GcdOf(Clean(b), FdivR(a, Clean(b)))

Gcd(a, b) == GcdOf(Num(FALSE, a.d), Num(FALSE, b.d))

=============================================================================
