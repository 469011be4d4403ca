------------------------------- MODULE MpiUse -------------------------------
(***************************************************************************)
(* A program that computes with the integers of src/mpi.  It holds two     *)
(* MPIs and calls one function after the other, with any of the two as     *)
(* result and as operands, so results replace operands, zero keeps odd     *)
(* signs and zero limbs stay at the top of numbers.  Single computations   *)
(* on longer operands (Probe) reach the algorithms that the two small      *)
(* numbers do not.                                                         *)
(*                                                                         *)
(* val is what the documentation says the MPIs are, as integers.           *)
(***************************************************************************)
EXTENDS MpiModular

CONSTANTS
  MaxLimbs,   \* limbs of the two MPIs
  Minds,      \* the traps the program keeps clear of: "top" (it computes with
              \* normalised numbers), "floor" (it floors no quotient in place),
              \* "sign" (it stores an inverse or sets a bit where no sign is left)
  ProbeLimbs, \* pairs <<limbs of the first operand, limbs of the second>>
              \* of the products and divisions, as 10 * first + second
  PowLimbs,   \* limbs of the base and of the modulus given to mpi_powm
  ExpoLimbs   \* limbs of its exponent, and of the operands of mpi_invm

VARIABLES
  reg,    \* the MPIs
  val,    \* the integers they stand for
  loose,  \* the ones that may have zero limbs at the top
  probe   \* the last single computation: operands and results

vars == <<reg, val, loose, probe>>

Regs == {"a", "b"}

Limb == 0 .. B - 1

Counts == 0 .. LimbBits * MaxLimbs   \* bit numbers and shift counts

Idle == [kind |-> "idle"]

----------------------------------------------------------------------------
(* What the numbers are. *)

\* The natural number of a vector of limbs, and the integer of an MPI.
ValueOf(d) == FoldRight(LAMBDA limb, acc : acc * B + limb, d, 0)

IntOf(u) == IF u.neg THEN -ValueOf(u.d) ELSE ValueOf(u.d)

\* The vector of exactly n limbs, and the MPI, of a natural number.
LimbsOf(x, n) == [j \in 1 .. n |-> (x \div B ^ (j - 1)) % B]

NatMpi(x, n) == Num(FALSE, Normalized(LimbsOf(x, n)))

AbsOf(x) == IF x < 0 THEN -x ELSE x

SignOf(x) == IF x < 0 THEN -1 ELSE IF x > 0 THEN 1 ELSE 0

FloorDiv(n, d) == IF d > 0 THEN n \div d ELSE (-n) \div (-d)

TruncDiv(n, d) == SignOf(n) * SignOf(d) * (AbsOf(n) \div AbsOf(d))

Divides(k, x) == x % k = 0

GcdInt(x, y) == IF x = 0 THEN y ELSE IF y = 0 THEN x
                ELSE Max({k \in 1 .. x : Divides(k, x) /\ Divides(k, y)})

Inverses(x, n) == {k \in 0 .. n - 1 : (x * k) % n = 1 % n}

PowerInt(x, e, m) == FoldLeft(LAMBDA acc, k : (acc * x) % m, 1 % m,
                              [k \in 1 .. e |-> k])

Tight(u) == u.d = Normalized(u.d)

----------------------------------------------------------------------------
(* Calls.  A program that minds the top compares a number, which            *)
(* normalises it, before it computes with one of which bits were cleared or *)
(* that an inverse was stored in.                                           *)

Tidily(operands) == "top" \in Minds => \A r \in operands : Tight(reg[r])

Store(w, m, x) ==
  /\ probe = Idle
  /\ Len(m.d) <= MaxLimbs
  /\ reg' = [reg EXCEPT ![w] = m]
  /\ val' = [val EXCEPT ![w] = x]
  /\ loose' = loose \ {w}
  /\ UNCHANGED probe

StoreLoose(w, m, x) ==
  /\ probe = Idle
  /\ Len(m.d) <= MaxLimbs
  /\ reg' = [reg EXCEPT ![w] = m]
  /\ val' = [val EXCEPT ![w] = x]
  /\ loose' = loose \cup {w}
  /\ UNCHANGED probe

DoAdd(w, u, v) == Tidily({u, v}) /\ Store(w, Add(reg[u], reg[v]), val[u] + val[v])

DoSub(w, u, v) == Tidily({u, v}) /\ Store(w, Sub(reg[u], reg[v]), val[u] - val[v])

DoMul(w, u, v) == Tidily({u, v}) /\ Store(w, Mul(reg[u], reg[v]), val[u] * val[v])

DoAddUi(w, u, k) == Tidily({u}) /\ Store(w, AddUi(reg[u], k), val[u] + k)

DoSubUi(w, u, k) == Tidily({u}) /\ Store(w, SubUi(reg[u], k), val[u] - k)

DoMulUi(w, u, k) == Tidily({u}) /\ Store(w, MulUi(reg[u], k), val[u] * k)

DoMul2Exp(w, u, n) == Tidily({u}) /\ Store(w, Mul2Exp(reg[u], n), val[u] * 2 ^ n)

DoLshift(w, u, n) ==
  Tidily({u}) /\ Store(w, MpiLshift(reg[u], n, w = u), val[u] * 2 ^ n)

DoRshift(w, u, n) == Tidily({u}) /\ Store(w, MpiRshift(reg[u], n), TruncDiv(val[u], 2 ^ n))

\* Quotient and remainder, stored at q and r.
StoreBoth(q, r, u, v, res, quot) ==
  /\ probe = Idle
  /\ reg' = [reg EXCEPT ![q] = res[1], ![r] = res[2]]
  /\ val' = [val EXCEPT ![q] = quot, ![r] = val[u] - quot * val[v]]
  /\ loose' = loose \ {q, r}
  /\ UNCHANGED probe

\* gcry_mpi_div with a quotient and a remainder, rounding to zero.
DoDiv(q, r, u, v) ==
  /\ q # r /\ val[v] # 0 /\ Tidily({u, v})
  /\ StoreBoth(q, r, u, v, TdivQr(reg[u], reg[v]), TruncDiv(val[u], val[v]))

\* Rounding down: the quotient may replace the dividend.
DoFloorDiv(q, r, u, v) ==
  /\ q # r /\ val[v] # 0 /\ Tidily({u, v})
  /\ "floor" \in Minds => q # u
  /\ StoreBoth(q, r, u, v, FdivQr(reg[u], reg[v], q = u), FloorDiv(val[u], val[v]))

\* The result of the modular operations, a modulus may be negative.
FloorMod(x, m) == x - m * FloorDiv(x, m)

DoMod(w, u, m) ==
  /\ val[m] # 0 /\ Tidily({u, m})
  /\ Store(w, Mod(reg[u], reg[m]), FloorMod(val[u], val[m]))

DoAddm(w, u, v, m) ==
  /\ val[m] # 0 /\ Tidily({u, v, m})
  /\ Store(w, Addm(reg[u], reg[v], reg[m]), FloorMod(val[u] + val[v], val[m]))

DoSubm(w, u, v, m) ==
  /\ val[m] # 0 /\ Tidily({u, v, m})
  /\ Store(w, Subm(reg[u], reg[v], reg[m]), FloorMod(val[u] - val[v], val[m]))

\* mulm keeps the sign of the product.
DoMulm(w, u, v, m) ==
  /\ val[m] # 0 /\ Tidily({u, v, m})
  /\ Store(w, Mulm(reg[u], reg[v], reg[m]),
           val[u] * val[v] - val[m] * TruncDiv(val[u] * val[v], val[m]))

DoGcd(w, u, v) ==
  /\ Tidily({u, v})
  /\ Store(w, Gcd(reg[u], reg[v]), GcdInt(AbsOf(val[u]), AbsOf(val[v])))

\* The result keeps its own sign and may have zero limbs.
DoInvm(w, u, n) ==
  LET inv == Inverses(val[u], val[n])
  IN  /\ val[u] >= 0 /\ val[n] > 0 /\ ~reg[u].neg
      /\ "sign" \in Minds => ~reg[w].neg
      /\ Tidily({u, n})
      /\ StoreLoose(w, Invm(reg[w], reg[u], reg[n]),
                    IF val[u] = 0 \/ val[n] = 1 \/ inv = {} THEN val[w]
                    ELSE CHOOSE x \in inv : TRUE)

\* Bits of the magnitude.  A zero that kept a sign becomes negative.
Signed(r, x) == IF val[r] < 0 THEN -x ELSE x

SignRight(r) == "sign" \in Minds => ~(reg[r].neg /\ val[r] = 0)

Magnitude(r) == AbsOf(val[r])

DoSetBit(r, n) ==
  /\ Tidily({r}) /\ SignRight(r)
  /\ Store(r, SetBit(reg[r], n),
           Signed(r, Magnitude(r) + (IF TestBit(reg[r], n) THEN 0 ELSE 2 ^ n)))

DoSetHighbit(r, n) ==
  /\ Tidily({r}) /\ SignRight(r)
  /\ Store(r, SetHighbit(reg[r], n), Signed(r, (Magnitude(r) % 2 ^ n) + 2 ^ n))

DoClearBit(r, n) ==
  StoreLoose(r, ClearBit(reg[r], n),
             Signed(r, Magnitude(r) - (IF TestBit(reg[r], n) THEN 2 ^ n ELSE 0)))

DoClearHighbit(r, n) ==
  StoreLoose(r, ClearHighbit(reg[r], n), Signed(r, Magnitude(r) % 2 ^ n))

\* gcry_mpi_neg and gcry_mpi_set
DoNeg(w, u) == Tidily({u}) /\ Store(w, Num(~reg[u].neg, reg[u].d), -val[u])

\* gcry_mpi_cmp_ui on r: normalises it.
DoCompare(r) == reg[r] # Clean(reg[r]) /\ Store(r, Clean(reg[r]), val[r])

----------------------------------------------------------------------------
(* Single computations.  Operands are natural numbers; out holds what came  *)
(* out, as integers.                                                        *)

Fresh == reg = [r \in Regs |-> Zero] /\ loose = {} /\ probe = Idle

Long(l) == l \div 10

Short(l) == l % 10

\* A number of exactly n limbs, the top one not zero.
OfLimbs(n) == B ^ (n - 1) .. B ^ n - 1

\* A computation of this kind with these operands and this outcome.
Probed(kind, x, y, out) ==
  probe' = [kind |-> kind, x |-> x, y |-> y, out |-> out]

ProbeDiv(l) ==
  /\ Fresh
  /\ \E x \in OfLimbs(Long(l)), y \in OfLimbs(Short(l)) :
       \E res \in {TdivQr(NatMpi(x, Long(l)), NatMpi(y, Short(l)))} :
         Probed("div", x, y, <<IntOf(res[1]), IntOf(res[2])>>)
  /\ UNCHANGED <<reg, val, loose>>

\* By one limb, in the ways of the other machines.
ProbeDiv1(l) ==
  /\ Fresh
  /\ \E x \in OfLimbs(Long(l)), y \in OfLimbs(1) :
       LET n == LimbsOf(x, Long(l))
       IN  \E res \in {DivMod1Shifted(n, y, inverted) : inverted \in BOOLEAN} :
             Probed("div", x, y, <<ValueOf(res[1]), res[2]>>)
  /\ UNCHANGED <<reg, val, loose>>

ProbeMul(l) ==
  /\ Fresh
  /\ \E x \in OfLimbs(Long(l)), y \in OfLimbs(Short(l)) :
       Probed("mul", x, y, <<ValueOf(MulLimbs(LimbsOf(x, Long(l)),
                                              LimbsOf(y, Short(l))))>>)
  /\ UNCHANGED <<reg, val, loose>>

ProbeSqr(l) ==
  /\ Fresh
  /\ \E x \in OfLimbs(Long(l)) :
       Probed("mul", x, x, <<ValueOf(SqrRecurse(LimbsOf(x, Long(l))))>>)
  /\ UNCHANGED <<reg, val, loose>>

ProbeMod(l) ==
  /\ Fresh
  /\ \E x \in OfLimbs(Long(l)), y \in OfLimbs(Short(l)) :
       Probed("mod", x, y, <<ValueOf(ModLimbs(LimbsOf(x, Long(l)),
                                              LimbsOf(y, Short(l))))>>)
  /\ UNCHANGED <<reg, val, loose>>

ProbeBarrett(l) ==
  /\ Fresh
  /\ \E x \in OfLimbs(Long(l)), y \in OfLimbs(Short(l)) :
       LET m == NatMpi(y, Short(l))
       IN  Probed("mod", x, y, <<IntOf(ModBarrett(NatMpi(x, Long(l)), m,
                                                  BarrettY(m), TRUE))>>)
  /\ UNCHANGED <<reg, val, loose>>

Below(n) == 0 .. B ^ n - 1

ProbeInvm ==
  /\ Fresh
  /\ \E x \in Below(ExpoLimbs), n \in Below(ExpoLimbs) \ {0} :
       \E res \in {InvmLimbs(NatMpi(x, ExpoLimbs), NatMpi(n, ExpoLimbs))} :
         Probed("invm", x, n, IF res = None THEN << >> ELSE <<ValueOf(res)>>)
  /\ UNCHANGED <<reg, val, loose>>

ProbePowm ==
  /\ Fresh
  /\ \E x \in Below(PowLimbs), e \in Below(ExpoLimbs), m \in Below(PowLimbs) \ {0} :
       Probed("powm", <<x, e>>, m, <<IntOf(Powm(NatMpi(x, PowLimbs),
                                                NatMpi(e, ExpoLimbs),
                                                NatMpi(m, PowLimbs)))>>)
  /\ UNCHANGED <<reg, val, loose>>

ProbeEnd == probe # Idle /\ probe' = Idle /\ UNCHANGED <<reg, val, loose>>

----------------------------------------------------------------------------
Init == /\ reg = [r \in Regs |-> Zero]
        /\ val = [r \in Regs |-> 0]
        /\ loose = {}
        /\ probe = Idle

Compute ==
  \/ \E w, u, v \in Regs : \/ DoAdd(w, u, v)
                           \/ DoSub(w, u, v)
                           \/ DoMul(w, u, v)
                           \/ DoMod(w, u, v)
                           \/ DoGcd(w, u, v)
                           \/ DoInvm(w, u, v)
  \/ \E w, u, v, m \in Regs : \/ DoDiv(w, m, u, v)
                              \/ DoFloorDiv(w, m, u, v)
                              \/ DoAddm(w, u, v, m)
                              \/ DoSubm(w, u, v, m)
                              \/ DoMulm(w, u, v, m)
  \/ \E w, u \in Regs, k \in Limb : \/ DoAddUi(w, u, k)
                                    \/ DoSubUi(w, u, k)
                                    \/ DoMulUi(w, u, k)
  \/ \E w, u \in Regs, n \in Counts : \/ DoMul2Exp(w, u, n)
                                      \/ DoLshift(w, u, n)
                                      \/ DoRshift(w, u, n)
  \/ \E r \in Regs, n \in Counts : \/ DoSetBit(r, n)
                                   \/ DoSetHighbit(r, n)
                                   \/ DoClearBit(r, n)
                                   \/ DoClearHighbit(r, n)
  \/ \E w, u \in Regs : DoNeg(w, u)
  \/ \E r \in Regs : DoCompare(r)

Probe ==
  \/ \E l \in ProbeLimbs : \/ ProbeDiv(l)
                           \/ ProbeDiv1(l)
                           \/ ProbeMul(l)
                           \/ ProbeSqr(l)
                           \/ ProbeMod(l)
                           \/ ProbeBarrett(l)
  \/ ProbeInvm
  \/ ProbePowm

Next == Compute \/ Probe \/ ProbeEnd

Spec == Init /\ [][Next]_vars

----------------------------------------------------------------------------
(* After any sequence of calls each MPI is the integer the documented       *)
(* operations give ("w = u - v", doc/gcrypt.texi:5370).  A program that does *)
(* not keep clear of the traps of Minds finds it broken: see the README.    *)
Computes == \A r \in Regs : IntOf(reg[r]) = val[r]

(* After any sequence of calls each MPI is the integer the documented       *)
(* operations give, and only the operations that leave zero limbs behind    *)
(* do: every carry and borrow was handed on, every sign and every length    *)
(* was chosen right, whatever operand the result replaced.                  *)
ValuesRight == Computes /\ \A r \in Regs \ loose : Tight(reg[r])

(* The comparisons order the numbers as the integers are ordered, -0 and    *)
(* zero limbs at the top included.  Two MPIs with a minus sign and of       *)
(* different lengths are left out: do_mpi_cmp adds their lengths            *)
(* (mpi-cmp.c:107) and answers "greater" whichever is.                      *)
ComparesRight ==
  \A u, v \in Regs :
    /\ \/ reg[u].neg /\ reg[v].neg
            /\ Len(Normalized(reg[u].d)) # Len(Normalized(reg[v].d))
       \/ SignOf(Cmp(reg[u], reg[v])) = SignOf(val[u] - val[v])
    /\ SignOf(CmpAbs(reg[u], reg[v])) = SignOf(AbsOf(val[u]) - AbsOf(val[v]))
    /\ \A k \in Limb : SignOf(CmpUi(reg[u], k)) = SignOf(val[u] - k)
    /\ IsNeg(reg[u]) = (val[u] < 0)
    /\ \A n \in Counts : (n >= NBits(reg[u])) = (AbsOf(val[u]) < 2 ^ n)

(* The long algorithms compute what they are named for: the products of     *)
(* Karatsuba's method at odd, even and unequal sizes, quotient and          *)
(* remainder with every correction of the estimate, and by one limb on      *)
(* every kind of machine, the bitwise and the Barrett remainder, the        *)
(* inverse exactly when there is one, and the sliding window power.         *)
ProbesRight ==
  LET x == probe.x
      y == probe.y
  IN  CASE probe.kind = "idle" -> TRUE
        [] probe.kind = "mul"  -> probe.out = <<x * y>>
        [] probe.kind = "div"  -> probe.out = <<x \div y, x % y>>
        [] probe.kind = "mod"  -> probe.out = <<x % y>>
        [] probe.kind = "invm" ->
             IF y = 1 \/ Inverses(x, y) = {} THEN probe.out = << >>
             ELSE probe.out \in {<<k>> : k \in Inverses(x, y)}
        [] probe.kind = "powm" -> probe.out = <<PowerInt(x[1], x[2], y)>>
=============================================================================
