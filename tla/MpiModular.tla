----------------------------- MODULE MpiModular -----------------------------
(***************************************************************************)
(* Modular arithmetic of src/mpi: the constant-time helpers                *)
(* (mpih-const-time.c), the inverse (mpi-inv.c), the Barrett reduction     *)
(* (mpi-mod.c) and the sliding window power (mpi-pow.c).                   *)
(***************************************************************************)
EXTENDS Mpi

----------------------------------------------------------------------------
(* mpih-const-time.c.  A mask made of all ones or of zeros selects, which   *)
(* is a condition here; the limb comparisons take the top bit of a borrow.  *)

CtGreater(x, y) == High(y - x) \div 2 ^ (LimbBits - 1) = 1

CtLess(x, y) == CtGreater(y, x)

Masked(res, on) == <<res[1], IF on THEN res[2] ELSE 0>>

AddNCond(u, v, on) ==
  LET Step(j, cy) == LET x == Low(u[j] + v[j])
                         y == Low(x + cy)
                     IN  <<IF on THEN y ELSE u[j],
                           Bool2Limb(CtLess(x, u[j]) \/ CtLess(y, cy))>>
  IN  Masked(Pass(Step, Len(u)), on)

SubNCond(u, v, on) ==
  LET Step(j, cy) == LET x == Low(u[j] - v[j])
                     IN  <<IF on THEN Low(x - cy) ELSE u[j],
                           Bool2Limb(CtGreater(x, u[j]) \/ CtLess(x, cy))>>
  IN  Masked(Pass(Step, Len(u)), on)

\* -u when on: the complement plus a carry that starts as the condition.
AbsCond(u, on) ==
  LET Step(j, cy) == LET not == B - 1 - u[j]
                         x == Low(not + (IF j = 1 THEN Bool2Limb(on) ELSE cy))
                     IN  <<IF on THEN x ELSE u[j], Bool2Limb(CtLess(x, not))>>
  IN  Pass(Step, Len(u))[1]

\* The shift by one bit; limbs of a single bit shift by a whole limb.
Half(u) == IF LimbBits > 1 THEN RShift(u, 1) ELSE Append(Tail(u), 0)

Double(u) == IF LimbBits > 1 THEN LShift(u, 1) ELSE <<<<0>> \o Front(u), Last(u)>>

\* _gcry_mpih_mod: v modulo u, one bit of v at a time from the top.
ModLimbs(v, u) ==
  LET Back(sub, cy) == AddNCond(sub[1], u, cy # sub[2])[1]
      Taken(twice, bit) == Back(SubN([twice[1] EXCEPT ![1] = @ + bit], u), twice[2])
      TakeBit(r, k) ==
        LET j == Len(v) * LimbBits - k
        IN  Taken(Double(r), Bit(v[(j \div LimbBits) + 1], j % LimbBits))
  IN  FoldLeft(TakeBit, Zeros(Len(u)), [k \in 1 .. Len(v) * LimbBits |-> k])

----------------------------------------------------------------------------
(* mpi-inv.c *)

None == << >>

\* One round of mpih_invm_odd on s.a, s.b, s.u and s.v, modulo n.
HalfMod(u, n1h) == AddNCond(Half(u), n1h, LowBit(u))[1]

LessMod(less, n) == AddNCond(less[1], n, less[2] = 1)[1]

OddTurn(s, n, n1h, odd, diff) ==
  LET under == diff[2] = 1
      u == IF under THEN s.v ELSE s.u
      v == IF under THEN s.u ELSE s.v
  IN  [a |-> Half(AbsCond(diff[1], under)),
       b |-> AddNCond(s.b, diff[1], under)[1],
       u |-> HalfMod(LessMod(SubNCond(u, v, odd), n), n1h),
       v |-> v]

OddRound(s, n, n1h) ==
  OddTurn(s, n, n1h, LowBit(s.a), SubNCond(s.a, s.b, LowBit(s.a)))

\* The inverse of a modulo the odd n, both of Len(n) limbs, or None.
InvmOdd(a, n) ==
  LET one == <<1>> \o Zeros(Len(n) - 1)
      n1h == Add1(Half(n), 1)[1]
      Round(s, k) == OddRound(s, n, n1h)
      Ended(s) == IF s.b = one THEN s.v ELSE None
  IN  Ended(FoldLeft(Round, [a |-> a, b |-> n, u |-> one, v |-> Zeros(Len(n))],
                     [k \in 1 .. 2 * Len(n) * LimbBits |-> k]))

\* d with only its k low bits, in the limbs those need.
LowBits(d, k) ==
  [j \in 1 .. Len(d) |-> IF k % LimbBits # 0 /\ j = (k \div LimbBits) + 1
                         THEN d[j] % 2 ^ (k % LimbBits) ELSE d[j]]

\* The inverse of a modulo 2^k.
InvmPow2(a, k) ==
  LET size == (k + LimbBits - 1) \div LimbBits
      start == <<1>> \o Zeros(size - 1)
      v == LowBits([j \in 1 .. size |-> IF j <= Len(a) THEN a[j] ELSE 0], k)
      NextBit(s, i) ==
        LET on == LowBit(s.u)
            j == ((i - 1) \div LimbBits) + 1
        IN  [x |-> [s.x EXCEPT ![j] = @ + Bool2Limb(on) * 2 ^ ((i - 1) % LimbBits)],
             u |-> Half(IF on THEN SubN(s.u, v)[1] ELSE s.u)]
      last == FoldLeft(NextBit, [x |-> Zeros(size), u |-> start],
                       [i \in 1 .. size * LimbBits |-> i])
  IN  IF LowBit(a) THEN LowBits(last.x, k) ELSE None

\* n = 2^k * q with q odd and not one: Garner's formula from both inverses.
MulAny(s, t) == IF Len(s) >= Len(t) THEN MulLimbs(s, t) ELSE MulLimbs(t, s)

Garner(x1, x2, q, k) ==
  LET size == Len(x1)
      diff == IF size >= Len(q) THEN SubLimbs(x1, x2)[1]
              ELSE SubN(x1, Part(x2, 0, size))[1]
      h == LowBits(Part(MulRecurse(LowBits(diff, k), InvmPow2(q, k)), 0, size), k)
  IN  AddLimbs(MulAny(h, q), x2)[1]

\* Both inverses exist, or there is none.
Combined(x1, x2, q, k) == IF x2 = None THEN None ELSE Garner(x1, x2, q, k)

InvmSplit(a, n, x1, q, k) ==
  IF k = NBits(n) - 1 \/ x1 = None THEN x1
  ELSE Combined(x1, InvmOdd(ModLimbs(a.d, q), q), q, k)

InvmBy(a, n, k) == InvmSplit(a, n, InvmPow2(a.d, k), MpiRshift(n, k).d, k)

InvmEven(a, n) == InvmBy(a, n, TrailingZeros(n))

\* _gcry_mpi_invm: the limbs of the inverse, or None and x is left alone.  Its
\* sign is never assigned, its top limbs may be zero and a sign of a is ignored.
\* (An even n with a negative operand goes to mpi_invm_generic.)
InvmLimbs(a, n) ==
  LET padded == a.d \o Zeros(Len(n.d) - Len(a.d))
  IN  IF CmpUi(a, 0) = 0 \/ CmpUi(n, 1) = 0 THEN None
      ELSE IF LowBit(n.d)
           THEN InvmOdd(IF Len(a.d) <= Len(n.d) THEN padded ELSE ModLimbs(a.d, n.d), n.d)
           ELSE InvmEven(a, n)

Inverted(x, res) == IF res = None THEN x ELSE Num(x.neg, res)

Invm(x, a, n) == Inverted(x, InvmLimbs(Clean(a), Clean(n)))

----------------------------------------------------------------------------
(* mpi-mod.c: the reduction with y = floor(B^2k / m), m having k limbs. *)

BarrettY(m) == FdivQr(LshiftLimbs(Num(FALSE, <<1>>), 2 * Len(m.d)), m, TRUE)[1]

\* The quick modulo operation cuts limbs off and does not normalise.
Cut(u, k) == Num(u.neg, IF Len(u.d) > k THEN Part(u.d, 0, k) ELSE u.d)

RECURSIVE Reduced(_, _)
Reduced(r, m) == IF Cmp(r, m) < 0 THEN Clean(r) ELSE Reduced(Sub(Clean(r), m), m)

NotBelow0(r, k) ==
  IF r.neg THEN Add(r, LshiftLimbs(Num(FALSE, <<1>>), k + 1)) ELSE r

\* The sign x had is put back when the result is there; that re-signs a result
\* that replaced x.
ModBarrett(x, m, y, inplace) ==
  LET k == Len(m.d)
      abs == Num(FALSE, Normalized(x.d))
      q == RshiftLimbs(Mul(RshiftLimbs(abs, k - 1), y), k + 1)
      r == Reduced(NotBelow0(Sub(Cut(abs, k + 1), Cut(Mul(q, m), k + 1)), k), m)
  IN  IF Len(abs.d) > 2 * k THEN Mod(x, m)
      ELSE IF inplace THEN Num(x.neg, r.d) ELSE r

----------------------------------------------------------------------------
(* mpi-pow.c *)

\* mul_mod: r has at least as many limbs as s; m has its top bit set.
ProdMod(prod, m) == IF Len(prod) > Len(m) THEN DivRem(prod, m)[3] ELSE prod

MulMod(r, s, m) == ProdMod(MulLimbs(r, s), m)

\* BASE^1, ^3, ^5, ... for the windows of w bits.
OddPowers(b, x, w, m) ==
  FoldLeft(LAMBDA table, i : Append(table, ProdMod(MulAny(x, Last(table)), m)),
           <<b>>, [i \in 1 .. 2 ^ (w - 1) - 1 |-> i])

Precomp(b, w, m) == OddPowers(b, MulMod(b, b, m), w, m)

RECURSIVE Squared(_, _, _)
Squared(r, times, m) == IF times = 0 THEN r ELSE Squared(MulMod(r, r, m), times - 1, m)

\* The next window: the limb index i, the rest e of that limb and its c bits
\* are left, j squarings are due.  W bits from the first set bit, the window
\* may reach into the next limb or end with the exponent.
Window(s, ep, w) ==
  LET c0 == Clz(s.e)
      e == Low(s.e * 2 ^ c0)
      c == s.c - c0
      j == s.j + c0
      below == ep[s.i - 1]
      head == e \div 2 ^ (LimbBits - w)
  IN  CASE c >= w ->
             [i |-> s.i, e |-> Low(e * 2 ^ w), c |-> c - w, j |-> j, e0 |-> head]
        [] c < w /\ s.i = 1 ->
             [i |-> 0, e |-> e, c |-> c, j |-> j + c - w,
              e0 |-> e \div 2 ^ (LimbBits - c)]
        [] OTHER ->
             [i |-> s.i - 1, e |-> Low(below * 2 ^ (w - c)), c |-> LimbBits - (w - c),
              j |-> j, e0 |-> head + (below \div 2 ^ (LimbBits - (w - c)))]

PowStep(r, win, w, table, m) ==
  LET c0 == Ctz(win.e0)
  IN  [i |-> win.i, e |-> win.e, c |-> win.c, j |-> c0,
       r |-> MulMod(Squared(r, win.j + w - c0, m),
                    table[(win.e0 \div 2 ^ (c0 + 1)) + 1], m)]

RECURSIVE PowLoop(_, _, _, _, _)
PowLoop(s, ep, w, table, m) ==
  CASE s.i = 0 -> Squared(s.r, s.j, m)
    [] s.i > 0 /\ s.e = 0 ->
         PowLoop([s EXCEPT !.i = @ - 1, !.j = @ + s.c, !.c = LimbBits,
                           !.e = IF s.i = 1 THEN 0 ELSE ep[s.i - 1]],
                 ep, w, table, m)
    [] OTHER -> PowLoop(PowStep(s.r, Window(s, ep, w), w, table, m), ep, w, table, m)

\* base^ep modulo the shifted modulus m; the top bit of ep is the base itself.
Power(b, ep, m) ==
  LET w == IF Len(ep) < MaxWindow THEN Len(ep) ELSE MaxWindow
      top == Last(ep)
      c0 == Clz(top)
  IN  PowLoop([i |-> Len(ep), e |-> Low(top * 2 ^ (c0 + 1)), c |-> LimbBits - 1 - c0,
               j |-> 0, r |-> IF w = 1 THEN b ELSE b \o Zeros(Len(m) - Len(b))],
              ep, w, Precomp(b, w, m), m)

\* The final reduction with the modulus shifted back.
LongMod(r, m) == IF Len(r) >= Len(m) THEN DivRem(r, m)[3] ELSE r

PowReduced(r, m, steps) ==
  Normalized(ShiftedDown(LongMod(Topped(ShiftedUp(r, steps)), m), steps))

\* An odd power of a negative base is negative.
PowSigned(r, neg, mod) ==
  IF neg /\ r # << >> THEN Num(mod.neg, Normalized(SubLimbs(mod.d, r)[1]))
  ELSE Num(FALSE, r)

\* The base is reduced only if it is longer than the modulus.
PowOf(b, ep, m, neg, mod, steps) ==
  IF b = << >> THEN Zero
  ELSE PowSigned(PowReduced(Power(b, ep, m), m, steps), neg /\ LowBit(ep), mod)

PowBy(base, ep, m, mod, steps) ==
  PowOf(IF Len(base.d) > Len(m) THEN Normalized(DivRem(base.d, m)[3]) ELSE base.d,
        ep, m, base.neg, mod, steps)

Powm(base, expo, mod) ==
  LET ep == Normalized(expo.d)
      steps == Clz(Last(mod.d))
  IN  IF ep = << >> THEN (IF mod.d = <<1>> THEN Zero ELSE Num(FALSE, <<1>>))
      ELSE PowBy(base, ep, ShiftedUp(mod.d, steps)[1], mod, steps)
=============================================================================
