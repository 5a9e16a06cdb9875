------------------------------- MODULE BigInt -------------------------------
(***************************************************************************)
(* Arithmetic of large numbers, src/_attic_/BigInt.cpp.  A number is the     *)
(* sequence of its limbs, the lowest first; a limb has LimbBits bits where   *)
(* the code has 32.  A buffer the code leaves unwritten keeps what was in    *)
(* it, so such an operation takes the old contents as an argument.  Every    *)
(* operation is compared with the arithmetic of the integers.                *)
(***************************************************************************)
EXTENDS Integers, Sequences, FiniteSets, FiniteSetsExt, SequencesExt

CONSTANTS LimbBits,
          EdgeLimbs,         \* limbs of the longer operands
          KaratsubaLimbs,    \* 30 and 40 in Multiply and Square
          MinWindowBits,     \* 4 in MonExpMod
          SpecialC,          \* c of the modulus B^k - c
          MaxRootRounds      \* 64 in SquareRoot
VARIABLE bigop               \* the operation done, its operands and results
B == 2^LimbBits
Numbers(k) == [1 .. k -> 0 .. B - 1]
LongNumbers(k) == [1 .. k -> EdgeLimbs]

(* What a number stands for, and the limbs of an integer. *)
Val(n) == FoldLeft(LAMBDA v, i : v + n[i] * B^(i - 1), 0, [i \in 1 .. Len(n) |-> i])
Limbs(k, v) == [i \in 1 .. k |-> (v \div B^(i - 1)) % B]

Degree32(v) == CHOOSE d \in 0 .. LimbBits : v < 2^d /\ (d = 0 \/ v >= 2^(d - 1))
LimbDegree(n) == Max({0} \cup {i \in 1 .. Len(n) : n[i] # 0})
SetTo(k, r) == [i \in 1 .. k |-> IF i <= Len(r) THEN r[i] ELSE 0]
Set32(k, v) == SetTo(k, <<v>>)
(* Limbs first .. first + k - 1, counted from 0, and their replacement. *)
Part(n, first, k) == SubSeq(n, first + 1, first + k)
Put(n, first, p) == [i \in 1 .. Len(n) |-> IF i \in first + 1 .. first + Len(p)
                                            THEN p[i - first] ELSE n[i]]

LimbAt(n, i) == IF i <= Len(n) THEN n[i] ELSE 0
(* The highest limb that differs decides; limbs a number lacks are 0. *)
Apart(l, r) == Max({0} \cup {i \in 1 .. Max({Len(l), Len(r)}) : LimbAt(l, i) # LimbAt(r, i)})
Less(l, r) == LET d == Apart(l, r) IN d # 0 /\ LimbAt(l, d) < LimbAt(r, d)
Equal32(l, v) == l[1] = v /\ LimbDegree(l) <= 1

(* A loop over limbs that passes a carry on: limb i of the result comes from
   the i-th term and the carry before it. *)
LimbOut(a, v) == [out |-> Append(a.out, (v + a.carry) % B), carry |-> (v + a.carry) \div B]
RECURSIVE RippleTo(_, _)
RippleTo(terms, i) ==
  IF i = 0 THEN [out |-> <<>>, carry |-> 0] ELSE LimbOut(RippleTo(terms, i - 1), terms[i])
Ripple(terms) == RippleTo(terms, Len(terms))

ShiftRight(n, s) ==
  [i \in 1 .. Len(n) |-> (n[i] \div 2^s) + (LimbAt(n, i + 1) % 2^s) * 2^(LimbBits - s)]
ShiftLeft(n, s) == Ripple([i \in 1 .. Len(n) |-> n[i] * 2^s])

(* Add and Subtract: past rhs only while there is a carry.  What comes after is
   not written, which matters only when out is not lhs. *)
Combined(l, r, sign) == Ripple([i \in 1 .. Len(l) |-> l[i] + sign * LimbAt(r, i)])
Add(l, r) == Combined(l, r, 1)
Subtract(l, r) == Combined(l, r, -1)
Written(l, r) == Max({i \in Len(r) .. Len(l) :
                        \A j \in Len(r) .. i - 1 : Add(Part(l, 0, j), r).carry # 0})
AddTo(old, l, r) == [Add(l, r) EXCEPT !.out = Put(old, 0, Part(@, 0, Written(l, r)))]
Add32(l, v) == Ripple([i \in 1 .. Len(l) |-> l[i] + LimbAt(<<v>>, i)])
Subtract32(l, v) == Ripple([i \in 1 .. Len(l) |-> l[i] - LimbAt(<<v>>, i)])

(* -n: limbs are negated up to the first that is not 0, and then inverted. *)
NegateAll(n) == [i \in 1 .. Len(n) |-> (-n[i]) % B]
Negate(n) == [i \in 1 .. Len(n) |-> IF \A j \in 1 .. i - 1 : n[j] = 0
                                    THEN (-n[i]) % B ELSE B - 1 - n[i]]
BitNot(n) ==
  LET top == LimbDegree(n)
  IN  [i \in 1 .. Len(n) |-> IF i < top THEN B - 1 - n[i]
                             ELSE IF i = top THEN 2^Degree32(n[i]) - 1 - n[i] ELSE n[i]]

AddLeftShift32(a, b, s) ==
  LET sum == Ripple([i \in 1 .. Len(a) |-> a[i] + ((b[i] * 2^s) % B)
                                       + ((IF i = 1 THEN 0 ELSE b[i - 1]) \div 2^(LimbBits - s))])
  IN  [sum EXCEPT !.carry = @ + (b[Len(b)] \div 2^(LimbBits - s))]
Multiply32(a, v) == Ripple([i \in 1 .. Len(a) |-> a[i] * v])
Multiply32Add32(x, m, v) == Ripple([i \in 1 .. Len(x) |-> x[i] * m + (IF i = 1 THEN v ELSE 0)])
AddMultiply32(a, b, m) == Ripple([i \in 1 .. Len(a) |-> a[i] + b[i] * m])

(* Row by row; the carry of a row is the limb after it. *)
SimpleMultiply(x, y) ==
  LET n == Len(x)
      first == Multiply32(x, y[1])
      Row(p, i) == LET a == AddMultiply32(Part(p, i - 1, n), x, y[i])
                   IN  Put(p, i - 1, Append(a.out, a.carry))
  IN  FoldLeft(Row, SetTo(2 * n, Append(first.out, first.carry)), [i \in 1 .. n - 1 |-> i + 1])
SimpleMultiplyLowHalf(x, y) ==
  LET n == Len(x)
      Row(p, i) == Put(p, i - 1, AddMultiply32(Part(p, i - 1, n + 1 - i), Part(x, 0, n + 1 - i), y[i]).out)
  IN  FoldLeft(Row, Multiply32(x, y[1]).out, [i \in 1 .. n - 1 |-> i + 1])
(* Products of different limbs once, doubled, and the squares of limbs. *)
SimpleSquare(x) ==
  LET n == Len(x)
      Row(p, i) == LET a == AddMultiply32(Part(p, 2 * i - 1, n - i), Part(x, i, n - i), x[i])
                   IN  Put(p, 2 * i - 1, Append(a.out, a.carry))
      cross == FoldLeft(Row, Set32(2 * n, 0), [i \in 1 .. n - 1 |-> i])
      squares == [i \in 1 .. 2 * n |->
                    LET s == x[(i + 1) \div 2] * x[(i + 1) \div 2]
                    IN  IF i % 2 = 1 THEN s % B ELSE s \div B]
      doubled == AddLeftShift32(Part(squares, 1, 2 * n - 2), Part(cross, 1, 2 * n - 2), 1)
  IN  Put(squares, 1, Append(doubled.out, (squares[2 * n] + doubled.carry) % B))

(* Karatsuba's three products of halves.  The carries of the two sums and the
   borrows of the two differences are put together, with their signs. *)
CrossCarryNot(xc, yc) == 0
CrossCarry(xc, yc) == IF xc = 1 /\ yc = 1 THEN 1 ELSE 0
(* Limbs h .. 2h - 1 of a cross product, and s once more if a half's sum carried. *)
Fixed(c, h, on, s) == IF on = 1 THEN Add(Part(c, h, h), s) ELSE [out |-> Part(c, h, h), carry |-> 0]
Carried(p, at, carry) ==
  IF carry # 0 THEN Put(p, at, Add32(Part(p, at, Len(p) - at), carry % B).out) ELSE p
CrossAdded(low, c, carry, h) ==
  LET sum == Add(Part(low, h, 3 * h), c)
      Whole(a) == Carried(Put(low, h, a.out), 3 * h, carry + a.carry)
  IN  Whole(sum)
Joined3(lo, hi, mid, xs, ys) ==
  LET h == Len(xs.out)
      Sum(c1, c2, c3, c4) == CrossAdded(lo \o hi, Put(c2.out, h, c4.out),
        c1.carry + c2.carry + c3.carry + c4.carry + CrossCarry(xs.carry, ys.carry), h)
      Fix2(c1, c2, c3) == Sum(c1, c2, c3, Fixed(Put(c2.out, h, c3.out), h, xs.carry, ys.out))
      Fix1(c1, c2) == Fix2(c1, c2, Fixed(c2.out, h, ys.carry, xs.out))
      Less2(c1) == Fix1(c1, Subtract(c1.out, hi))
  IN  Less2(Subtract(mid, lo))
RECURSIVE Multiply(_, _)
Multiply(x, y) ==
  LET n == Len(x)
      h == n \div 2
      Halves(xs, ys) == Joined3(Multiply(Part(x, 0, h), Part(y, 0, h)), Multiply(Part(x, h, h), Part(y, h, h)),
                                Multiply(xs.out, ys.out), xs, ys)
  IN  IF n < KaratsubaLimbs \/ n % 2 = 1 THEN SimpleMultiply(x, y)
      ELSE Halves(Add(Part(x, 0, h), Part(x, h, h)), Add(Part(y, 0, h), Part(y, h, h)))
RECURSIVE Square(_)
Square(x) ==
  LET n == Len(x)
      h == n \div 2
      low == Square(Part(x, 0, h)) \o Square(Part(x, h, h))
      Whole(sum) == Carried(Put(low, h, sum.out), 3 * h, sum.carry)
  IN  IF n < KaratsubaLimbs \/ n % 2 = 1 THEN SimpleSquare(x)
      ELSE Whole(AddLeftShift32(Part(low, h, n), Multiply(Part(x, 0, h), Part(x, h, h)), 1))

(* From the highest limb down. *)
Modulus32(n, d) ==
  LET k == Len(n)
      small == n[k] < d
  IN  FoldLeft(LAMBDA r, i : (r * B + n[i]) % d, IF small THEN n[k] ELSE 0,
               Reverse([i \in 1 .. (IF small THEN k - 1 ELSE k) |-> i]))
Divide32(n, d) ==
  FoldLeft(LAMBDA a, i : LET v == a.r * B + n[i]
                         IN  [q |-> [a.q EXCEPT ![i] = v \div d], r |-> v % d],
           [q |-> n, r |-> 0], Reverse([i \in 1 .. Len(n) |-> i]))

(* Long division with a normalized divisor.  A digit is estimated from the two
   highest limbs and is at most two too large. *)
DigitFix(a, q, vv) ==
  LET Lower(sum) == [uu |-> sum.out, q |-> (q - 1) % B, again |-> sum.carry = 0] IN Lower(Add(a, vv))
QuotientDigit(uu, ii, vv) ==
  LET k == Len(vv)
      full == (uu[ii + k + 1] * B + uu[ii + k]) \div vv[k]
      prod == Multiply32(vv, full % B)
      low == Append(prod.out, prod.carry)
      vq == IF full \div B # 0 THEN Put(low, 1, Add(Part(low, 1, k), vv).out) ELSE low
      Again(one) == IF one.again THEN DigitFix(one.uu, one.q, vv) ELSE one
      Digit(sub) == IF sub.carry = 0 THEN [uu |-> sub.out, q |-> full % B]
                    ELSE Again(DigitFix(sub.out, full % B, vv))
  IN  Digit(Subtract(Part(uu, ii, k + 1), vq))
(* old_q: the quotient buffer; its limbs above the ones u uses are not written. *)
LongDivide(u, v, old_q) ==
  LET uk == LimbDegree(u)
      vk == LimbDegree(v)
      shift == LimbBits - Degree32(v[vk])
      vv == ShiftLeft(Part(v, 0, vk), shift).out
      su == ShiftLeft(Part(u, 0, uk), shift)
      uu == IF shift > 0 THEN Append(su.out, su.carry) ELSE su.out
      top == Len(uu) - vk
      high == ~Less(Part(uu, top, vk), vv)
      first == [uu |-> IF high THEN Put(uu, top, Subtract(Part(uu, top, vk), vv).out) ELSE uu,
                q  |-> Put(old_q, top, Set32(uk - top, IF high THEN 1 ELSE 0))]
      Written1(a, ii, d) == [uu |-> Put(a.uu, ii, d.uu), q |-> Put(a.q, ii, <<d.q>>)]
      Digit(a, ii) == Written1(a, ii, QuotientDigit(a.uu, ii, vv))
      Result1(done) == [q |-> done.q, r |-> SetTo(Len(v), ShiftRight(Part(done.uu, 0, vk), shift))]
  IN  Result1(FoldLeft(Digit, first, Reverse([i \in 1 .. top |-> i - 1])))
Divide(u, v, old_q) ==
  LET uk == LimbDegree(u)
      vk == LimbDegree(v)
      short == Divide32(u, v[1])
  IN  IF uk <= vk /\ Less(u, v) THEN [q |-> Put(old_q, 0, Set32(Len(u), 0)), r |-> SetTo(Len(v), u)]
      ELSE IF vk = 1 THEN [q |-> Put(old_q, 0, short.q), r |-> Set32(Len(v), short.r)]
      ELSE LongDivide(u, v, old_q)
(* Division by zero leaves the result as it was. *)
Modulus(old, u, v) ==
  LET vk == LimbDegree(v)
  IN  IF vk = 0 THEN old
      ELSE IF LimbDegree(u) <= vk /\ Less(u, v) THEN SetTo(Len(v), u)
      ELSE IF vk = 1 THEN Set32(Len(v), Modulus32(u, v[1]))
      ELSE LongDivide(u, v, u).r
MulMod(x, y, m) == Modulus(m, Multiply(x, y), m)

(* Barrett: only the upper limbs of x * m_inv are computed, and the limb
   m_inv lacks is 1. *)
BarrettModulusPrecomp(m) ==
  LET k == Len(m)
      r == Append(Set32(2 * k, 0), 1)
  IN  Part(Divide(r, m, r).q, 0, k)
BarrettQuotient(x, m_inv) ==
  LET k == Len(m_inv)
      Pair(q, i, v) == Put(q, i, <<v % B, (v \div B) % B>>)
      one == Pair(Set32(k + 3, 0), 0, m_inv[k] * x[k])
      two == Pair(one, 1, one[2] + x[k])
      Row(q, i) == LET n == IF i < k THEN i + 1 ELSE i
                       first == IF i < k THEN 0 ELSE 1
                       low == IF i < k THEN k - 1 - i ELSE 0
                       a == AddMultiply32(Part(q, first, n), Part(m_inv, low, n), x[k + i])
                   IN  Pair(Put(q, first, a.out), i + 1, q[i + 2] + x[k + i] + a.carry)
  IN  Part(FoldLeft(Row, two, [i \in 1 .. k |-> i]), 2, k + 1)
RECURSIVE LessModulus(_, _)
LessModulus(r, m) == IF Less(r, m) THEN r ELSE LessModulus(Subtract(r, m).out, m)
RECURSIVE UntilBorrow(_, _)
UntilBorrow(r, m) == LET s == Subtract(r, m) IN IF s.carry # 0 THEN s.out ELSE UntilBorrow(s.out, m)
BarrettRest(x, m, m_inv) ==
  LET k == Len(m)
      q == BarrettQuotient(x, m_inv)
      Row(p, i) == Put(p, i - 1, AddMultiply32(Part(p, i - 1, k + 2 - i), Part(q, 0, k + 2 - i), m[i]).out)
      r2 == FoldLeft(Row, Multiply32(q, m[1]).out, [i \in 1 .. k - 1 |-> i + 1])
  IN  Subtract(Part(x, 0, k + 1), r2)
BarrettModulus(x, m, m_inv) ==
  LET r == BarrettRest(x, m, m_inv)
  IN  Part(IF r.carry # 0 THEN UntilBorrow(r.out, m) ELSE LessModulus(r.out, m), 0, Len(m))

(* Modulo B^k - c: what exceeds B^k is multiplied by c and added below. *)
Scaled(q, c) == LET Whole(p) == Append(p.out, p.carry)
                IN  Whole(Multiply32(Part(q, 0, LimbDegree(q)), c))
LowLimbs(qr, k) == Part(qr, 0, Min({k, Len(qr)}))
RECURSIVE FoldDown(_, _, _), FoldedOn(_, _, _)
FoldedOn(a, qr, c) ==
  LET k == Len(a.r) IN IF Len(qr) <= k THEN a ELSE FoldDown(a, Part(qr, k, Len(qr) - k), c)
FoldDown(a, q, c) ==
  LET Below(qr, sum) == FoldedOn([r |-> sum.out, over |-> a.over + sum.carry], qr, c)
      Down(qr) == Below(qr, Add(a.r, LowLimbs(qr, Len(a.r))))
  IN  IF LimbDegree(q) = 0 THEN a ELSE Down(Scaled(q, c))
FoldFirst(old, x, c, k) ==
  LET q == Part(x, k, Len(x) - k)
      Below(qr, sum) == FoldedOn([r |-> sum.out, over |-> sum.carry], qr, c)
      Down(qr) == Below(qr, AddTo(old, Part(x, 0, k), LowLimbs(qr, k)))
  IN  IF LimbDegree(q) = 0 THEN [r |-> Part(x, 0, k), over |-> 0] ELSE Down(Scaled(q, c))
SpecialCarries(a, c) == Add32(a.r, (a.over * c) % B)
SpecialModulus(old, x, c, k) ==
  LET Cut(r, less) == IF less.carry # 0 THEN less.out ELSE r
      Once(r) == Cut(r, Add32(r, c))
      Over(a) == Once(IF a.over # 0 THEN SpecialCarries(a, c).out ELSE a.r)
  IN  Over(FoldFirst(old, x, c, k))

(* Digits, the highest first. *)
RECURSIVE DigitsOf(_, _)
DigitsOf(n, base) ==
  LET d == Divide32(n, base)
  IN  IF LimbDegree(n) = 0 THEN <<>> ELSE Append(DigitsOf(Part(d.q, 0, LimbDegree(n)), base), d.r)
ToStr(n, base) == IF LimbDegree(n) = 0 THEN <<0>> ELSE DigitsOf(Part(n, 0, LimbDegree(n)), base)
ToInt(digits, base, k) ==
  LET Digit(a, d) ==
        LET m == Multiply32Add32(a.n, base, d)
        IN  IF ~a.ok \/ d >= base THEN [a EXCEPT !.ok = FALSE]
            ELSE IF m.carry = 0 THEN [a EXCEPT !.n = m.out]
            ELSE [n |-> Append(m.out, m.carry), ok |-> Len(a.n) < k]
  IN  FoldLeft(Digit, [n |-> <<0>>, ok |-> k >= 2], digits)

(* GCD, by turns. *)
RECURSIVE GCDLoop(_, _)
GCDLoop(g, g1) == LET Other(r, r1) == IF LimbDegree(r1) = 0 THEN r ELSE GCDLoop(r, r1)
                      One(r) == IF LimbDegree(r) = 0 THEN g1 ELSE Other(r, Modulus(g1, g1, r))
                  IN  One(Modulus(g, g, g1))
GCD(a, b) == LET s == IF Len(a) <= Len(b) THEN a ELSE b
                 o == IF Len(a) <= Len(b) THEN b ELSE a
             IN  GCDLoop(s, Modulus(s, o, s))

(* Inverse of a limb modulo B. *)
RECURSIVE InverseLoop(_, _, _, _)
InverseLoop(u, g, u1, g1) ==
  LET u2 == (u - (g \div g1) * u1) % B
      g2 == g % g1
  IN  IF g2 = 0 THEN (IF g1 # 1 THEN 0 ELSE u1) ELSE InverseLoop(u1, g1, u2, g2)
MulInverse32(n) ==
  LET hb == IF (n - 1) % B < B \div 2 THEN 1 ELSE 0
      u1 == (-(((B - 1) \div n) + hb)) % B
      g1 == ((IF hb = 1 THEN ((B - 1) % n) + 1 ELSE 0) - n) % B
  IN  IF g1 = 0 THEN (IF n # 1 THEN 0 ELSE 1) ELSE InverseLoop(1, n, u1, g1)

(* Euclid's extended algorithm, one step of the unrolled six.  The signs of the
   coefficients alternate, and the quotient buffer is used again. *)
RECURSIVE Euclid(_, _, _, _, _, _)
Euclid(a1, a3, b1, b3, q, negative) ==
  LET Turn(d) == Euclid(b1, b3, Add(SimpleMultiplyLowHalf(Part(d.q, 0, Len(a1)), b1), a1).out,
                        d.r, d.q, ~negative)
  IN  IF LimbDegree(b3) = 0 THEN [ok |-> Equal32(a3, 1), c |-> a1, negative |-> negative]
      ELSE Turn(Divide(a3, b3, q))
MulInverse(u, q) ==
  LET k == Len(u)
      First(d) == Euclid(Set32(k, 1), u, Part(d.q, 0, k), d.r, d.q, FALSE)
      Inverted(e) == [ok |-> e.ok, inv |-> IF e.negative THEN Negate(e.c) ELSE e.c]
  IN  IF LimbDegree(u) = 0 THEN [ok |-> FALSE]
      ELSE Inverted(First(Divide(Append(Set32(k, 0), 1), u, q)))
InvMod(u, v, q) ==
  LET k == Len(v)
      Inverted(e) == [ok |-> e.ok, inv |-> IF e.negative THEN Subtract(v, e.c).out ELSE e.c]
  IN  Inverted(Euclid(Set32(k, 0), v, Set32(k, 1), Modulus(v, u, v), q, TRUE))

(* Newton's iteration from the upper half of the square. *)
RECURSIVE RootRounds(_, _, _, _)
RootRounds(square, root, q, rounds) ==
  LET k == Len(root)
      Up(sum) == IF sum[1] % 2 = 1 THEN Add32(sum, 2).out ELSE sum
      Next2(d, half) == IF Part(half, 0, k) = root THEN [ok |-> TRUE, root |-> root]
                        ELSE RootRounds(square, Part(half, 0, k), Put(d.q, 0, half), rounds - 1)
      Next1(d) == Next2(d, ShiftRight(Up(Add(Part(d.q, 0, k + 1), root).out), 1))
  IN  IF rounds = 0 THEN [ok |-> FALSE, root |-> root] ELSE Next1(Divide(square, root, q))
SquareRoot(square) == LET k == Len(square) \div 2
                      IN  RootRounds(square, Part(square, k, k), square, MaxRootRounds)
BitsOf(n) == [i \in 1 .. Len(n) * LimbBits |->
                LET b == Len(n) * LimbBits - i
                IN  (n[b \div LimbBits + 1] \div 2^(b % LimbBits)) % 2]
(* x^((m + 1) / 4) modulo m = B^k - c. *)
SpecialSquareRoot(x, c) ==
  LET k == Len(x)
      e == ShiftRight(Add32(Subtract32(Set32(k, 0), c).out, 1).out, 2)
      Reduced(p) == SpecialModulus(x, p, c, k)
      Times(s, b) == IF b = 1 THEN Reduced(Multiply(s, x)) ELSE s
      Bit(a, b) == IF ~a.seen THEN [seen |-> b = 1, x |-> x]
                   ELSE [a EXCEPT !.x = Times(Reduced(Square(@)), b)]
  IN  FoldLeft(Bit, [seen |-> FALSE, x |-> x], BitsOf(e)).x

(* Montgomery: numbers are multiplied by R = B^k. *)
MonReducePrecomp(m0) == MulInverse32((-m0) % B)
MonInputResidue(n, m) == Modulus(m, Set32(Len(m), 0) \o n, m)
MonReduceNot(s, m, mod_inv) == Part(s, Len(m), Len(m))
MonReduce(s, m, mod_inv) ==
  LET k == Len(m)
      Row(t, i) == LET a == AddMultiply32(Part(t, i - 1, k), m, (t[i] * mod_inv) % B)
                   IN  Put(Put(t, i - 1, a.out), i - 1, <<a.carry>>)
      Sum(t) == Add(Part(t, k, k), Part(t, 0, k))
      Cut(sum) == IF sum.carry # 0 THEN Subtract(sum.out, m).out ELSE sum.out
  IN  Cut(Sum(FoldLeft(Row, s, [i \in 1 .. k |-> i])))
MonPro(a, b, m, mod_inv) == MonReduce(Multiply(a, b), m, mod_inv)
MonFinish(n, m, mod_inv) ==
  LET Cut(r) == IF Less(r, m) THEN r ELSE Subtract(r, m).out
  IN  Cut(MonReduce(SetTo(2 * Len(m), n), m, mod_inv))
MonInverse(a, m, mod_inv) ==
  MonInputResidue(InvMod(MonFinish(a, m, mod_inv), m, Set32(2 * Len(m), 0)).inv, m)

MonSquare(x, m, mod_inv) == MonReduce(Square(x), m, mod_inv)
SimpleMonExpMod(base, e, m, mod_inv) ==
  LET Bit(a, b) == IF ~a.set THEN [set |-> b = 1, x |-> base]
                   ELSE LET s == MonSquare(a.x, m, mod_inv)
                        IN  [a EXCEPT !.x = IF b = 1 THEN MonPro(s, base, m, mod_inv) ELSE s]
  IN  FoldLeft(Bit, [set |-> FALSE, x |-> base], BitsOf(e)).x
(* base^1, base^3, base^5, ... *)
PrecomputeWindow(base, m, mod_inv, bits) ==
  LET square == MonSquare(base, m, mod_inv)
  IN  FoldLeft(LAMBDA w, i : Append(w, MonPro(w[i], square, m, mod_inv)), <<base>>,
               [i \in 1 .. 2^(bits - 1) - 1 |-> i])
RECURSIVE Squares(_, _, _, _)
Squares(x, n, m, mod_inv) ==
  IF n = 0 THEN x ELSE Squares(MonSquare(x, m, mod_inv), n - 1, m, mod_inv)
(* The bits gathered are used: "101110" takes the window's 1011 and squares once. *)
UseWindow(a, window, m, mod_inv) ==
  LET entry == window[(a.bits \div 2^(a.zeros + 1)) + 1]
      x == IF a.seen THEN MonPro(Squares(a.x, a.used - a.zeros, m, mod_inv), entry, m, mod_inv)
           ELSE entry
  IN  [a EXCEPT !.x = Squares(x, a.zeros, m, mod_inv), !.seen = TRUE, !.used = 0]
MonExpMod(base, e, m, mod_inv) ==
  LET bits == Degree32(Len(e))
      window == PrecomputeWindow(base, m, mod_inv, bits)
      Bit(a, b) ==
        LET more == [a EXCEPT !.bits = 2 * @ + b, !.used = @ + 1,
                              !.zeros = IF b = 1 THEN 0 ELSE @ + 1]
        IN  IF a.used > 0 THEN (IF more.used = bits THEN UseWindow(more, window, m, mod_inv) ELSE more)
            ELSE IF b = 1 THEN [a EXCEPT !.bits = 1, !.used = 1, !.zeros = 0]
            ELSE IF a.seen THEN [a EXCEPT !.x = MonSquare(@, m, mod_inv)] ELSE a
      done == FoldLeft(Bit, [x |-> base, seen |-> FALSE, bits |-> 0, used |-> 0, zeros |-> 0], BitsOf(e))
  IN  IF bits < MinWindowBits THEN SimpleMonExpMod(base, e, m, mod_inv)
      ELSE IF done.used > 0 THEN UseWindow(done, window, m, mod_inv).x ELSE done.x
ExpMod(base, e, m, mod_inv) ==
  MonFinish(MonExpMod(MonInputResidue(base, m), e, m, mod_inv), m, mod_inv)
ExpMod32(b, e, m) ==
  IF b = 0 \/ m <= 1 THEN 0 ELSE IF e = 0 THEN 1
  ELSE FoldLeft(LAMBDA r, i : LET s == (r * r) % m
                              IN  IF (e \div 2^i) % 2 = 1 THEN (s * b) % m ELSE s,
                b, Reverse([i \in 1 .. Degree32(e) - 1 |-> i - 1]))

(* The strong pseudo-prime test with one witness. *)
RECURSIVE OddPart(_), Raised2(_, _, _, _)
OddPart(d) == IF d[1] % 2 = 1 THEN d ELSE OddPart(ShiftRight(d, 1))
Raised2(a, t, n, n1) ==
  IF t = n1 \/ Equal32(a, 1) \/ a = n1 THEN a = n1 \/ t[1] % 2 = 1
  ELSE Raised2(Modulus(n, Square(a), n), ShiftLeft(t, 1).out, n, n1)
RabinMillerPrimeTest(n, a) ==
  LET n1 == Subtract32(n, 1).out
      d == OddPart(n1)
  IN  Raised2(ExpMod(a, d, n, MonReducePrecomp(n[1])), d, n, n1)
(* A candidate: the highest and the lowest bit are set. *)
GenerateStrongPseudoPrime(n) ==
  [n EXCEPT ![1] = IF @ % 2 = 1 THEN @ ELSE @ + 1,
            ![Len(n)] = IF @ >= B \div 2 THEN @ ELSE @ + (B \div 2)]

-----------------------------------------------------------------------------
(* One operation, of operands that meet its preconditions. *)
Fresh == bigop.op = "none"
BigInit == bigop = [op |-> "none"]
Did(op, x, y, out, carry) == bigop' = [op |-> op, x |-> x, y |-> y, out |-> out, carry |-> carry]
Result(op, x, y, a) == Did(op, x, y, a.out, a.carry)
Addends == Numbers(1) \cup LongNumbers(2)

AddNumbers == Fresh /\ \E x \in Numbers(2), y \in Addends : Result("add", x, y, Add(x, y))
SubtractNumbers == Fresh /\ \E x \in Numbers(2), y \in Addends : Result("subtract", x, y, Subtract(x, y))
CompareNumbers == Fresh /\ \E x \in Numbers(2), y \in Addends : Did("less", x, y, Less(x, y), 0)
AddSmall == Fresh /\ \E x \in Numbers(2), v \in EdgeLimbs : Result("add", x, <<v>>, Add32(x, v))
SubtractSmall == Fresh /\ \E x \in Numbers(2), v \in EdgeLimbs : Result("subtract", x, <<v>>, Subtract32(x, v))
MultiplyAddSmall == Fresh /\ \E x \in Numbers(2), v \in EdgeLimbs :
                      Result("muladd", x, v, Multiply32Add32(x, v, v))
NegateNumber == Fresh /\ \E x \in Numbers(2) : Did("negate", x, 0, Negate(x), 0)
InvertBits == Fresh /\ \E x \in Numbers(2) : Did("bitnot", x, 0, BitNot(x), 0)
ShiftNumberRight == Fresh /\ \E x \in Numbers(2), s \in 0 .. LimbBits - 1 : Did("right", x, s, ShiftRight(x, s), 0)
ShiftNumberLeft == Fresh /\ \E x \in Numbers(2), s \in 0 .. LimbBits - 1 : Result("left", x, s, ShiftLeft(x, s))
MultiplyNumbers == Fresh /\ \/ \E x \in Numbers(2), y \in LongNumbers(2) :
                                 Did("multiply", x, y, Multiply(x, y), 0)
                            \/ \E x \in LongNumbers(4), y \in LongNumbers(4) :
                                 /\ x[1] # 0 /\ y[1] # 1
                                 /\ Did("multiply", x, y, Multiply(x, y), 0)
MultiplyLow == Fresh /\ \E x \in Numbers(2), y \in LongNumbers(2) :
                 Did("lowhalf", x, y, SimpleMultiplyLowHalf(x, y), 0)
SquareNumber == Fresh /\ \E x \in Numbers(2) \cup LongNumbers(4) : Did("multiply", x, x, Square(x), 0)
DivideNumbers == Fresh /\ \E x \in LongNumbers(3), y \in Numbers(2) :
                   /\ LimbDegree(y) > 0
                   /\ \E d \in {Divide(x, y, Set32(3, 0))} : Did("divide", x, y, d.q, Val(d.r))
RestOfNumbers == Fresh /\ \E x \in LongNumbers(3), y \in Numbers(2) :
                   LimbDegree(y) > 0 /\ Did("modulus", x, y, Modulus(x, x, y), 0)
(* x times y for a modulus m whose highest bit is set *)
Factors == {f \in LongNumbers(2) \X LongNumbers(2) \X Numbers(2) :
              f[3][2] >= B \div 2 /\ Less(f[1], f[3]) /\ Less(f[2], f[3])}
MultiplyModulo == Fresh /\ \E f \in Factors :
                    Did("modulus", Multiply(f[1], f[2]), f[3], MulMod(f[1], f[2], f[3]), 0)
ReduceBarrett == Fresh /\ \E f \in Factors :
                   \E p \in {Multiply(f[1], f[2])}, m_inv \in {BarrettModulusPrecomp(f[3])} :
                     Did("barrett", p, f[3], BarrettModulus(p, f[3], m_inv), BarrettRest(p, f[3], m_inv).carry)
BelowSpecial(n) == Val(n) < B^2 - SpecialC
ReduceSpecial == Fresh /\ \E x \in Numbers(2), y \in LongNumbers(2), stale \in 0 .. 1 :
                   /\ BelowSpecial(x) /\ BelowSpecial(y)
                   /\ \E p \in {Multiply(x, y)} :
                        Did("special", p, 2, SpecialModulus(Set32(2, stale), p, SpecialC, 2),
                            SpecialCarries(FoldFirst(x, p, SpecialC, 2), SpecialC).carry)
RootSpecial == Fresh /\ \E x \in Numbers(2) :
                 /\ BelowSpecial(x)
                 /\ Did("specialroot", x, <<>>, SpecialSquareRoot(SpecialModulus(x, Square(x), SpecialC, 2), SpecialC), 0)
ConvertNumber == Fresh /\ \E x \in Numbers(2), base \in 2 .. B - 1 :
                   \E n \in {ToInt(ToStr(x, base), base, 2)} :
                       Did("convert", x, base, SetTo(2, n.n), IF n.ok THEN 1 ELSE 0)
DivisorOf == Fresh /\ \E x \in Numbers(2), y \in LongNumbers(2) \cup Numbers(1) :
               LimbDegree(x) > 0 /\ LimbDegree(y) > 0 /\ Did("gcd", x, y, GCD(x, y), 0)
InvertLimb == Fresh /\ \E n \in 1 .. B - 1 : Did("inverse32", n, B, MulInverse32(n), 0)
InvertNumber == Fresh /\ \E x \in Numbers(2) \cup LongNumbers(3), stale \in 0 .. 1 :
                  \E i \in {MulInverse(x, Set32(Len(x) + 1, stale))} : i.ok /\ Did("inverse", x, <<>>, i.inv, 0)
InvertModulo == Fresh /\ \E x \in LongNumbers(2), m \in Numbers(2) :
                  m[2] > 0 /\ \E i \in {InvMod(x, m, Set32(4, 0))} : i.ok /\ Did("invmod", x, m, i.inv, 0)
RootNumber == Fresh /\ \E x \in Numbers(2) :
  x[2] >= B \div 2 /\ \E r \in {SquareRoot(Multiply(x, x))} : r.ok /\ Did("root", x, <<>>, r.root, 0)
MonModuli == {m \in Numbers(2) : m[1] % 2 = 1 /\ m[2] >= B \div 2}
RaiseNumber == Fresh /\ \E m \in MonModuli, x \in LongNumbers(2), e \in LongNumbers(1) \cup LongNumbers(2) :
                 LimbDegree(e) > 0 /\ Did("expmod", <<x, e>>, m, ExpMod(x, e, m, MonReducePrecomp(m[1])), 0)
InvertResidue == Fresh /\ \E m \in MonModuli, x \in LongNumbers(2) :
  \E mod_inv \in {MonReducePrecomp(m[1])}, r \in {MonInputResidue(x, m)} :
    Did("moninverse", x, m, MonFinish(MonPro(MonInverse(r, m, mod_inv), r, m, mod_inv), m, mod_inv), 0)
PrimeTest == Fresh /\ \E random \in Numbers(2), a \in LongNumbers(2) :
  LET n == GenerateStrongPseudoPrime(random)
  IN  /\ Less(a, n) /\ LimbDegree(a) > 0
      /\ Did("prime", n, a, RabinMillerPrimeTest(n, a), 0)
SmallExponent == Fresh /\ \E b \in 1 .. B - 1, e \in 0 .. B - 1, m \in 2 .. B - 1 :
  b < m /\ Did("expmod32", <<b, e>>, m, ExpMod32(b, e, m), 0)
BigNext == \/ AddNumbers \/ SubtractNumbers \/ CompareNumbers \/ AddSmall \/ SubtractSmall
           \/ MultiplyAddSmall \/ NegateNumber \/ InvertBits \/ ShiftNumberRight \/ ShiftNumberLeft
           \/ MultiplyNumbers \/ MultiplyLow \/ SquareNumber \/ DivideNumbers \/ RestOfNumbers
           \/ MultiplyModulo \/ ReduceBarrett \/ ReduceSpecial \/ RootSpecial \/ ConvertNumber
           \/ DivisorOf \/ InvertLimb \/ InvertNumber \/ InvertModulo \/ RootNumber
           \/ RaiseNumber \/ InvertResidue \/ PrimeTest \/ SmallExponent
BigSpec == BigInit /\ [][BigNext]_bigop

(* The integers. *)
IsPrime(v) == v > 1 /\ \A d \in 2 .. v - 1 : v % d # 0
Coprime(v, m) == \A d \in 2 .. m : v % d # 0 \/ m % d # 0
RECURSIVE Power(_, _, _)
Power(b, e, m) == IF e = 0 THEN 1 % m ELSE (b * Power(b, e - 1, m)) % m
(* Every operation of BigInt.cpp gives what the integers give.  Not claimed: of
   BarrettModulus when the difference of the low limbs is negative, and of
   SpecialModulus when adding the overflows gives one more. *)
NumbersRight ==
  LET x == bigop.x
      y == bigop.y
      out == bigop.out
      full == Val(out) + bigop.carry * B^Len(out)
      op == bigop.op
  IN  /\ op = "add" => full = Val(x) + Val(y)
      /\ op = "subtract" => full = Val(x) - Val(y)
      /\ op = "less" => out = (Val(x) < Val(y))
      /\ op = "muladd" => full = Val(x) * y + y
      /\ op = "negate" => Val(out) = (-Val(x)) % B^2
      /\ op = "bitnot" => \E d \in 0 .. 2 * LimbBits : Val(out) = 2^d - 1 - Val(x)
      /\ op = "right" => Val(out) = Val(x) \div 2^y
      /\ op = "left" => full = Val(x) * 2^y
      /\ op = "multiply" => Val(out) = Val(x) * Val(y)
      /\ op = "lowhalf" => Val(out) = (Val(x) * Val(y)) % B^2
      /\ op = "divide" => Val(out) = Val(x) \div Val(y) /\ bigop.carry = Val(x) % Val(y)
      /\ op = "modulus" => Val(out) = Val(x) % Val(y)
      /\ op = "barrett" => (bigop.carry = 0 => Val(out) = Val(x) % Val(y))
      /\ op = "special" => (bigop.carry = 0 => Val(out) = Val(x) % (B^y - SpecialC))
      /\ op = "specialroot" => LET v == Val(out) - Val(x) IN (v * (Val(out) + Val(x))) % (B^2 - SpecialC) = 0
      /\ op = "convert" => out = x /\ bigop.carry = 1
      /\ op = "gcd" => /\ Val(x) % Val(out) = 0 /\ Val(y) % Val(out) = 0
                       /\ \A d \in 1 .. Val(x) : Val(x) % d = 0 /\ Val(y) % d = 0 => Val(out) % d = 0
      /\ op = "inverse32" => (out * x) % B = 1 \/ (out = 0 /\ x % 2 = 0)
      /\ op = "inverse" => (Val(out) * Val(x)) % B^Len(x) = 1
      /\ op = "invmod" => (Val(out) * Val(x)) % Val(y) = 1
      /\ op = "root" => out = x
      /\ op = "expmod" => Val(out) = Power(Val(x[1]) % Val(y), Val(x[2]), Val(y))
      /\ op = "expmod32" => out = Power(x[1], x[2], y)
      /\ op = "moninverse" => (Coprime(Val(x), Val(y)) => Val(out) = 1)
      /\ op = "prime" => (IsPrime(Val(x)) => out)
=============================================================================
