------------------------------ MODULE SoftFloat -------------------------------
(***************************************************************************)
(* The soft-float builtins.  The C files are written once per precision    *)
(* over the macros of fp_lib.h; here they are written once over a binary   *)
(* interchange format f of IEEE 754, with f.s bits of significand and f.e  *)
(* bits of exponent, and the double and single names differ where their    *)
(* code does.  A float is the natural its bits spell.  The branch for      *)
(* __USE_HWFPU__ hands the operands to a device and is not modelled.       *)
(***************************************************************************)
EXTENDS IntBuiltins

typeWidth(f) == f.s + f.e + 1
maxExponent(f) == 2^f.e - 1
exponentBias(f) == 2^(f.e - 1) - 1
implicitBit(f) == 2^f.s
signBit(f) == 2^(f.s + f.e)
infRep(f) == maxExponent(f) * implicitBit(f)
quietBit(f) == implicitBit(f) \div 2
qnanRep(f) == infRep(f) + quietBit(f)
oneRep(f) == exponentBias(f) * implicitBit(f)

Floats(f) == 0 .. 2^typeWidth(f) - 1
AbsOf(f, x) == x % signBit(f)
SignOf(f, x) == x - AbsOf(f, x)
ExponentOf(f, x) == AbsOf(f, x) \div implicitBit(f)
SignificandOf(f, x) == x % implicitBit(f)

IsNaN(f, x) == AbsOf(f, x) > infRep(f)
IsInf(f, x) == AbsOf(f, x) = infRep(f)
IsFinite(f, x) == AbsOf(f, x) < infRep(f)
IsZero(f, x) == AbsOf(f, x) = 0

\* A finite float is sign * Digits * 2^Scale.
Digits(f, x) == SignificandOf(f, x) + (IF ExponentOf(f, x) = 0 THEN 0 ELSE implicitBit(f))
Scale(f, x) == (IF ExponentOf(f, x) = 0 THEN 1 ELSE ExponentOf(f, x)) - exponentBias(f) - f.s

-----------------------------------------------------------------------------
Pow(k) == IF k > 0 THEN 2^k ELSE 1
Log2(x) == CHOOSE k \in 0 .. 30 : x \div 2^k = 1

\* num / den to the nearest integer, ties to even
NearestInteger(num, den) ==
  LET q == num \div den
      r == 2 * (num % den)
  IN IF r > den \/ (r = den /\ q % 2 = 1) THEN q + 1 ELSE q

\* The reference the functions are compared with: it looks at the exact value and
\* never at guard or sticky bits.  The float nearest to (num / den) * 2^e, of the
\* given sign bit.
Rounded(f, sign, num, den, e) ==
  IF num = 0 THEN sign
  ELSE LET low == 1 - exponentBias(f) - f.s      \* exponent of the last place of a denormal
           guess == Log2(num) - Log2(den)
           log == IF Pow(guess) * den <= num * Pow(-guess) THEN guess ELSE guess - 1
           unit == IF log + e - f.s < low THEN low ELSE log + e - f.s
           abs == (unit - low) * implicitBit(f)
                    + (IF unit - e > 30 THEN 0 ELSE NearestInteger(num * Pow(e - unit), den * Pow(unit - e)))
       IN sign + (IF abs < infRep(f) THEN abs ELSE infRep(f))

-----------------------------------------------------------------------------
Sticky(x) == IF x # 0 THEN 1 ELSE 0

\* A word shifted right, with the bits that fall out gathered in the last one.
ShiftSticky(n, x, k) == Shr(n, x, k) | Sticky(Shl(n, x, n - k))

\* normalize: significand and exponent of a denormal that is not zero.
normalize(f, significand) ==
  LET shift == Clz(typeWidth(f), significand) - Clz(typeWidth(f), implicitBit(f))
  IN [significand |-> significand * 2^shift, exponent |-> 1 - shift]

\* Exponent and significand of a finite operand, with the implicit bit.
Unpack(f, x) ==
  IF ExponentOf(f, x) = 0 THEN normalize(f, SignificandOf(f, x))
  ELSE [significand |-> SignificandOf(f, x) | implicitBit(f), exponent |-> ExponentOf(f, x)]

\* The two words hi and lo, shifted left by one.
wideLeftShift(n, w) == [hi |-> Shl(n, w.hi, 1) | Shr(n, w.lo, n - 1), lo |-> Shl(n, w.lo, 1)]

BugShiftLosesSticky(n, w, count) ==
  IF count < n
  THEN [hi |-> Shr(n, w.hi, count), lo |-> Shl(n, w.hi, n - count) | Shr(n, w.lo, count)]
  ELSE IF count < 2 * n
  THEN [hi |-> 0, lo |-> Shr(n, w.hi, count - n)]
  ELSE [hi |-> 0, lo |-> 0]

wideRightShiftWithSticky(n, w, count) ==
  IF count < n
  THEN [hi |-> Shr(n, w.hi, count),
        lo |-> Shl(n, w.hi, n - count) | Shr(n, w.lo, count) | Sticky(Shl(n, w.lo, n - count))]
  ELSE IF count < 2 * n
  THEN [hi |-> 0, lo |-> Shr(n, w.hi, count - n) | Sticky(Shl(n, w.hi, 2 * n - count) | w.lo)]
  ELSE [hi |-> 0, lo |-> Sticky(w.hi | w.lo)]

\* The last rounding: lo is the part below the last place.
RoundWide(f, w) ==
  Wrap(typeWidth(f), w.hi + (IF w.lo > signBit(f) \/ (w.lo = signBit(f) /\ w.hi % 2 = 1) THEN 1 ELSE 0))

-----------------------------------------------------------------------------
(* Addition and subtraction *)

\* The sum when an operand is zero, infinite or no number.
AddSpecial(f, a, b) ==
  IF IsNaN(f, a) THEN a | quietBit(f)
  ELSE IF IsNaN(f, b) THEN b | quietBit(f)
  ELSE IF IsInf(f, a) THEN (IF a ^^ b = signBit(f) THEN qnanRep(f) ELSE a)
  ELSE IF IsInf(f, b) THEN b
  ELSE IF IsZero(f, a) THEN (IF IsZero(f, b) THEN a & b ELSE b)
  ELSE a

\* The significand of a result of three more bits, rounded and put together.
PackSum(f, sign, e, m) ==
  LET n == typeWidth(f)
      mm == IF e <= 0 THEN ShiftSticky(n, m, 1 - e) ELSE m
      rgs == mm % 8
      result == ((mm \div 8) % implicitBit(f)) + (IF e <= 0 THEN 0 ELSE e) * implicitBit(f) + sign
  IN IF e >= maxExponent(f) THEN infRep(f) | sign
     ELSE result + (IF rgs > 4 \/ (rgs = 4 /\ result % 2 = 1) THEN 1 ELSE 0)

\* |a| >= |b|, both finite and not zero
AddOrdered(f, a, b) ==
  LET n == typeWidth(f)
      ua == Unpack(f, a)
      ub == Unpack(f, b)
      am == ua.significand * 8
      align == ua.exponent - ub.exponent
      bm == IF align = 0 THEN ub.significand * 8
            ELSE IF align < n THEN ShiftSticky(n, ub.significand * 8, align) ELSE 1
      d == am - bm
      s == am + bm
      shift == Clz(n, d) - Clz(n, implicitBit(f) * 8)
  IN IF SignOf(f, a) # SignOf(f, b)
     THEN IF d = 0 THEN 0
          ELSE IF d < implicitBit(f) * 8
          THEN PackSum(f, SignOf(f, a), ua.exponent - shift, Shl(n, d, shift))
          ELSE PackSum(f, SignOf(f, a), ua.exponent, d)
     ELSE IF s & (implicitBit(f) * 16) # 0
          THEN PackSum(f, SignOf(f, a), ua.exponent + 1, (s \div 2) | (s % 2))
          ELSE PackSum(f, SignOf(f, a), ua.exponent, s)

addsf3(f, a, b) ==
  IF \E x \in {a, b} : IsZero(f, x) \/ ~IsFinite(f, x) THEN AddSpecial(f, a, b)
  ELSE IF AbsOf(f, b) > AbsOf(f, a) THEN AddOrdered(f, b, a) ELSE AddOrdered(f, a, b)
adddf3(f, a, b) == addsf3(f, a, b)

negsf2(f, a) == a ^^ signBit(f)
negdf2(f, a) == negsf2(f, a)
subsf3(f, a, b) == addsf3(f, a, b ^^ signBit(f))
subdf3(f, a, b) == adddf3(f, a, b ^^ signBit(f))

-----------------------------------------------------------------------------
(* Multiplication and division *)

MulSpecial(f, sign, a, b) ==
  IF IsNaN(f, a) THEN a | quietBit(f)
  ELSE IF IsNaN(f, b) THEN b | quietBit(f)
  ELSE IF IsInf(f, a) \/ IsInf(f, b)
  THEN IF IsZero(f, a) \/ IsZero(f, b) THEN qnanRep(f) ELSE infRep(f) | sign
  ELSE sign

\* The 2n-bit product of two n-bit words, in the double version by halves.
wideMultiply(n, a, b) == [hi |-> (a * b) \div 2^n, lo |-> (a * b) % 2^n]
wideMultiplyByHalves(n, a, b) ==
  LET k == n \div 2
      lo(x) == x % 2^k
      hi(x) == x \div 2^k
      plolo == lo(a) * lo(b)
      plohi == lo(a) * hi(b)
      philo == hi(a) * lo(b)
      r1 == hi(plolo) + lo(plohi) + lo(philo)
  IN [hi |-> Wrap(n, hi(plohi) + hi(philo) + hi(r1) + hi(a) * hi(b)),
      lo |-> Add(n, lo(plolo), Shl(n, r1, k))]

Multiply(f, a, b, Product(_, _, _), skips) ==
  LET n == typeWidth(f)
      sign == SignOf(f, a ^^ b)
      ua == Unpack(f, a)
      ub == Unpack(f, b)
      p == Product(n, ua.significand, Shl(n, ub.significand, f.e))
      carried == p.hi & implicitBit(f) # 0
      e == ua.exponent + ub.exponent - exponentBias(f) + (IF carried THEN 1 ELSE 0)
      w == IF carried THEN p ELSE wideLeftShift(n, p)
      shifted == IF e <= 0 THEN wideRightShiftWithSticky(n, w, 1 - e)
                 ELSE [w EXCEPT !.hi = (@ % implicitBit(f)) + e * implicitBit(f)]
  IN IF \E x \in {a, b} : IsZero(f, x) \/ ~IsFinite(f, x) THEN MulSpecial(f, sign, a, b)
     ELSE IF e >= maxExponent(f) THEN infRep(f) | sign
     ELSE IF skips /\ 1 - e >= n THEN sign
     ELSE RoundWide(f, [shifted EXCEPT !.hi = @ | sign])

mulsf3(f, a, b) == Multiply(f, a, b, wideMultiply, FALSE)
\* Only the double version tells a product that shifts out from the others.
muldf3(f, a, b) == Multiply(f, a, b, wideMultiplyByHalves, TRUE)

DivSpecial(f, sign, a, b) ==
  IF IsNaN(f, a) THEN a | quietBit(f)
  ELSE IF IsNaN(f, b) THEN b | quietBit(f)
  ELSE IF IsInf(f, a) THEN (IF IsInf(f, b) THEN qnanRep(f) ELSE infRep(f) | sign)
  ELSE IF IsInf(f, b) THEN sign
  ELSE IF IsZero(f, a) THEN (IF IsZero(f, b) THEN qnanRep(f) ELSE sign)
  ELSE infRep(f) | sign

\* The reciprocal of b, in [1, 2) with n - 1 bits after the point, with n bits after
\* the point: three Newton steps x * (2 - x * b) from 3/4 + 1/sqrt(2) - b/2, all
\* truncated.  The code's constant is 0x7504f333 for n = 32; these are its first bits.
Reciprocal(n, b) ==
  LET estimate == Sub(n, 1963258675 \div 2^(32 - n), b)
      correction(x) == Neg(n, (x * b) \div 2^n)
      refined(x) == Wrap(n, (x * correction(x)) \div 2^(n - 1))
  IN refined(refined(refined(estimate)))

\* a / b for significands of single precision, truncated, and less than the exact one.
SingleQuotient(f, a, b) ==
  LET n == typeWidth(f)
      reciprocal == Sub(n, Reciprocal(n, Shl(n, b, f.e)), 2)
  IN (reciprocal * Shl(n, a, 1)) \div 2^n

\* And of double: the steps are made on half a word, and one more on the whole.
DoubleQuotient(f, a, b) ==
  LET n == typeWidth(f)
      h == n \div 2
      hi == High(h, Shl(n, b, f.e))
      lo == Low(h, Shl(n, b, f.e))
      recip32 == Sub(h, Reciprocal(h, hi), 1)
      correction == Neg(n, recip32 * hi + (recip32 * lo) \div 2^h)
      reciprocal == Sub(n, recip32 * High(h, correction) + (recip32 * Low(h, correction)) \div 2^h, 2)
  IN wideMultiply(n, Shl(n, a, 2), reciprocal).hi

\* The rest of both: the quotient q is put in place and rounded by its residual.
Divide(f, a, b, q) ==
  LET n == typeWidth(f)
      sign == SignOf(f, a ^^ b)
      ua == Unpack(f, a)
      ub == Unpack(f, b)
      small == q < 2 * implicitBit(f)
      quotient == IF small THEN q ELSE q \div 2
      residual == Sub(n, Shl(n, ua.significand, f.s + (IF small THEN 1 ELSE 0)),
                      Wrap(n, quotient * ub.significand))
      e == ua.exponent - ub.exponent + exponentBias(f) - (IF small THEN 1 ELSE 0)
      round == IF Shl(n, residual, 1) > ub.significand THEN 1 ELSE 0
  IN IF \E x \in {a, b} : IsZero(f, x) \/ ~IsFinite(f, x) THEN DivSpecial(f, sign, a, b)
     ELSE IF e >= maxExponent(f) THEN infRep(f) | sign
     ELSE IF 1 - e >= n THEN sign
     ELSE IF e < 1
     THEN RoundWide(f, wideRightShiftWithSticky(n, [hi |-> quotient, lo |-> residual], 1 - e)) | sign
     ELSE ((quotient % implicitBit(f)) + e * implicitBit(f) + round) | sign
divsf3(f, a, b) ==
  Divide(f, a, b, SingleQuotient(f, Unpack(f, a).significand, Unpack(f, b).significand))
divdf3(f, a, b) ==
  Divide(f, a, b, DoubleQuotient(f, Unpack(f, a).significand, Unpack(f, b).significand))

-----------------------------------------------------------------------------
(* Comparison: -1, 0 or 1; the last argument is the answer for a NaN. *)

CompareFloats(f, a, b, unordered) ==
  LET x == Signed(typeWidth(f), a)
      y == Signed(typeWidth(f), b)
  IN IF IsNaN(f, a) \/ IsNaN(f, b) THEN unordered
     ELSE IF (IsZero(f, a) /\ IsZero(f, b)) \/ x = y THEN 0
     ELSE IF x < 0 /\ y < 0 THEN (IF x > y THEN -1 ELSE 1)
     ELSE IF x < y THEN -1 ELSE 1

lesf2(f, a, b) == CompareFloats(f, a, b, 1)
gesf2(f, a, b) == CompareFloats(f, a, b, -1)
ledf2(f, a, b) == lesf2(f, a, b)
gedf2(f, a, b) == gesf2(f, a, b)
unordsf2(f, a, b) == IF IsNaN(f, a) \/ IsNaN(f, b) THEN 1 ELSE 0
unorddf2(f, a, b) == unordsf2(f, a, b)
eqsf2(f, a, b) == lesf2(f, a, b)
gtsf2(f, a, b) == gesf2(f, a, b)
eqdf2(f, a, b) == ledf2(f, a, b)
gtdf2(f, a, b) == gedf2(f, a, b)

-----------------------------------------------------------------------------
(* From one format to another: g is the wider one. *)

extendsfdf2(f, g, a) ==
  LET abs == AbsOf(f, a)
      more == 2^(g.s - f.s)
      bias == exponentBias(g) - exponentBias(f)
      scale == Clz(typeWidth(f), abs) - Clz(typeWidth(f), implicitBit(f))
      sign == IF SignOf(f, a) = 0 THEN 0 ELSE signBit(g)
  IN sign + (IF abs = 0 THEN 0
             ELSE IF abs < implicitBit(f)
             THEN (abs * more * 2^scale - implicitBit(g)) + (bias - scale + 1) * implicitBit(g)
             ELSE IF abs < infRep(f) THEN abs * more + bias * implicitBit(g)
             ELSE infRep(g) + (abs & quietBit(f)) * more + (abs % quietBit(f)))

\* round bits of the part of a significand that is dropped
NearestShift(x, k) == NearestInteger(x, 2^k)

\* underflow and overflow are the first exponents that are (and are no longer)
\* normal in f; the unsigned comparison puts a between them.
truncdfsf2(g, f, a) ==
  LET n == typeWidth(g)
      abs == AbsOf(g, a)
      bias == exponentBias(g) - exponentBias(f)
      drop == g.s - f.s
      underflow == (bias + 1) * implicitBit(g)
      overflow == (bias + maxExponent(f)) * implicitBit(g)
      shift == bias - ExponentOf(g, a) + 1
      denormal == ShiftSticky(n, SignificandOf(g, a) | implicitBit(g), shift)
      sign == IF SignOf(g, a) = 0 THEN 0 ELSE signBit(f)
  IN sign | Wrap(typeWidth(f),
       IF Sub(n, abs, underflow) < Sub(n, abs, overflow)
       THEN NearestShift(abs, drop) - bias * implicitBit(f)
       ELSE IF abs > infRep(g) THEN infRep(f) | quietBit(f) | (abs % quietBit(f))
       ELSE IF abs > overflow THEN infRep(f)
       ELSE IF shift > g.s THEN 0
       ELSE NearestShift(denormal, drop))

-----------------------------------------------------------------------------
(* From a float to an integer of n bits, towards zero; no range is checked *)

Exponent(f, a) == ExponentOf(f, a) - exponentBias(f)

\* The significand (p bits below the point) moved by the exponent in a word of n bits.
Shifted(n, significand, p, e) ==
  IF e > p THEN Shl(n, Wrap(n, significand), e - p) ELSE Wrap(n, significand \div 2^(p - e))

FixSigned(f, n, a) ==
  LET m == Shifted(n, SignificandOf(f, a) | implicitBit(f), f.s, Exponent(f, a)) IN
  IF Exponent(f, a) < 0 THEN 0
  ELSE IF SignOf(f, a) = 0 THEN m ELSE Neg(n, m)

FixUnsigned(f, n, a) ==
  IF Exponent(f, a) < 0 \/ SignOf(f, a) # 0 THEN 0
  ELSE Shifted(n, SignificandOf(f, a) | implicitBit(f), f.s, Exponent(f, a))

fixsfsi(f, n, a) == FixSigned(f, n, a)
fixsfdi(f, n, a) == FixSigned(f, 2 * n, a)
fixsfti(f, n, a) == FixSigned(f, 4 * n, a)
\* shifted in the format's own word, and then cut to the integer's
fixdfsi(f, n, a) == Wrap(n, FixSigned(f, typeWidth(f), a))
fixdfdi(f, n, a) == FixSigned(f, 2 * n, a)
fixdfti(f, n, a) == FixSigned(f, 4 * n, a)
fixunssfsi(f, n, a) == FixUnsigned(f, n, a)
fixunssfdi(f, n, a) == FixUnsigned(f, 2 * n, a)
fixunssfti(f, n, a) == FixUnsigned(f, 4 * n, a)
\* the top n bits of the significand, shifted right
fixunsdfsi(f, n, a) ==
  IF Exponent(f, a) < 0 \/ SignOf(f, a) # 0 THEN 0
  ELSE Shr(n, (SignificandOf(f, a) | implicitBit(f)) \div 2^(f.s + 1 - n), n - 1 - Exponent(f, a))
fixunsdfdi(f, n, a) == FixUnsigned(f, 2 * n, a)
fixunsdfti(f, n, a) == FixUnsigned(f, 4 * n, a)

\* A long double of x86 is a record: negative, biased exponent, and a dword of
\* significand that has its leading bit.
ExponentXf(f, x) == x.exponent - exponentBias(f)
FlipIf(n, negative, x) == IF negative THEN Neg(n, x) ELSE x
fixxfdi(f, n, x) ==
  IF ExponentXf(f, x) < 0 THEN 0
  ELSE FlipIf(2 * n, x.negative, Shr(2 * n, x.significand, 2 * n - 1 - ExponentXf(f, x)))
fixxfti(f, n, x) ==
  IF ExponentXf(f, x) < 0 THEN 0
  ELSE FlipIf(4 * n, x.negative, Shifted(4 * n, x.significand, 2 * n - 1, ExponentXf(f, x)))
fixunsxfsi(f, n, x) ==
  IF ExponentXf(f, x) < 0 \/ x.negative THEN 0
  ELSE Shr(n, High(n, x.significand), n - 1 - ExponentXf(f, x))
fixunsxfdi(f, n, x) ==
  IF ExponentXf(f, x) < 0 \/ x.negative THEN 0
  ELSE Shr(2 * n, x.significand, 2 * n - 1 - ExponentXf(f, x))
fixunsxfti(f, n, x) ==
  IF ExponentXf(f, x) < 0 \/ x.negative THEN 0
  ELSE Shifted(4 * n, x.significand, 2 * n - 1, ExponentXf(f, x))

-----------------------------------------------------------------------------
(* From an integer of n bits to a float, to nearest *)

\* A positive integer of si_int, by a shift in the word of the format.
FloatWord(f, n, sign, a) ==
  LET w == typeWidth(f)
      e == n - 1 - Clz(n, a)
      shift == e - f.s
      round == Shl(w, a, w - shift)
      m == IF shift <= 0 THEN (a * 2^(-shift)) ^^ implicitBit(f)
           ELSE LET r == Shr(w, a, shift) ^^ implicitBit(f)
                IN r + (IF round > signBit(f) \/ (round = signBit(f) /\ r % 2 = 1) THEN 1 ELSE 0)
  IN IF a = 0 THEN 0 ELSE (m + (e + exponentBias(f)) * implicitBit(f)) | sign

SignFor(f, n, a) == IF Sign(n, a) = 0 THEN 0 ELSE signBit(f)
floatsisf(f, n, a) == FloatWord(f, n, SignFor(f, n, a), Flip(n, a, Sign(n, a)))
floatunsisf(f, n, a) == FloatWord(f, n, 0, a)
\* an si_int always fits the significand of a double
floatsidf(f, n, a) == floatsisf(f, n, a)
floatunsidf(f, n, a) == floatunsisf(f, n, a)

\* a, rounded to digits bits by the bits P, Q and R of the comments, and its
\* exponent; a < 2^n is not zero.
RoundToDigits(n, a, digits) ==
  LET sd == n - Clz(n, a)
      pqr == CASE sd = digits + 1 -> Shl(n, a, 1)
               [] sd = digits + 2 -> a
               [] OTHER -> Shr(n, a, sd - (digits + 2))
                             | Sticky(a & Shr(n, 2^n - 1, n + digits + 2 - sd))
      r == ((pqr | Sticky(pqr & 4)) + 1) \div 4
  IN IF sd <= digits THEN [significand |-> Shl(n, a, digits - sd), exponent |-> sd - 1]
     ELSE IF r & 2^digits # 0 THEN [significand |-> r \div 2, exponent |-> sd]
     ELSE [significand |-> r, exponent |-> sd - 1]

FloatRounded(f, n, sign, a) ==
  LET r == RoundToDigits(n, a, f.s + 1) IN
  IF a = 0 THEN 0
  ELSE sign | ((r.exponent + exponentBias(f)) * implicitBit(f)) | (r.significand % implicitBit(f))

FloatRoundedSigned(f, n, a) == FloatRounded(f, n, SignFor(f, n, a), Flip(n, a, Sign(n, a)))

floatdisf(f, n, a) == FloatRoundedSigned(f, 2 * n, a)
floatundisf(f, n, a) == FloatRounded(f, 2 * n, 0, a)
floattisf(f, n, a) == FloatRoundedSigned(f, 4 * n, a)
floatuntisf(f, n, a) == FloatRounded(f, 4 * n, 0, a)
soft_floatdidf(f, n, a) == FloatRoundedSigned(f, 2 * n, a)
soft_floatundidf(f, n, a) == FloatRounded(f, 2 * n, 0, a)
floattidf(f, n, a) == FloatRoundedSigned(f, 4 * n, a)
floatuntidf(f, n, a) == FloatRounded(f, 4 * n, 0, a)

\* The version for floating-point hardware: halves with the bits of a large
\* power of two in front of them, subtracted again.  The hardware adds as
\* adddf3 does.
TwoTo(f, k) == (k + exponentBias(f)) * implicitBit(f)
floatdidf(f, n, a) ==
  LET high == muldf3(f, floatsidf(f, n, High(n, a)), TwoTo(f, n))
      low == TwoTo(f, f.s) | Low(n, a)
  IN adddf3(f, subdf3(f, high, TwoTo(f, f.s)), low)
floatundidf(f, n, a) ==
  LET high == TwoTo(f, f.s + n) | High(n, a)
      low == TwoTo(f, f.s) | Low(n, a)
      both == adddf3(f, TwoTo(f, f.s + n), TwoTo(f, f.s))
  IN adddf3(f, subdf3(f, high, both), low)

ZeroXf == [negative |-> FALSE, exponent |-> 0, significand |-> 0]
floatdixf(f, n, a) ==
  LET abs == Flip(2 * n, a, Sign(2 * n, a))
      clz == Clz(2 * n, abs)
  IN IF a = 0 THEN ZeroXf
     ELSE [negative |-> Sign(2 * n, a) # 0, exponent |-> 2 * n - 1 - clz + exponentBias(f),
           significand |-> Shl(2 * n, abs, clz)]
floatundixf(f, n, a) ==
  LET clz == Clz(2 * n, a) IN
  IF a = 0 THEN ZeroXf
  ELSE [negative |-> FALSE, exponent |-> 2 * n - 1 - clz + exponentBias(f),
        significand |-> Shl(2 * n, a, clz)]
floatuntixf(f, n, a) ==
  LET r == RoundToDigits(4 * n, a, 2 * n) IN
  IF a = 0 THEN ZeroXf
  ELSE [negative |-> FALSE, exponent |-> r.exponent + exponentBias(f), significand |-> r.significand]
floattixf(f, n, a) ==
  IF a = 0 THEN ZeroXf
  ELSE [floatuntixf(f, n, Flip(4 * n, a, Sign(4 * n, a))) EXCEPT !.negative = Sign(4 * n, a) # 0]

-----------------------------------------------------------------------------
(* Complex product and quotient (muldc3.c, divdc3.c and their single and     *)
(* extended versions) and the integer power (powidf2.c), on a target without *)
(* a floating-point unit.                                                    *)

copysign(f, x, y) == AbsOf(f, x) | SignOf(f, y)
\* an infinity as one of its sign, any other number as zero
Box(f, x) == copysign(f, IF IsInf(f, x) THEN oneRep(f) ELSE 0, x)
NanToZero(f, x) == IF IsNaN(f, x) THEN copysign(f, 0, x) ELSE x

\* Both parts came out as NaN: the product is done again with the infinities boxed.
muldc3(f, a, b, c, d) ==
  LET Times(x, y) == muldf3(f, x, y)
      products == {Times(a, c), Times(b, d), Times(a, d), Times(b, c)}
      first == <<subdf3(f, Times(a, c), Times(b, d)), adddf3(f, Times(a, d), Times(b, c))>>
      infAB == IsInf(f, a) \/ IsInf(f, b)
      infCD == IsInf(f, c) \/ IsInf(f, d)
      recalc == infAB \/ infCD \/ \E p \in products : IsInf(f, p)
      A == IF infAB THEN Box(f, a) ELSE NanToZero(f, a)
      B == IF infAB THEN Box(f, b) ELSE NanToZero(f, b)
      C == IF infCD THEN Box(f, c) ELSE NanToZero(f, c)
      D == IF infCD THEN Box(f, d) ELSE NanToZero(f, d)
  IN IF IsNaN(f, first[1]) /\ IsNaN(f, first[2]) /\ recalc
     THEN <<Times(infRep(f), subdf3(f, Times(A, C), Times(B, D))),
            Times(infRep(f), adddf3(f, Times(A, D), Times(B, C)))>>
     ELSE first

mulsc3(f, a, b, c, d) == muldc3(f, a, b, c, d)
mulxc3(f, a, b, c, d) == muldc3(f, a, b, c, d)

\* fmax, logb and scalbn of the C library
FMax(f, x, y) == IF IsNaN(f, x) THEN y ELSE IF IsNaN(f, y) THEN x ELSE IF x > y THEN x ELSE y
Logb(f, x) == Log2(Digits(f, x)) + Scale(f, x)
Scalbn(f, x, k) ==
  IF IsZero(f, x) \/ ~IsFinite(f, x) THEN x
  ELSE Rounded(f, SignOf(f, x), Digits(f, x), 1, Scale(f, x) + k)

divdc3(f, a, b, c, d) ==
  LET Times(x, y) == muldf3(f, x, y)
      Plus(x, y) == adddf3(f, x, y)
      Minus(x, y) == subdf3(f, x, y)
      w == FMax(f, AbsOf(f, c), AbsOf(f, d))
      finite == IsFinite(f, w) /\ ~IsZero(f, w)     \* and so is logb(w)
      ilogbw == IF finite THEN Logb(f, w) ELSE 0
      cc == IF finite THEN Scalbn(f, c, -ilogbw) ELSE c
      dd == IF finite THEN Scalbn(f, d, -ilogbw) ELSE d
      denom == Plus(Times(cc, cc), Times(dd, dd))
      Part(x) == Scalbn(f, divdf3(f, x, denom), -ilogbw)
      first == <<Part(Plus(Times(a, cc), Times(b, dd))), Part(Minus(Times(b, cc), Times(a, dd)))>>
      A == Box(f, a)
      B == Box(f, b)
      C == Box(f, cc)
      D == Box(f, dd)
      Inf == infRep(f)
  IN IF ~(IsNaN(f, first[1]) /\ IsNaN(f, first[2])) THEN first
     ELSE IF IsZero(f, denom) /\ ~(IsNaN(f, a) /\ IsNaN(f, b))
     THEN <<Times(copysign(f, Inf, cc), a), Times(copysign(f, Inf, cc), b)>>
     ELSE IF (IsInf(f, a) \/ IsInf(f, b)) /\ IsFinite(f, cc) /\ IsFinite(f, dd)
     THEN <<Times(Inf, Plus(Times(A, cc), Times(B, dd))), Times(Inf, Minus(Times(B, cc), Times(A, dd)))>>
     ELSE IF IsInf(f, w) /\ IsFinite(f, a) /\ IsFinite(f, b)
     THEN <<Times(0, Plus(Times(a, C), Times(b, D))), Times(0, Minus(Times(b, C), Times(a, D)))>>
     ELSE first
divsc3(f, a, b, c, d) == divdc3(f, a, b, c, d)
divxc3(f, a, b, c, d) == divdc3(f, a, b, c, d)

\* a ^ b for an integer b, by squaring; half of the loop's b is taken towards zero.
powidf2(f, a, b) ==
  LET abs == IF b < 0 THEN -b ELSE b
      loop[i \in 0 .. 30] ==
        IF i = 0
        THEN [r |-> IF abs % 2 = 1 THEN muldf3(f, oneRep(f), a) ELSE oneRep(f), a |-> a, b |-> abs \div 2]
        ELSE LET p == loop[i - 1]
                 square == muldf3(f, p.a, p.a)
             IN IF p.b = 0 THEN p
                ELSE [r |-> IF p.b % 2 = 1 THEN muldf3(f, p.r, square) ELSE p.r,
                      a |-> square, b |-> p.b \div 2]
      r == loop[30].r
  IN IF b < 0 THEN divdf3(f, oneRep(f), r) ELSE r
powisf2(f, a, b) == powidf2(f, a, b)
powixf2(f, a, b) == powidf2(f, a, b)
powitf2(f, a, b) == powidf2(f, a, b)
=============================================================================
