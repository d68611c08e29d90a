----------------------------- MODULE MCBuiltins ------------------------------
(***************************************************************************)
(* The builtins over every operand of a small width.  A behaviour picks    *)
(* what a shift by too many bits does (modulo) and a job, then the         *)
(* operands of that job one at a time, and calls the builtins with them;   *)
(* the properties compare what they return with integers and with          *)
(* rationals that are rounded once.                                        *)
(***************************************************************************)
EXTENDS Integers, Sequences, FiniteSets, Bitwise

CONSTANTS SI,        \* bits of a word in the job "dword"
          Counted    \* bits of the words whose bits are counted
VARIABLES modulo, job, args
vars == <<modulo, job, args>>

C == INSTANCE SoftFloat WITH ShiftModulo <- modulo
A == INSTANCE AssemblyBuiltins WITH ShiftModulo <- modulo

D == 2 * SI
Half == [s |-> 3, e |-> 4]         \* the format of the job "float"
Fine == [s |-> 5, e |-> 4]         \* of products whose low bits fall out of two words, "product"
Single == [s |-> 2, e |-> 5]       \* and of conversions: of a float,
Double == [s |-> 4, e |-> 5]       \* of a double
NarrowDouble == [s |-> 3, e |-> 6] \* of an integer: the rounding needs 2N > s + 2
Extended == [s |-> 5, e |-> 6]     \* and of a long double of 2N = 6 bits
Small == [s |-> 2, e |-> 4]        \* what a double is truncated to
N == 3                             \* bits of the words they convert

NearPowers(n) == {x \in UNION {{2^k - 1, 2^k, 2^k + 1, 2^n - 2^k} : k \in 0 .. n - 1} : x < 2^n}
Specials == {0, C!signBit(Half), 1, C!oneRep(Half), C!oneRep(Half) + 3,
             C!signBit(Half) + C!oneRep(Half), C!infRep(Half) - 1, C!infRep(Half),
             C!signBit(Half) + C!infRep(Half), C!qnanRep(Half)}

SecondDwords == NearPowers(D) \cup {x \in 0 .. 2^D - 1 : modulo /\ x % 4 = 1}

Operands ==
  CASE job = "count" -> {x \in 0 .. 2^Counted - 1 : x < 2^12 \/ x % 16 = 0}
    [] job = "dword" -> IF args = <<>> THEN 0 .. 2^D - 1 ELSE SecondDwords
    [] job = "quad" -> NearPowers(2 * D)
    [] job = "float" -> IF modulo \/ args = <<>> THEN C!Floats(Half) ELSE NearPowers(8)
    [] job = "product" -> 0 .. (IF args = <<>> THEN 3 ELSE 8) * C!implicitBit(Fine) - 1
    [] job = "toFloat" -> 0 .. 2^(4 * N) - 1
    [] job = "fromFloat" -> C!Floats(Double)
    [] job = "complex" -> Specials \X Specials
    [] job = "power" -> IF args = <<>> THEN -3 .. 3 ELSE -6 .. 6
Arity ==
  CASE job \in {"count", "toFloat", "fromFloat"} -> 1
    [] OTHER -> 2

Init ==
  /\ modulo \in BOOLEAN
  /\ job \in {"power", "complex", "quad", "count", "product", "dword", "float", "toFloat", "fromFloat"}
  /\ ~modulo => job \in {"dword", "float", "toFloat", "fromFloat"}
  /\ args = <<>>
Pick ==
  /\ Len(args) < Arity
  /\ \E x \in Operands : args' = Append(args, x)
  /\ UNCHANGED <<modulo, job>>
\* The builtins are called; the properties say what they return.
Call ==
  /\ Len(args) = Arity
  /\ args' = <<>>
  /\ UNCHANGED <<modulo, job>>
Next == Pick \/ Call
Spec == Init /\ [][Next]_vars

Ready(j) == job = j /\ Len(args) = Arity
a == args[1]
b == args[2]

-----------------------------------------------------------------------------
Abs(x) == IF x < 0 THEN -x ELSE x
Quotient(x, y) == IF (x < 0) = (y < 0) THEN Abs(x) \div Abs(y) ELSE -(Abs(x) \div Abs(y))
Order(x, y) == IF x < y THEN 0 ELSE IF x > y THEN 2 ELSE 1
Fits(n, x) == x \in -2^(n - 1) .. 2^(n - 1) - 1
Checked(n, x) == IF Fits(n, x) THEN A!Wrap(n, x) ELSE A!Abort
Ones(n, x) == Cardinality({i \in 0 .. n - 1 : (x \div 2^i) % 2 = 1})
Dword(x) == A!Signed(D, x)
Quad(x) == A!Signed(2 * D, x)

ShiftsAreExact ==
  b < D =>
    /\ \A left \in {A!ashldi3(SI, a, b), A!i386_ashldi3(SI, a, b)} : left = A!Wrap(D, a * 2^b)
    /\ \A right \in {A!lshrdi3(SI, a, b), A!i386_lshrdi3(SI, a, b)} : right = a \div 2^b
    /\ \A right \in {A!ashrdi3(SI, a, b), A!i386_ashrdi3(SI, a, b), A!sse2_ashrdi3(SI, a, b)} :
         right = A!Wrap(D, Dword(a) \div 2^b)

DwordArithmetic ==
  /\ A!cmpdi2(SI, a, b) = Order(Dword(a), Dword(b))
  /\ A!ucmpdi2(SI, a, b) = Order(a, b)
  /\ A!addvdi3(SI, a, b) = Checked(D, Dword(a) + Dword(b))
  /\ A!subvdi3(SI, a, b) = Checked(D, Dword(a) - Dword(b))
  /\ A!mulvdi3(SI, a, b) = Checked(D, Dword(a) * Dword(b))
  /\ A!mulodi4(SI, a, b) = [result |-> A!Wrap(D, a * b), overflow |-> ~Fits(D, Dword(a) * Dword(b))]
  /\ A!absvdi2(SI, a) = Checked(D, Abs(Dword(a)))
  /\ A!negvdi2(SI, a) = Checked(D, -Dword(a))
  /\ A!negdi2(SI, a) = A!Wrap(D, -a)
  /\ A!muldi3(SI, a, b) = A!Wrap(D, a * b)
  /\ A!i386_muldi3(SI, a, b) = A!Wrap(D, a * b)

QuadArithmetic ==
  /\ A!cmpti2(SI, a, b) = Order(Quad(a), Quad(b))
  /\ A!ucmpti2(SI, a, b) = Order(a, b)
  /\ A!addvti3(SI, a, b) = Checked(2 * D, Quad(a) + Quad(b))
  /\ A!subvti3(SI, a, b) = Checked(2 * D, Quad(a) - Quad(b))
  /\ A!mulvti3(SI, a, b) = Checked(2 * D, Quad(a) * Quad(b))
  /\ A!muloti4(SI, a, b).overflow = ~Fits(2 * D, Quad(a) * Quad(b))
  /\ A!absvti2(SI, a) = Checked(2 * D, Abs(Quad(a)))
  /\ A!negvti2(SI, a) = Checked(2 * D, -Quad(a))
  /\ A!negti2(SI, a) = A!Wrap(2 * D, -a)
  /\ A!multi3(SI, a, b) = A!Wrap(2 * D, Quad(a) * Quad(b))
  /\ b < 2 * D => /\ A!lshrti3(SI, a, b) = a \div 2^b
                  /\ A!ashrti3(SI, a, b) = A!Wrap(2 * D, Quad(a) \div 2^b)
                  /\ A!ashlti3(SI, a, b) = (a % 2^(2 * D - b)) * 2^b

BitsAreCounted ==
  LET n == Counted
      h == n \div 2
  IN /\ a # 0 => /\ A!clzsi2(n, a) = A!Clz(n, a) /\ A!clzdi2(h, a) = A!Clz(n, a)
                 /\ A!ctzsi2(n, a) = A!Ctz(n, a) /\ A!ctzdi2(h, a) = A!Ctz(n, a)
                 /\ n = 16 => /\ A!clzti2(4, a) = A!Clz(n, a)
                              /\ A!ctzti2(4, a) = A!Ctz(n, a)
                              /\ A!ffsti2(4, a) = A!Ctz(n, a) + 1
     /\ A!ffsdi2(h, a) = IF a = 0 THEN 0 ELSE A!Ctz(n, a) + 1
     /\ A!patmos_clzsi2(n, a) = IF a = 0 THEN n ELSE A!Clz(n, a)
     /\ A!patmos_ctzsi2(n, a) = IF a = 0 THEN n ELSE A!Ctz(n, a)
     /\ A!popcountsi2(n, a) = Ones(n, a)
     /\ A!popcountdi2(h, a) = Ones(n, a)
     /\ A!paritysi2(n, a) = Ones(n, a) % 2
     /\ A!paritydi2(h, a) = Ones(n, a) % 2
     /\ n = 16 => A!parityti2(4, a) = Ones(n, a) % 2
     /\ n = 16 => LET w == <<a % 256, a \div 256, (a * 7) % 256, 5>> IN
                  /\ A!bswapsi2(w) = <<w[4], w[3], w[2], w[1]>>
                  /\ A!bswapdi2(w \o <<1, 2, 3, 4>>) = <<4, 3, 2, 1, w[4], w[3], w[2], w[1]>>

ArithmeticAgrees ==
  /\ Ready("dword") => ShiftsAreExact /\ DwordArithmetic
  /\ Ready("quad") => QuadArithmetic
  /\ Ready("count") => BitsAreCounted

DividesWord(n, signed(_)) ==
  LET q == a \div b
      r == a % b
      sq == A!Wrap(n, Quotient(signed(a), signed(b)))
      sr == A!Wrap(n, signed(a) - signed(b) * Quotient(signed(a), signed(b)))
  IN /\ {A!udivsi3(n, a, b), A!patmos_udivsi3(n, a, b), A!arm_udivsi3(n, a, b)} = {q}
     /\ {A!umodsi3(n, a, b), A!arm_umodsi3(n, a, b)} = {r}
     /\ {A!udivmodsi4(n, a, b), A!patmos_udivmodsi4(n, a, b), A!arm_udivmodsi4(n, a, b),
         A!aeabi_uidivmod(n, a, b)} = {[quot |-> q, rem |-> r]}
     /\ {A!divsi3(n, a, b), A!arm_divsi3(n, a, b)} = {sq}
     /\ {A!modsi3(n, a, b), A!arm_modsi3(n, a, b)} = {sr}
     /\ {A!divmodsi4(n, a, b), A!arm_divmodsi4(n, a, b), A!aeabi_idivmod(n, a, b)}
          = {[quot |-> sq, rem |-> sr]}
     /\ b < 2^(n - 1) => A!wcet_udivsi3(n, a, b) = q

DividesDword(n, signed(_)) ==
  LET q == a \div b
      r == a % b
      sq == A!Wrap(2 * n, Quotient(signed(a), signed(b)))
      sr == A!Wrap(2 * n, signed(a) - signed(b) * Quotient(signed(a), signed(b)))
  IN /\ {A!udivdi3(n, a, b), A!i386_udivdi3(n, a, b)} = {q}
     /\ {A!umoddi3(n, a, b), A!i386_umoddi3(n, a, b)} = {r}
     /\ A!aeabi_uldivmod(n, a, b) = [quot |-> q, rem |-> r]
     /\ {A!divdi3(n, a, b), A!i386_divdi3(n, a, b)} = {sq}
     /\ {A!moddi3(n, a, b), A!i386_moddi3(n, a, b)} = {sr}
     /\ A!aeabi_ldivmod(n, a, b) = [quot |-> sq, rem |-> sr]

DividesQuad ==
  LET q == Quotient(Quad(a), Quad(b)) IN
  /\ A!udivti3(SI, a, b) = a \div b
  /\ A!umodti3(SI, a, b) = a % b
  /\ A!divti3(SI, a, b) = A!Wrap(2 * D, q)
  /\ A!modti3(SI, a, b) = A!Wrap(2 * D, Quad(a) - Quad(b) * q)

DivisionAgrees ==
  /\ Ready("dword") /\ b # 0 => DividesWord(D, Dword) /\ DividesDword(SI, Dword)
  /\ Ready("quad") /\ b # 0 => DividesQuad

\* Every integer builtin, in C and in assembler, gives what the integers give,
\* wrapped, or aborts exactly when that does not fit; every division (shift and
\* subtract in C, digit by digit on ARM, by the hardware's dword-by-word divide
\* on i386, with a fixed number of rounds on Patmos) gives their quotient and
\* remainder, whatever the shifts by too many bits on its masked-out paths do
\* (udivmodsi4.c, udivmoddi4.c, patmos/udivmodsi4.c, arm/udivsi3.S).  For the
\* version of fixed timing this holds only of divisors without the top bit.
IntegersAgree == [][ArithmeticAgrees /\ DivisionAgrees]_vars

-----------------------------------------------------------------------------
Minus(f, x) == IF x < 0 THEN C!signBit(f) ELSE 0
Near(f, x) == C!Rounded(f, Minus(f, x), Abs(x), 1, 0)
NearFloat(f, g, x) ==
  (IF C!SignOf(f, x) = 0 THEN 0 ELSE C!signBit(g)) + C!Rounded(g, 0, C!Digits(f, x), 1, C!Scale(f, x))

\* A finite float as a multiple of the smallest denormal
Units(f, x) ==
  LET v == C!Digits(f, x) * 2^(C!Scale(f, x) - (1 - C!exponentBias(f) - f.s))
  IN IF C!SignOf(f, x) = 0 THEN v ELSE -v
Sum(f, x) ==
  IF x = 0 /\ ~(C!IsZero(f, a) /\ C!IsZero(f, b)) THEN 0
  ELSE IF x = 0 THEN a & b
  ELSE C!Rounded(f, Minus(f, x), Abs(x), 1, 1 - C!exponentBias(f) - f.s)

FiniteArithmetic(f) ==
  LET sign == C!SignOf(f, a ^^ b)
      product == C!Rounded(f, sign, C!Digits(f, a) * C!Digits(f, b), 1, C!Scale(f, a) + C!Scale(f, b))
      quotient == C!Rounded(f, sign, C!Digits(f, a), C!Digits(f, b), C!Scale(f, a) - C!Scale(f, b))
      x == Units(f, a)
      y == Units(f, b)
      order == IF x < y THEN -1 ELSE IF x = y THEN 0 ELSE 1
  IN /\ {C!addsf3(f, a, b), C!adddf3(f, a, b)} = {Sum(f, x + y)}
     /\ x # y => {C!subsf3(f, a, b), C!subdf3(f, a, b)} = {Sum(f, x - y)}
     /\ x # 0 => {C!negsf2(f, a), C!negdf2(f, a)} = {Sum(f, -x)}
     /\ {C!mulsf3(f, a, b), C!muldf3(f, a, b)} = {product}
     /\ ~C!IsZero(f, b) => \A d \in {C!divsf3(f, a, b), C!divdf3(f, a, b)} :
          /\ Abs(C!AbsOf(f, d) - C!AbsOf(f, quotient)) <= 1
          /\ C!AbsOf(f, quotient) > C!implicitBit(f) => d = quotient
     /\ {C!lesf2(f, a, b), C!gesf2(f, a, b), C!ledf2(f, a, b), C!gedf2(f, a, b), C!eqsf2(f, a, b),
         C!gtsf2(f, a, b), C!eqdf2(f, a, b), C!gtdf2(f, a, b)} = {order}
     /\ {A!arm_lesf2(f, a, b), A!arm_gesf2(f, a, b)} = {order}
     /\ {C!unordsf2(f, a, b), C!unorddf2(f, a, b), A!arm_unordsf2(f, a, b)} = {0}

\* The IEEE rules for operands that are no number or not finite.
SpecialArithmetic(f) ==
  LET nan == C!IsNaN(f, a) \/ C!IsNaN(f, b)
      sign == C!SignOf(f, a ^^ b)
      zero == C!IsZero(f, a) \/ C!IsZero(f, b)
      bothInf == C!IsInf(f, a) /\ C!IsInf(f, b)
      sum == C!adddf3(f, a, b)
      product == C!muldf3(f, a, b)
      quotient == C!divdf3(f, a, b)
  IN /\ C!IsNaN(f, sum) <=> nan \/ (bothInf /\ sign # 0)
     /\ C!IsNaN(f, product) <=> nan \/ zero
     /\ C!IsNaN(f, quotient) <=> nan \/ bothInf
     /\ ~C!IsNaN(f, sum) => sum = IF C!IsInf(f, a) THEN a ELSE b
     /\ ~C!IsNaN(f, product) => product = sign + C!infRep(f)
     /\ ~C!IsNaN(f, quotient) => quotient = sign + (IF C!IsInf(f, a) THEN C!infRep(f) ELSE 0)
     /\ nan => /\ {C!ledf2(f, a, b), A!arm_lesf2(f, a, b), C!unorddf2(f, a, b), A!arm_unordsf2(f, a, b)} = {1}
               /\ {C!gedf2(f, a, b), A!arm_gesf2(f, a, b)} = {-1}

FloatArithmetic ==
  /\ Ready("product") =>
       {C!mulsf3(Fine, a, b), C!muldf3(Fine, a, b)}
         = {C!Rounded(Fine, 0, C!Digits(Fine, a) * C!Digits(Fine, b), 1, C!Scale(Fine, a) + C!Scale(Fine, b))}
  /\ Ready("float") => IF C!IsFinite(Half, a) /\ C!IsFinite(Half, b) THEN FiniteArithmetic(Half)
                       ELSE SpecialArithmetic(Half)

-----------------------------------------------------------------------------
\* A long double as a float of its format
OfXf(f, r) ==
  IF r = C!ZeroXf THEN 0
  ELSE (IF r.negative THEN C!signBit(f) ELSE 0) + r.exponent * 2^(f.s) + r.significand - 2^(f.s)
ToXf(f, x) == [negative |-> C!SignOf(f, x) # 0, exponent |-> C!ExponentOf(f, x),
               significand |-> C!SignificandOf(f, x) + 2^(f.s)]

IntegersToFloats(n) ==
  LET f == Single
      g == NarrowDouble
      d == A!Signed(2 * n, a)
  IN /\ C!floattisf(f, n, a) = Near(f, A!Signed(4 * n, a))
     /\ C!floatuntisf(f, n, a) = Near(f, a)
     /\ C!floattidf(g, n, a) = Near(g, A!Signed(4 * n, a))
     /\ C!floatuntidf(g, n, a) = Near(g, a)
     /\ OfXf(Extended, C!floattixf(Extended, n, a)) = Near(Extended, A!Signed(4 * n, a))
     /\ OfXf(Extended, C!floatuntixf(Extended, n, a)) = Near(Extended, a)
     /\ a < 2^(2 * n) =>
          /\ {C!floatdisf(f, n, a), A!i386_floatdisf(f, n, a)} = {Near(f, d)}
          /\ {C!floatundisf(f, n, a), A!x86_64_floatundisf(f, n, a)} = {Near(f, a)}
          /\ {C!soft_floatdidf(g, n, a), C!floatdidf(g, n, a), A!i386_floatdidf(g, n, a)} = {Near(g, d)}
          /\ {C!soft_floatundidf(g, n, a), C!floatundidf(g, n, a), A!i386_floatundidf(g, n, a),
              A!x86_64_floatundidf(g, n, a)} = {Near(g, a)}
          /\ {OfXf(Extended, C!floatdixf(Extended, n, a)), A!i386_floatdixf(Extended, n, a)}
               = {Near(Extended, d)}
          /\ {OfXf(Extended, C!floatundixf(Extended, n, a)), A!x86_64_floatundixf(Extended, n, a),
              A!i386_floatundixf(Extended, g, n, a)} = {Near(Extended, a)}
     /\ a < 2^8 => LET one == [s |-> 1, e |-> 5]
                   IN A!i386_floatundisf(one, [s |-> 6, e |-> 6], 4, a) = Near(one, a)
     /\ a < 2^(f.s + f.e + 1) => /\ C!floatsisf(f, 8, a) = Near(f, A!Signed(8, a))
                                 /\ C!floatunsisf(f, 8, a) = Near(f, a)
     /\ a < 2^n => /\ C!floatsidf(g, n, a) = Near(g, A!Signed(n, a))
                   /\ C!floatunsidf(g, n, a) = Near(g, a)

\* The integer part of a float, large for one that is out of every range
Truncated(f, x) ==
  LET k == C!Scale(f, x)
      v == IF k > 15 THEN 2^20 ELSE (C!Digits(f, x) * C!Pow(k)) \div C!Pow(IF k < -20 THEN 20 ELSE -k)
  IN IF C!SignOf(f, x) = 0 THEN v ELSE -v

\* Towards zero when the result fits; a negative one becomes 0 without a sign.
GivesSigned(m, v, r) == Fits(m, v) => r = A!Wrap(m, v)
GivesUnsigned(m, v, r) == v < 2^m => r = IF v < 0 THEN 0 ELSE v

FloatsToIntegers(n) ==
  LET f == Single
      g == Double
      x == Extended
      v == Truncated(g, a)
      s == a % 2^C!typeWidth(f)
      vs == Truncated(f, s)
      l == a % 2^C!typeWidth(x)
      vl == Truncated(x, l)
  IN /\ C!IsFinite(g, a) =>
          /\ GivesSigned(n, v, C!fixdfsi(g, n, a)) /\ GivesUnsigned(n, v, C!fixunsdfsi(g, n, a))
          /\ GivesSigned(2 * n, v, C!fixdfdi(g, n, a)) /\ GivesUnsigned(2 * n, v, C!fixunsdfdi(g, n, a))
          /\ GivesSigned(4 * n, v, C!fixdfti(g, n, a)) /\ GivesUnsigned(4 * n, v, C!fixunsdfti(g, n, a))
     /\ C!IsFinite(f, s) =>
          /\ GivesSigned(8, vs, C!fixsfsi(f, 8, s)) /\ GivesUnsigned(8, vs, C!fixunssfsi(f, 8, s))
          /\ GivesSigned(2 * n, vs, C!fixsfdi(f, n, s)) /\ GivesUnsigned(2 * n, vs, C!fixunssfdi(f, n, s))
          /\ GivesSigned(4 * n, vs, C!fixsfti(f, n, s)) /\ GivesUnsigned(4 * n, vs, C!fixunssfti(f, n, s))
     /\ C!IsFinite(x, l) /\ C!ExponentOf(x, l) > 0 =>
          /\ GivesSigned(2 * n, vl, C!fixxfdi(x, n, ToXf(x, l))) /\ GivesUnsigned(n, vl, C!fixunsxfsi(x, n, ToXf(x, l)))
          /\ GivesSigned(4 * n, vl, C!fixxfti(x, n, ToXf(x, l))) /\ GivesUnsigned(2 * n, vl, C!fixunsxfdi(x, n, ToXf(x, l)))
          /\ GivesUnsigned(4 * n, vl, C!fixunsxfti(x, n, ToXf(x, l)))

\* the float halfway between the largest finite one and infinity's place
OverflowsExactly(g, f, x) ==
  C!AbsOf(g, x) = (C!exponentBias(g) - C!exponentBias(f) + C!maxExponent(f)) * C!implicitBit(g)

FloatsToFloats(g, f) ==
  LET x == a % 2^C!typeWidth(f)
      wide == C!extendsfdf2(f, g, x)
      narrow == C!truncdfsf2(g, f, a)
  IN /\ IF C!IsNaN(f, x) THEN C!IsNaN(g, wide)
        ELSE IF C!IsInf(f, x) THEN wide = C!infRep(g) + (IF x = C!infRep(f) THEN 0 ELSE C!signBit(g))
        ELSE wide = NearFloat(f, g, x)
     /\ ~C!IsNaN(f, x) => C!truncdfsf2(g, f, wide) = x
     /\ C!IsNaN(g, a) => C!IsNaN(f, narrow)
     /\ C!IsInf(g, a) => C!IsInf(f, narrow)
     /\ C!IsFinite(g, a) /\ ~OverflowsExactly(g, f, a) => narrow = NearFloat(g, f, a)

ConversionsAgree ==
  /\ Ready("toFloat") => IntegersToFloats(N)
  /\ Ready("fromFloat") => FloatsToIntegers(N) /\ FloatsToFloats(Double, Small)

-----------------------------------------------------------------------------
Infinite(z) == C!IsInf(Half, z[1]) \/ C!IsInf(Half, z[2])
Finite(z) == C!IsFinite(Half, z[1]) /\ C!IsFinite(Half, z[2])
Zero(z) == C!IsZero(Half, z[1]) /\ C!IsZero(Half, z[2])
Nonzero(z) == Infinite(z) \/ (Finite(z) /\ ~Zero(z))

ComplexRules(p, q) ==
  LET Product(muls(_, _, _, _, _)) == muls(Half, p[1], p[2], q[1], q[2])
      Divided(divs(_, _, _, _, _)) == divs(Half, p[1], p[2], q[1], q[2])
      fits == C!IsFinite(Half, C!adddf3(Half, C!AbsOf(Half, p[1]), C!AbsOf(Half, p[2])))
  IN /\ (Infinite(p) /\ Nonzero(q)) \/ (Infinite(q) /\ Nonzero(p)) =>
          \A z \in {Product(C!muldc3), Product(C!mulsc3), Product(C!mulxc3)} : Infinite(z)
     /\ \A z \in {Divided(C!divdc3), Divided(C!divsc3), Divided(C!divxc3)} :
          /\ Infinite(p) /\ Finite(q) => Infinite(z)
          /\ fits /\ Infinite(q) => Zero(z)
          /\ Nonzero(p) /\ Zero(q) => Infinite(z)
          /\ Finite(p) /\ q = <<C!oneRep(Half), 0>> =>
               \A i \in 1 .. 2 : C!AbsOf(Half, z[i]) = C!AbsOf(Half, p[i])

ComplexAndPower ==
  /\ Ready("complex") => ComplexRules(a, b)
  /\ Ready("power") /\ a * b \in -6 .. 6 =>
       {C!powidf2(Half, C!TwoTo(Half, a), b), C!powisf2(Half, C!TwoTo(Half, a), b),
        C!powixf2(Half, C!TwoTo(Half, a), b), C!powitf2(Half, C!TwoTo(Half, a), b)}
         = {C!TwoTo(Half, a * b)}

\* Sum, difference, product and comparison of two floats are what rounding the
\* exact result once gives, for denormals and ties too; so is the quotient,
\* except that one that is denormal may be one unit off.  A complex number with
\* one infinite part, whatever the other is, times a nonzero number is an
\* infinity, and likewise for quotients (Annex G of the C standard, which the
\* recovery code of muldc3.c and divdc3.c is for); a power of two to an integer
\* is exact.  A conversion rounds to nearest from an integer or a wider float, and
\* towards zero to an integer; a float made wider and narrower again is the same
\* (floatdisf.c, fixsfdi.c, truncdfsf2.c, extendsfdf2.c).  The one exception is a
\* double of exactly 2^128.
FloatsRoundOnce == [][FloatArithmetic /\ ConversionsAgree /\ ComplexAndPower]_vars
=============================================================================
