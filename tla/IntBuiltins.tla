---------------------------- MODULE IntBuiltins -----------------------------
(***************************************************************************)
(* The integer builtins, lib/*si*.c, lib/*di*.c, lib/*ti*.c and            *)
(* lib/patmos.  The first parameter n is the number of bits of the word    *)
(* (si_int for an si or di function; the ti functions are the di functions *)
(* over a word of twice the width, and so they are defined).  A function   *)
(* that calls compilerrt_abort has the result Abort.                       *)
(*                                                                         *)
(* A word of n bits is a natural number below 2^n; Signed reads it as      *)
(* two's complement (int_lib.h assumes that, and that >> of a negative     *)
(* number is arithmetic).  A dword of n-bit halves is a pair high, low, as *)
(* in the unions of int_types.h.                                           *)
(*                                                                         *)
(* A shift by n or more is undefined in C.  What a build does with it is   *)
(* one of two things: the count is taken modulo n (x86, Patmos), or the    *)
(* result has no bits left (ARM).  ShiftModulo says which.                 *)
(***************************************************************************)
EXTENDS Integers, Sequences, Bitwise

CONSTANT ShiftModulo

Wrap(n, x) == x % 2^n
Signed(n, x) == IF x >= 2^(n - 1) THEN x - 2^n ELSE x
Pair(n, high, low) == high * 2^n + low
High(n, x) == x \div 2^n
Low(n, x) == x % 2^n

Add(n, x, y) == (x + y) % 2^n
Sub(n, x, y) == (x - y) % 2^n
Neg(n, x) == (-x) % 2^n

\* << and >> of unsigned words, and >> of signed ones
Count(n, k) == IF k \in 0 .. n - 1 \/ ~ShiftModulo THEN k ELSE k % n
Shl(n, x, k) ==
  LET c == Count(n, k) IN IF c \in 0 .. n - 1 THEN (x % 2^(n - c)) * 2^c ELSE 0
Shr(n, x, k) ==
  LET c == Count(n, k) IN IF c \in 0 .. n - 1 THEN x \div 2^c ELSE 0
Sar(n, x, k) ==
  LET c == Count(n, k) IN
  Wrap(n, Signed(n, x) \div 2^(IF c \in 0 .. n - 1 THEN c ELSE n - 1))

\* x >> (n - 1) of a signed word: all ones or zero
Sign(n, x) == IF x >= 2^(n - 1) THEN 2^n - 1 ELSE 0

\* (x ^ s) - s, where s is all ones or zero: the negation of x or x itself
Flip(n, x, s) == Sub(n, x ^^ s, s)

\* __builtin_clz and __builtin_ctz of a word that is not zero
Clz(n, x) == n - 1 - (CHOOSE i \in 0 .. n - 1 : 2^i <= x /\ x < 2^(i + 1))
Ctz(n, x) == CHOOSE i \in 0 .. n - 1 : x % 2^(i + 1) = 2^i

Abort == -1

-----------------------------------------------------------------------------
(* Shifts of a dword, 0 <= b < 2n *)

ashldi3(n, a, b) ==
  LET h == High(n, a)
      l == Low(n, a)
  IN IF b >= n THEN Pair(n, Shl(n, l, b - n), 0)
     ELSE IF b = 0 THEN a
     ELSE Pair(n, Shl(n, h, b) | Shr(n, l, n - b), Shl(n, l, b))

lshrdi3(n, a, b) ==
  LET h == High(n, a)
      l == Low(n, a)
  IN IF b >= n THEN Shr(n, h, b - n)
     ELSE IF b = 0 THEN a
     ELSE Pair(n, Shr(n, h, b), Shl(n, h, n - b) | Shr(n, l, b))

ashrdi3(n, a, b) ==
  LET h == High(n, a)
      l == Low(n, a)
  IN IF b >= n THEN Pair(n, Sign(n, h), Sar(n, h, b - n))
     ELSE IF b = 0 THEN a
     ELSE Pair(n, Sar(n, h, b), Shl(n, h, n - b) | Shr(n, l, b))

ashlti3(n, a, b) == ashldi3(2 * n, a, b)
lshrti3(n, a, b) == lshrdi3(2 * n, a, b)
ashrti3(n, a, b) == ashrdi3(2 * n, a, b)

-----------------------------------------------------------------------------
(* Comparison: 0, 1 or 2 for less, equal or greater *)

Compare(highLess, highGreater, lowA, lowB) ==
  IF highLess THEN 0 ELSE IF highGreater THEN 2
  ELSE IF lowA < lowB THEN 0 ELSE IF lowA > lowB THEN 2 ELSE 1

cmpdi2(n, a, b) ==
  LET x == Signed(n, High(n, a))
      y == Signed(n, High(n, b))
  IN Compare(x < y, x > y, Low(n, a), Low(n, b))

ucmpdi2(n, a, b) ==
  LET x == High(n, a)
      y == High(n, b)
  IN Compare(x < y, x > y, Low(n, a), Low(n, b))

cmpti2(n, a, b) == cmpdi2(2 * n, a, b)
ucmpti2(n, a, b) == ucmpdi2(2 * n, a, b)

-----------------------------------------------------------------------------
(* Arithmetic that aborts, or says so, when the result does not fit *)

absvsi2(n, a) == IF a = 2^(n - 1) THEN Abort ELSE Flip(n, a, Sign(n, a))
negvsi2(n, a) == IF a = 2^(n - 1) THEN Abort ELSE Neg(n, a)

addvsi3(n, a, b) ==
  LET s == Add(n, a, b)
      overflow == IF Signed(n, b) >= 0 THEN Signed(n, s) < Signed(n, a) ELSE Signed(n, s) >= Signed(n, a)
  IN IF overflow THEN Abort ELSE s

subvsi3(n, a, b) ==
  LET s == Sub(n, a, b)
      overflow == IF Signed(n, b) >= 0 THEN Signed(n, s) > Signed(n, a) ELSE Signed(n, s) <= Signed(n, a)
  IN IF overflow THEN Abort ELSE s

\* a * b of words, which keeps the low bits
Mul(n, a, b) == Wrap(n, Signed(n, a) * Signed(n, b))

\* The test both families of multiplications make.
MulOverflows(n, a, b) ==
  LET MIN == 2^(n - 1)
      MAX == MIN - 1
      abs_a == Flip(n, a, Sign(n, a))
      abs_b == Flip(n, b, Sign(n, b))
  IN IF a = MIN THEN b \notin {0, 1}
     ELSE IF b = MIN THEN a \notin {0, 1}
     ELSE IF abs_a < 2 \/ abs_b < 2 THEN FALSE
     ELSE IF Sign(n, a) = Sign(n, b) THEN abs_a > MAX \div abs_b
     ELSE abs_a > MIN \div abs_b

mulvsi3(n, a, b) == IF MulOverflows(n, a, b) THEN Abort ELSE Mul(n, a, b)
mulosi4(n, a, b) == [result |-> Mul(n, a, b), overflow |-> MulOverflows(n, a, b)]

absvdi2(n, a) == absvsi2(2 * n, a)
absvti2(n, a) == absvsi2(4 * n, a)
negvdi2(n, a) == negvsi2(2 * n, a)
negvti2(n, a) == negvsi2(4 * n, a)
negdi2(n, a) == Neg(2 * n, a)
negti2(n, a) == Neg(4 * n, a)
addvdi3(n, a, b) == addvsi3(2 * n, a, b)
addvti3(n, a, b) == addvsi3(4 * n, a, b)
subvdi3(n, a, b) == subvsi3(2 * n, a, b)
subvti3(n, a, b) == subvsi3(4 * n, a, b)
mulvdi3(n, a, b) == mulvsi3(2 * n, a, b)
mulvti3(n, a, b) == mulvsi3(4 * n, a, b)
mulodi4(n, a, b) == mulosi4(2 * n, a, b)
muloti4(n, a, b) == mulosi4(4 * n, a, b)

-----------------------------------------------------------------------------
(* Multiplication of dwords *)

\* The product of two words by their halves.
muldsi3(n, a, b) ==
  LET k == n \div 2
      al == a % 2^k
      bl == b % 2^k
      p == Wrap(n, al * bl)
      t == Add(n, p \div 2^k, (a \div 2^k) * bl)
      low == Add(n, p % 2^k, (t % 2^k) * 2^k)
      u == Add(n, low \div 2^k, (b \div 2^k) * al)
  IN Pair(n, Wrap(n, (t \div 2^k) + (u \div 2^k) + (a \div 2^k) * (b \div 2^k)),
             Add(n, low % 2^k, (u % 2^k) * 2^k))

\* low is the product of the low words; the cross products are added to its top.
CrossProductsAdded(n, a, b, low) ==
  Pair(n, Wrap(n, High(n, low) + Wrap(n, High(n, a) * Low(n, b))
                               + Wrap(n, Low(n, a) * High(n, b))),
          Low(n, low))
muldi3(n, a, b) == CrossProductsAdded(n, a, b, muldsi3(n, Low(n, a), Low(n, b)))

mulddi3(n, a, b) == muldsi3(2 * n, a, b)
multi3(n, a, b) ==
  CrossProductsAdded(2 * n, a, b, mulddi3(n, Low(2 * n, a), Low(2 * n, b)))

-----------------------------------------------------------------------------
(* Counting bits.  The constants of the code are for 32 bits; here n is any *)
(* power of two from 4, and the code's steps of 16, 8, 4 and 2 bits are n/2 *)
(* down to 2.                                                               *)

\* clz by halves: x is below 4^k at step k
clzsi2(n, a) ==
  LET step[k \in 1 .. n] ==
        IF k = n THEN [x |-> a, r |-> 0]
        ELSE LET s == step[2 * k]
                 t == IF s.x \div 2^k = 0 THEN k ELSE 0
             IN [x |-> s.x \div 2^(k - t), r |-> s.r + t]
      end == step[2]
  IN end.r + (IF end.x < 2 THEN 2 - end.x ELSE 0)

BugCtzStops(n, a) ==
  LET step[k \in 1 .. n] ==
        IF k = n THEN [x |-> a, r |-> 0]
        ELSE LET s == step[2 * k]
                 t == IF s.x % 2^k = 0 THEN k ELSE 0
             IN [x |-> s.x \div 2^t, r |-> s.r + t]
      end == step[2]
  IN end.r + (IF end.x % 2 = 0 THEN 2 - (end.x \div 2) ELSE 0)

\* The x that goes on has garbage above the bits looked at.
ctzsi2(n, a) ==
  LET step[k \in 1 .. n] ==
        IF k = n THEN [x |-> a, r |-> 0]
        ELSE LET s == step[2 * k]
                 t == IF s.x % 2^k = 0 THEN k ELSE 0
             IN [x |-> s.x \div 2^t, r |-> s.r + t]
      end == step[2]
      x == end.x % 4
  IN end.r + (IF x % 2 = 0 THEN 2 - (x \div 2) ELSE 0)

clzdi2(n, a) ==
  LET h == High(n, a) IN IF h = 0 THEN Clz(n, Low(n, a)) + n ELSE Clz(n, h)
ctzdi2(n, a) ==
  LET l == Low(n, a) IN IF l = 0 THEN Ctz(n, High(n, a)) + n ELSE Ctz(n, l)
ffsdi2(n, a) ==
  IF Low(n, a) # 0 THEN Ctz(n, Low(n, a)) + 1
  ELSE IF High(n, a) = 0 THEN 0 ELSE Ctz(n, High(n, a)) + 1 + n

clzti2(n, a) == clzdi2(2 * n, a)
ctzti2(n, a) == ctzdi2(2 * n, a)
ffsti2(n, a) == ffsdi2(2 * n, a)

\* Sums of 2, 4 and 8 bits side by side in the word; wide is its width.
ByteSums(wide, a) ==
  LET ones == 2^wide - 1
      x2 == a - ((a \div 2) & (ones \div 3))
      x4 == ((x2 \div 4) & (ones \div 5)) + (x2 & (ones \div 5))
  IN (x4 + (x4 \div 16)) & (ones \div 17)

\* The bytes are added up by halves, from a word of n bits down to a byte.
SumOfBytes(n, x) ==
  LET half[k \in 4 .. n] == IF k = n THEN x ELSE LET y == half[2 * k] IN Add(n, y, y \div 2^k)
  IN half[8]

popcountsi2(n, a) == SumOfBytes(n, ByteSums(n, a)) % (2 * n)
\* The first sum, of the two halves of the dword, is taken as a word.
popcountdi2(n, a) ==
  LET x == ByteSums(2 * n, a) IN SumOfBytes(n, Wrap(n, x + (x \div 2^n))) % (4 * n)

\* 0x6996 has the parities of the sixteen nibbles.
paritysi2(n, a) ==
  LET fold[k \in 2 .. n] == IF k = n THEN a ELSE LET y == fold[2 * k] IN y ^^ (y \div 2^k)
  IN (27030 \div 2^(fold[4] % 16)) % 2

paritydi2(n, a) == paritysi2(n, High(n, a) ^^ Low(n, a))
parityti2(n, a) == paritydi2(2 * n, High(2 * n, a) ^^ Low(2 * n, a))

-----------------------------------------------------------------------------
(* Division.  A function that also stores a remainder has a record of both. *)

\* The loop of the shift-and-subtract divisions (Figure 3-40 of the PowerPC
\* Compiler Writer's Guide) over words of n bits: r and q are one register,
\* shifted left sr times, and d is subtracted from r when it fits.  Whether it
\* does is read from the sign bit of d - r - 1.
DivisionLoop(n, d, sr, r0, q0) ==
  LET after[i \in 0 .. sr] ==
        IF i = 0 THEN [r |-> r0, q |-> q0, carry |-> 0]
        ELSE LET p == after[i - 1]
                 r == Shl(n, p.r, 1) | Shr(n, p.q, n - 1)
                 fits == Sign(n, Wrap(n, d - r - 1)) # 0
             IN [r |-> IF fits THEN Sub(n, r, d) ELSE r,
                 q |-> Shl(n, p.q, 1) | p.carry,
                 carry |-> IF fits THEN 1 ELSE 0]
      end == after[sr]
  IN [quot |-> Shl(n, end.q, 1) | end.carry, rem |-> end.r]

\* Division by zero gives 0 in the first and whatever the hardware does in C.
udivsi3(n, a, d) ==
  IF d = 0 \/ a = 0 THEN 0
  ELSE LET sr == Clz(n, d) - Clz(n, a) IN   \* unsigned: a negative one is large
       IF sr < 0 THEN 0
       ELSE IF sr = n - 1 THEN a
       ELSE DivisionLoop(n, d, sr + 1, Shr(n, a, sr + 1), Shl(n, a, n - sr - 1)).quot

umodsi3(n, a, b) == Sub(n, a, Wrap(n, udivsi3(n, a, b) * b))

udivmodsi4(n, a, b) ==
  LET d == udivsi3(n, a, b) IN [quot |-> d, rem |-> Sub(n, a, Wrap(n, d * b))]

divsi3(n, a, b) ==
  LET s_a == Sign(n, a)
      s_b == Sign(n, b)
  IN Flip(n, udivsi3(n, Flip(n, a, s_a), Flip(n, b, s_b)), s_a ^^ s_b)

modsi3(n, a, b) == Sub(n, a, Mul(n, divsi3(n, a, b), b))

divmodsi4(n, a, b) ==
  LET d == divsi3(n, a, b) IN [quot |-> d, rem |-> Sub(n, a, Mul(n, d, b))]

\* A dword a with a high part, over one that is zero below.
DivideByHigh(n, a, b) ==
  LET nh == High(n, a)
      nl == Low(n, a)
      dh == High(n, b)
      sr == Clz(n, dh) - Clz(n, nh)
  IN IF nl = 0 THEN [quot |-> nh \div dh, rem |-> Pair(n, nh % dh, 0)]
     ELSE IF dh & (dh - 1) = 0
     THEN [quot |-> Shr(n, nh, Ctz(n, dh)), rem |-> Pair(n, nh & (dh - 1), nl)]
     ELSE IF sr < 0 \/ sr > n - 2 THEN [quot |-> 0, rem |-> a]
     ELSE LET k == sr + 1 IN
          DivisionLoop(2 * n, b, k,
            Pair(n, Shr(n, nh, k), Shl(n, nh, n - k) | Shr(n, nl, k)),
            Pair(n, Shl(n, nl, n - k), 0))

\* (si_int)x >> (n - 1) as a mask: keep v if x is negative
Keep(x, v) == IF x < 0 THEN v ELSE 0

\* ... over one that has only a low part.  Shifts of n and more occur; their
\* results are masked out.
DivideByLow(n, a, b) ==
  LET nh == High(n, a)
      nl == Low(n, a)
      dl == Low(n, b)
      sr == Ctz(n, dl)
      k == 1 + n + Clz(n, dl) - Clz(n, nh)
  IN IF dl & (dl - 1) = 0
     THEN [quot |-> IF dl = 1 THEN a
                    ELSE Pair(n, Shr(n, nh, sr), Shl(n, nh, n - sr) | Shr(n, nl, sr)),
           rem |-> nl & (dl - 1)]
     ELSE DivisionLoop(2 * n, b, k,
            Pair(n, Keep(k - n, Shr(n, nh, k)),
                    Keep(n - k - 1, Shr(n, nh, k - n))
                      | Keep(k - n, Shl(n, nh, n - k) | Shr(n, nl, k))),
            Pair(n, Keep(k - n - 1, Shl(n, nl, n - k))
                      | Keep(n - k, Shl(n, nh, 2 * n - k) | Shr(n, nl, k - n)),
                    Keep(n - k, Shl(n, nl, 2 * n - k))))

\* ... and over one that has both.
DivideByBoth(n, a, b) ==
  LET nh == High(n, a)
      nl == Low(n, a)
      sr == Clz(n, High(n, b)) - Clz(n, nh)
      k == sr + 1
  IN IF sr < 0 THEN [quot |-> 0, rem |-> a]
     ELSE DivisionLoop(2 * n, b, k,
            Pair(n, Keep(k - n, Shr(n, nh, k)),
                    Shl(n, nh, n - k) | Keep(k - n, Shr(n, nl, k))),
            Pair(n, Shl(n, nl, n - k), 0))

\* b is not zero: the hardware traps on n.s.high / d.s.low.
udivmoddi4(n, a, b) ==
  IF High(n, a) = 0
  THEN IF High(n, b) = 0
       THEN [quot |-> Low(n, a) \div Low(n, b), rem |-> Low(n, a) % Low(n, b)]
       ELSE [quot |-> 0, rem |-> Low(n, a)]
  ELSE IF Low(n, b) = 0 THEN DivideByHigh(n, a, b)
  ELSE IF High(n, b) = 0 THEN DivideByLow(n, a, b)
  ELSE DivideByBoth(n, a, b)

udivdi3(n, a, b) == udivmoddi4(n, a, b).quot
umoddi3(n, a, b) == udivmoddi4(n, a, b).rem

divdi3(n, a, b) ==
  LET s_a == Sign(2 * n, a)
      s_b == Sign(2 * n, b)
  IN Flip(2 * n, udivdi3(n, Flip(2 * n, a, s_a), Flip(2 * n, b, s_b)), s_a ^^ s_b)

\* The sign of the remainder is that of a.
moddi3(n, a, b) ==
  LET s == Sign(2 * n, a)
  IN Flip(2 * n, umoddi3(n, Flip(2 * n, a, s), Flip(2 * n, b, Sign(2 * n, b))), s)

divmoddi4(n, a, b) ==
  LET d == divdi3(n, a, b) IN [quot |-> d, rem |-> Sub(2 * n, a, Mul(2 * n, d, b))]

DivideByHighTi(n, a, b) == DivideByHigh(2 * n, a, b)
DivideByLowTi(n, a, b) == DivideByLow(2 * n, a, b)
DivideByBothTi(n, a, b) == DivideByBoth(2 * n, a, b)
udivmodti4(n, a, b) ==
  IF High(2 * n, a) = 0 THEN udivmoddi4(2 * n, a, b)
  ELSE IF Low(2 * n, b) = 0 THEN DivideByHighTi(n, a, b)
  ELSE IF High(2 * n, b) = 0 THEN DivideByLowTi(n, a, b)
  ELSE DivideByBothTi(n, a, b)
udivti3(n, a, b) == udivmodti4(n, a, b).quot
umodti3(n, a, b) == udivmodti4(n, a, b).rem
divti3(n, a, b) == divdi3(2 * n, a, b)
modti3(n, a, b) == moddi3(2 * n, a, b)

-----------------------------------------------------------------------------
(* lib/patmos.  On Patmos the versions in assembler are built.              *)

\* One bit of the dividend at a time; r loses a bit when it is shifted.
PatmosDivision(n, a, d) ==
  LET after[i \in 0 .. n] ==   \* after the bits down to i
        IF i = n THEN [r |-> 0, q |-> 0]
        ELSE LET p == after[i + 1]
                 r == Shl(n, p.r, 1) | (Shr(n, a, i) % 2)
             IN IF r >= d THEN [r |-> r - d, q |-> p.q + 2^i] ELSE [r |-> r, q |-> p.q]
  IN after[0]

patmos_udivmodsi4(n, a, d) ==
  LET end == PatmosDivision(n, a, d) IN [quot |-> end.q, rem |-> end.r]
patmos_udivsi3(n, a, d) == PatmosDivision(n, a, d).q

\* The version with a fixed number of rounds, for predictable timing.
wcet_udivsi3(n, a, d) ==
  LET q == DivisionLoop(n, d, n - 1, Shr(n, a, n - 1), Shl(n, a, 1)).quot
  IN IF d > a THEN 0 ELSE IF d = 1 THEN a ELSE q

\* t counts half of the zeros; the last step is 2 - a, without a test for 3.
patmos_clzsi2(n, a) ==
  LET step[k \in 1 .. n] ==
        IF k = n THEN [x |-> a, t |-> 0]
        ELSE LET s == step[2 * k] IN
             IF s.x < 2^k THEN [x |-> s.x, t |-> s.t + k \div 2]
                          ELSE [x |-> s.x \div 2^k, t |-> s.t]
      end == step[2]
  IN 2 * end.t + (IF end.x > 2 THEN 0 ELSE 2 - end.x)

\* a & -a leaves one bit; each mask says one bit of its position.
patmos_ctzsi2(n, a) ==
  LET low == a & Neg(n, a)
      mask(k) == (2^n - 1) \div (2^k + 1)
      step[k \in 1 .. n] ==
        IF k = n THEN n - (IF a # 0 THEN 1 ELSE 0)
        ELSE step[2 * k] - (IF low & mask(k) # 0 THEN k ELSE 0)
  IN step[1]
=============================================================================
