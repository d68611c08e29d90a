-------------------------- MODULE AssemblyBuiltins ---------------------------
(***************************************************************************)
(* The builtins written in assembler: lib/i386, lib/x86_64 and lib/arm.    *)
(* A register or a flag holds a word, as in IntBuiltins; the hardware's    *)
(* own floating-point operations round to nearest (Nearest).  n is the     *)
(* width of a register (the files say 32).  The vfp files of lib/arm are   *)
(* one instruction each and are not modelled.                              *)
(***************************************************************************)
EXTENDS IntBuiltins, SoftFloat

-----------------------------------------------------------------------------
(* i386: shifts of edx:eax.  shld and shrd take the count modulo n; bit n of  *)
(* the count is then looked at.                                             *)

i386_ashldi3(n, a, b) ==
  LET c == b % n
      high == (a * 2^c) \div 2^n
      low == Wrap(n, Low(n, a) * 2^c)
  IN IF b >= n THEN Pair(n, low, 0) ELSE Pair(n, Wrap(n, high), low)

i386_lshrdi3(n, a, b) ==
  LET c == b % n
      low == Wrap(n, a \div 2^c)
      high == High(n, a) \div 2^c
  IN IF b >= n THEN high ELSE Pair(n, high, low)

i386_ashrdi3(n, a, b) ==
  LET c == b % n
      low == Wrap(n, a \div 2^c)
      high == Wrap(n, Signed(n, High(n, a)) \div 2^c)
  IN IF b >= n THEN Pair(n, Sign(n, high), high) ELSE Pair(n, high, low)

\* With SSE2 psrlq zeroes what is shifted in, and the sign is put in front.
sse2_ashrdi3(n, a, b) ==
  LET logical == a \div 2^b
  IN IF a >= 2^(2 * n - 1) THEN logical + (2^b - 1) * 2^(2 * n - b) ELSE logical

\* mull of the low words, imull for the mixed products
i386_muldi3(n, a, b) ==
  LET low == Low(n, a) * Low(n, b)
  IN Pair(n, Wrap(n, High(n, low) + Wrap(n, Low(n, b) * High(n, a)) + Wrap(n, Low(n, a) * High(n, b))),
             Low(n, low))

\* divl: a dword by a word; the quotient of a larger one would trap
Divl(n, high, low, d) == [q |-> Pair(n, high, low) \div d, r |-> Pair(n, high, low) % d]

\* The quotient of dwords where the divisor has a high word: from the n bits
\* bs of the divisor that follow its leading one, which is a little too large a
\* divisor or exact, at most one too much; borrow says it was, by the sign of
\* what a - q * b leaves in the high word.
DivideByTop(n, a, b) ==
  LET i == Log2(High(n, b))
      bs == Wrap(n, Shl(n, High(n, b), n - 1 - i) | (Low(n, b) \div 2^(i + 1)))
      fits == High(n, a) < bs
      qs == Divl(n, IF fits THEN High(n, a) ELSE High(n, a) - bs, Low(n, a), bs).q
      q == ((qs \div 2) | (IF fits THEN 0 ELSE 2^(n - 1))) \div 2^i
      rest == Sub(2 * n, a, q * Low(n, b))
      high == Wrap(n, q * High(n, b))
  IN [q |-> q, borrow |-> High(n, rest) < high,
      rest |-> Pair(n, Sub(n, High(n, rest), high), Low(n, rest))]

i386_udivdi3(n, a, b) ==
  LET d == DivideByTop(n, a, b)
      first == Divl(n, 0, High(n, a), b)
  IN IF High(n, b) = 0 THEN Pair(n, first.q, Divl(n, first.r, Low(n, a), b).q)
     ELSE d.q - (IF d.borrow THEN 1 ELSE 0)

i386_umoddi3(n, a, b) ==
  LET d == DivideByTop(n, a, b) IN
  IF High(n, b) = 0 THEN Divl(n, Divl(n, 0, High(n, a), b).r, Low(n, a), b).r
  ELSE IF d.borrow THEN Add(2 * n, d.rest, b) ELSE d.rest

\* The absolute values go back to the stack; the quotient takes its sign from
\* both (added, then xored), the remainder from a.
AddXor(n, x, s) == Add(n, x, s) ^^ s
i386_divdi3(n, a, b) ==
  LET s_a == Sign(2 * n, a)
      s_b == Sign(2 * n, b)
  IN AddXor(2 * n, i386_udivdi3(n, Flip(2 * n, a, s_a), Flip(2 * n, b, s_b)), s_a ^^ s_b)
i386_moddi3(n, a, b) ==
  LET s == Sign(2 * n, a)
  IN AddXor(2 * n, i386_umoddi3(n, Flip(2 * n, a, s), Flip(2 * n, b, Sign(2 * n, b))), s)

-----------------------------------------------------------------------------
(* arm: division by subtraction *)

\* The main loop stops when i reaches zero or nothing is left of a, and the
\* last bit is done behind it.  Where the leading bits already agree the loop
\* is entered with i = 0, and i - 1 borrows.
ArmDivision(n, a0, b) ==
  LET i0 == Clz(n, b) - Clz(n, a0)
      step[k \in 0 .. n] ==
        IF k = 0 THEN [a |-> a0, q |-> 0, i |-> i0, more |-> TRUE]
        ELSE LET p == step[k - 1]
                 fits == p.a >= b * 2^(p.i)
                 a == IF fits THEN p.a - b * 2^(p.i) ELSE p.a
             IN IF ~p.more THEN p
                ELSE [a |-> a, q |-> IF fits THEN p.q | 2^(p.i) ELSE p.q,
                      i |-> IF p.i = 0 THEN 0 ELSE p.i - 1,
                      more |-> ~(fits /\ a = 0) /\ p.i > 1]
      end == step[n]
  IN IF a0 = 0 \/ i0 < 0 THEN [quot |-> 0, rem |-> a0]
     ELSE IF end.a >= b THEN [quot |-> end.q | 1, rem |-> end.a - b]
     ELSE [quot |-> end.q, rem |-> end.a]

arm_udivmodsi4(n, a, b) == IF b = 0 THEN [quot |-> 0, rem |-> a] ELSE ArmDivision(n, a, b)
arm_udivsi3(n, a, b) == IF b = 0 THEN 0 ELSE ArmDivision(n, a, b).quot
arm_umodsi3(n, a, b) == IF b = 0 THEN a ELSE ArmDivision(n, a, b).rem

arm_divsi3(n, a, b) ==
  Flip(n, arm_udivsi3(n, Flip(n, a, Sign(n, a)), Flip(n, b, Sign(n, b))), Sign(n, a ^^ b))
arm_modsi3(n, a, b) ==
  Flip(n, arm_umodsi3(n, Flip(n, a, Sign(n, a)), Flip(n, b, Sign(n, b))), Sign(n, a))
arm_divmodsi4(n, a, b) ==
  LET d == arm_udivmodsi4(n, Flip(n, a, Sign(n, a)), Flip(n, b, Sign(n, b)))
  IN [quot |-> Flip(n, d.quot, Sign(n, a ^^ b)), rem |-> Flip(n, d.rem, Sign(n, a))]

\* The run-time ABI's functions, which return both in registers
aeabi_idivmod(n, a, b) == arm_divmodsi4(n, a, b)
aeabi_uidivmod(n, a, b) == arm_udivmodsi4(n, a, b)
aeabi_ldivmod(n, a, b) == divmoddi4(n, a, b)
aeabi_uldivmod(n, a, b) == udivmoddi4(n, a, b)

-----------------------------------------------------------------------------
(* arm: comparison, by the flags of three instructions *)

\* r2 and r3 are the operands without their signs, shifted to the top.
ArmCompare(f, a, b, unordered) ==
  LET n == typeWidth(f)
      r2 == Shl(n, a, 1)
      r3 == Shl(n, b, 1)
      bothZero == r2 | (r3 \div 2) = 0                  \* Z after orrs
      differ == ~bothZero /\ a ^^ b >= signBit(f)       \* N after eorsne
      compared == ~differ                               \* subspl is executed
      equal == IF compared THEN r2 = r3 ELSE FALSE
      carry == compared /\ r2 >= r3                     \* clear since orrs if not compared
      signB == Sign(n, b)
      r0 == IF ~carry THEN 2^n - 1 - signB ELSE IF equal THEN 0 ELSE signB
      top == Wrap(n, 2 * infRep(f))
  IN IF r2 > top \/ r3 > top THEN unordered
     ELSE Signed(n, IF equal THEN r0 ELSE r0 | 1)

arm_lesf2(f, a, b) == ArmCompare(f, a, b, 1)
arm_gesf2(f, a, b) == ArmCompare(f, a, b, -1)
arm_unordsf2(f, a, b) ==
  LET n == typeWidth(f)
      top == Wrap(n, 2 * infRep(f))
  IN IF Shl(n, a, 1) > top \/ Shl(n, b, 1) > top THEN 1 ELSE 0

-----------------------------------------------------------------------------
(* arm: the bytes of a word of 32 bits in the other order, before rev, by    *)
(* rotations; and the jump tables of Thumb code                             *)

\* A word is the sequence of its bytes, the last one lowest.
Ror(w, k) == [i \in 1 .. 4 |-> w[((i - 1 - k) % 4) + 1]]
XorBytes(v, w) == [i \in 1 .. 4 |-> v[i] ^^ w[i]]
bswapsi2(w) ==
  LET mixed == XorBytes(w, Ror(w, 2))
      cleared == [mixed EXCEPT ![2] = 0]
  IN XorBytes(<<0, cleared[1], cleared[2], cleared[3]>>, Ror(w, 1))
bswapdi2(w) == bswapsi2(SubSeq(w, 5, 8)) \o bswapsi2(SubSeq(w, 1, 4))

-----------------------------------------------------------------------------
(* Conversions of a dword of 2n bits *)

\* What the floating-point unit makes of an integer, to nearest.
Nearest(f, x) == Rounded(f, IF x < 0 THEN signBit(f) ELSE 0, IF x < 0 THEN -x ELSE x, 1, 0)

\* Halves on top of a large power of two, as in the C file.
i386_floatdidf(f, n, a) ==
  LET high == muldf3(f, Nearest(f, Signed(n, High(n, a))), TwoTo(f, n))
  IN adddf3(f, TwoTo(f, f.s) | Low(n, a), subdf3(f, high, TwoTo(f, f.s)))
i386_floatundidf(f, n, a) ==
  LET both == adddf3(f, TwoTo(f, f.s + n), TwoTo(f, f.s))
  IN adddf3(f, TwoTo(f, f.s) | Low(n, a), subdf3(f, TwoTo(f, f.s + n) | High(n, a), both))
x86_64_floatundidf(f, n, a) == i386_floatundidf(f, n, a)

\* fildll takes the integer exactly and fstps rounds once.
i386_floatdisf(f, n, a) == Nearest(f, Signed(2 * n, a))

\* A big input is shifted by twelve bits (2n - g.s, for the significand of the
\* double g) with those bits or-ed into the new low ones, which are all below
\* the place where the float rounds; then the exponent is put right.
i386_floatundisf(f, g, n, a) ==
  LET k == 2 * n - g.s
      big == a >= 2^(g.s)
      kept == IF big THEN (a \div 2^k) | (a % 2^k) ELSE a
      double == subdf3(g, TwoTo(g, g.s) | kept, TwoTo(g, g.s))
      single == truncdfsf2(g, f, double)
  IN IF big THEN single + k * implicitBit(f) ELSE single

\* An input with the top bit is halved, the lost bit kept sticky, and doubled.
x86_64_floatundisf(f, n, a) ==
  IF a < 2^(2 * n - 1) THEN Nearest(f, a)
  ELSE mulsf3(f, Nearest(f, (a \div 2) | (a % 2)), TwoTo(f, 1))

\* Taken as signed, and 2^2n added to a negative one; the sum is exact in an
\* extended format of 2n bits of significand.
x86_64_floatundixf(f, n, a) ==
  LET signed == Nearest(f, Signed(2 * n, a))
  IN IF a < 2^(2 * n - 1) THEN signed ELSE adddf3(f, signed, TwoTo(f, 2 * n))
i386_floatdixf(f, n, a) == Nearest(f, Signed(2 * n, a))
i386_floatundixf(f, g, n, a) ==
  LET wide(x) == extendsfdf2(g, f, x)
      both == adddf3(g, TwoTo(g, g.s + n), TwoTo(g, g.s))
      high == subdf3(g, TwoTo(g, g.s + n) | High(n, a), both)
  IN adddf3(f, wide(TwoTo(g, g.s) | Low(n, a)), wide(high))
=============================================================================
