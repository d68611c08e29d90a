----------------------------- MODULE AsanShadow -----------------------------
(***************************************************************************)
(* Shadow memory: one signed byte per granule says which bytes of it may   *)
(* be touched (asan_mapping.h), how regions are poisoned and unpoisoned    *)
(* (asan_poisoning.cc, asan_globals.cc) and what a report makes of the     *)
(* byte (asan_report.cc).  A shadow is a function of granule addresses.    *)
(***************************************************************************)
EXTENDS Integers, Sequences, FiniteSets, FiniteSetsExt

CONSTANTS ShadowGranularity, GlobalRedzone   \* kGlobalAndStackRedzone

HeapLeftRedzone == -6
HeapRightRedzone == -5
HeapFreed == -3
StackLeft == -15
StackMid == -14
StackRight == -13
StackPartial == -12
StackAfterReturn == -11
InitializationOrder == -10
UserPoisoned == -9
GlobalMagic == -7

GranuleOf(a) == (a \div ShadowGranularity) * ShadowGranularity
AddressIsPoisoned(sh, a) ==
  LET value == sh[GranuleOf(a)] IN value # 0 /\ a - GranuleOf(a) >= value

PoisonShadow(sh, addr, size, value) ==
  [a \in DOMAIN sh |-> IF addr <= a /\ a < addr + size THEN value ELSE sh[a]]

\* The first size bytes of a redzone can be touched, the rest cannot.
PoisonShadowPartialRightRedzone(sh, addr, size, redzone, value) ==
  [a \in DOMAIN sh |->
     LET i == a - addr IN
     IF i < 0 \/ i >= redzone THEN sh[a]
     ELSE CASE i + ShadowGranularity <= size -> 0
            [] i >= size -> value
            [] OTHER -> size - i]

-----------------------------------------------------------------------------
(* The program poisons its own memory; left and right need not be aligned. *)

Least(x, y) == IF x < y THEN x ELSE y
Greatest(x, y) == IF x < y THEN y ELSE x

PoisonRegion(sh, left, right) ==
  LET beg == GranuleOf(left)     first == left - beg
      end == GranuleOf(right)    last == right - end
      PoisonEnd == sh[end] > 0 /\ sh[end] <= last
  IN
  IF left = right THEN sh
  ELSE IF beg = end
  THEN IF PoisonEnd
       THEN [sh EXCEPT ![beg] = IF first > 0 THEN Least(@, first) ELSE UserPoisoned]
       ELSE sh
  ELSE [a \in DOMAIN sh |->
          CASE a = beg /\ first > 0 -> IF sh[a] = 0 THEN first ELSE Least(sh[a], first)
            [] beg <= a /\ a < end /\ ~(a = beg /\ first > 0) -> UserPoisoned
            [] a = end -> IF PoisonEnd THEN UserPoisoned ELSE sh[a]
            [] OTHER -> sh[a]]

UnpoisonRegion(sh, left, right) ==
  LET beg == GranuleOf(left)     end == GranuleOf(right)    last == right - end IN
  IF left = right THEN sh
  ELSE [a \in DOMAIN sh |->
          IF beg <= a /\ a < end THEN 0
          ELSE IF a = end /\ last > 0 /\ sh[a] # 0 THEN Greatest(sh[a], last)
          ELSE sh[a]]

-----------------------------------------------------------------------------
(* Globals: [beg, size, size_with_redzone].                                *)

AlignUp(size) == ((size + GlobalRedzone - 1) \div GlobalRedzone) * GlobalRedzone

PoisonRedZones(sh, g) ==
  LET right == PoisonShadow(sh, g.beg + AlignUp(g.size), GlobalRedzone, GlobalMagic)
      down == (g.size \div GlobalRedzone) * GlobalRedzone
  IN IF g.size % GlobalRedzone = 0 THEN right
     ELSE PoisonShadowPartialRightRedzone(right, g.beg + down, g.size % GlobalRedzone,
                                          GlobalRedzone, GlobalMagic)

\* A global found by address, with where the address lies.
DescribeAddressRelativeToGlobal(a, g) ==
  CASE a < g.beg - GlobalRedzone \/ a >= g.beg + g.size_with_redzone -> "elsewhere"
    [] a < g.beg /\ a >= g.beg - GlobalRedzone -> "left"
    [] a >= g.beg + g.size /\ a < g.beg + g.size_with_redzone -> "right"
    [] OTHER -> "inside"

-----------------------------------------------------------------------------
(* What __asan_report_error calls an access.                               *)

bug_descr(value) ==
  CASE value \in {HeapLeftRedzone, HeapRightRedzone} -> "heap-buffer-overflow"
    [] value = HeapFreed -> "heap-use-after-free"
    [] value = StackLeft -> "stack-buffer-underflow"
    [] value = InitializationOrder -> "initialization-order-fiasco"
    [] value \in {StackMid, StackRight, StackPartial} -> "stack-buffer-overflow"
    [] value = StackAfterReturn -> "stack-use-after-return"
    [] value = UserPoisoned -> "use-after-poison"
    [] value = GlobalMagic -> "global-buffer-overflow"
    [] OTHER -> "unknown-crash"

\* The shadow byte it looks at: the second one of a wide access whose first
\* granule is open, and the next one when the byte is that of a partial granule.
DescribedByte(sh, a, access_size) ==
  LET g == GranuleOf(a)
      wide == IF sh[g] = 0 /\ access_size > ShadowGranularity THEN g + ShadowGranularity ELSE g
      next == IF sh[wide] > 0 THEN wide + ShadowGranularity ELSE wide
  IN bug_descr(sh[next])
-----------------------------------------------------------------------------
(* The layout of the address space, for a shadow at 2^k that is the lowest *)
(* bit of no shadow address below it: "| SHADOW_OFFSET" is then an          *)
(* addition.  scale, offset and high_end (kHighMemEnd) are parameters.      *)

MemToShadow(L, a) == (a \div 2 ^ L.scale) + IF ((a \div 2 ^ L.scale) \div L.offset) % 2 = 1
                                            THEN 0 ELSE L.offset
LowMemEnd(L) == L.offset - 1
LowShadow(L) == L.offset .. MemToShadow(L, LowMemEnd(L))
HighMemBeg(L) == MemToShadow(L, L.high_end) + 1
HighShadowBeg(L) == MemToShadow(L, HighMemBeg(L))
ShadowGap(L) == MemToShadow(L, LowMemEnd(L)) + 1 .. HighShadowBeg(L) - 1

AddrIsInLowMem(L, a) == a < LowMemEnd(L)
AddrIsInHighMem(L, a) == HighMemBeg(L) <= a /\ a <= L.high_end
AddrIsInMem(L, a) == AddrIsInLowMem(L, a) \/ AddrIsInHighMem(L, a)
AddrIsInHighShadow(L, a) == HighShadowBeg(L) <= a /\ a <= L.high_end

\* DescribeAddressIfShadow, or the CHECK that an address must be one of these.
DescribeAddressIfShadow(L, a) ==
  CASE AddrIsInMem(L, a) -> "memory"
    [] ~AddrIsInMem(L, a) /\ a \in ShadowGap(L) -> "shadow gap area"
    [] ~AddrIsInMem(L, a) /\ AddrIsInHighShadow(L, a) -> "high shadow area"
    [] ~AddrIsInMem(L, a) /\ a \in LowShadow(L) -> "low shadow area"
    [] OTHER -> "CHECK"
=============================================================================
