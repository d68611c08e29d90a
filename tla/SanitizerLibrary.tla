-------------------------- MODULE SanitizerLibrary --------------------------
(***************************************************************************)
(* What the sanitizers use instead of the C library, in                    *)
(* lib/sanitizer_common: string functions, the formatted output of reports, *)
(* flags, stack compression and the intrusive list.  A string is a         *)
(* sequence of character codes that holds a 0; s[p + 1] is the character at *)
(* offset p.  Words have Bits bits.                                        *)
(***************************************************************************)
EXTENDS Integers, Sequences, FiniteSets, SequencesExt, FiniteSetsExt

CONSTANT Bits   \* of uptr; u32 has half as many

Null == -1
SmallerOf(x, y) == IF x < y THEN x ELSE y
UMax == 2 ^ Bits - 1
SMax == 2 ^ (Bits - 1) - 1
Wrapped(x) == x % 2 ^ Bits
AsSigned(x) == IF x > SMax THEN x - 2 ^ Bits ELSE x

-----------------------------------------------------------------------------
(* sanitizer_libc.cc                                                       *)

\* char is signed.
CharOf(c) == IF c > 127 THEN c - 256 ELSE c
At(s, p) == s[p + 1]

internal_strlen(s) == Min({i \in DOMAIN s : s[i] = 0}) - 1
internal_strnlen(s, maxlen) == SmallerOf(internal_strlen(s), maxlen)

internal_memchr(s, c, n) ==
  LET at == {p \in 0 .. n - 1 : At(s, p) = c} IN IF at = {} THEN Null ELSE Min(at)

internal_strchr(s, from, c) ==
  LET at == {p \in from .. internal_strlen(s) : At(s, p) = c}
  IN IF at = {} THEN Null ELSE Min(at)
internal_strrchr(s, c) ==
  LET at == {p \in 0 .. internal_strlen(s) - 1 : At(s, p) = c}
  IN IF at = {} THEN Null ELSE Max(at)
internal_strcspn(s, reject) ==
  Min({internal_strlen(s)} \cup
      {p \in 0 .. internal_strlen(s) - 1 : internal_strchr(reject, 0, At(s, p)) # Null})

\* The first offset below n where s from a and t from b differ.
FirstDifference(s, a, t, b, n) ==
  LET at == {p \in 0 .. n - 1 : At(s, a + p) # At(t, b + p)} IN IF at = {} THEN n ELSE Min(at)
internal_memcmp(s, a, t, b, n) ==
  LET p == FirstDifference(s, a, t, b, n)
  IN IF p = n THEN 0 ELSE IF CharOf(At(s, a + p)) < CharOf(At(t, b + p)) THEN -1 ELSE 1

\* The characters compared are those up to a common end.
internal_strncmp(s, t, n) ==
  LET upto == SmallerOf(n, SmallerOf(internal_strlen(s), internal_strlen(t)) + 1)
      p == FirstDifference(s, 0, t, 0, upto)
  IN IF p = upto THEN 0 ELSE IF At(s, p) < At(t, p) THEN -1 ELSE 1
internal_strcmp(s, t) == internal_strncmp(s, t, Len(s) + Len(t))

internal_strstr(haystack, needle) ==
  LET len1 == internal_strlen(haystack)
      len2 == internal_strlen(needle)
      at == {pos \in 0 .. len1 - len2 : internal_memcmp(haystack, pos, needle, 0, len2) = 0}
  IN IF len1 < len2 \/ at = {} THEN Null ELSE Min(at)

\* Copying within one memory, byte by byte: d and s are offsets.
Forward(mem, d, s, n) ==
  LET after[i \in 0 .. n] ==
        IF i = 0 THEN mem ELSE [after[i - 1] EXCEPT ![d + i] = after[i - 1][s + i]]
  IN after[n]
Backward(mem, d, s, n) ==
  LET after[i \in 0 .. n] ==
        IF i = 0 THEN mem
        ELSE [after[i - 1] EXCEPT ![d + n - i + 1] = after[i - 1][s + n - i + 1]]
  IN after[n]
internal_memcpy(mem, d, s, n) == Forward(mem, d, s, n)
internal_memmove(mem, d, s, n) ==
  IF d < s THEN Forward(mem, d, s, n) ELSE IF d > s THEN Backward(mem, d, s, n) ELSE mem
internal_memset(mem, d, c, n) ==
  [i \in DOMAIN mem |-> IF d < i /\ i <= d + n THEN c ELSE mem[i]]

internal_strncat(dst, src, n) ==
  LET len == internal_strlen(dst)
      count == internal_strnlen(src, n)
  IN [i \in DOMAIN dst |-> CASE i <= len -> dst[i]
                             [] len < i /\ i <= len + count -> src[i - len]
                             [] i = len + count + 1 -> 0
                             [] OTHER -> dst[i]]
internal_strncpy(dst, src, n) ==
  [i \in DOMAIN dst |-> CASE i <= internal_strnlen(src, n) -> src[i]
                          [] internal_strnlen(src, n) < i /\ i <= n -> 0
                          [] OTHER -> dst[i]]

IsSpace(c) == c \in {32, 10, 9, 12, 13, 11}
IsDigit(c) == c \in 48 .. 57
\* [value, end]: saturated, and where the number ends.
internal_simple_strtoll(s) ==
  LET start == Min({p \in 0 .. Len(s) - 1 : ~IsSpace(At(s, p))})
      first == IF At(s, start) \in {43, 45} THEN start + 1 ELSE start
      stop == Min({p \in first .. Len(s) - 1 : ~IsDigit(At(s, p))})
      res[p \in first - 1 .. stop - 1] ==
        IF p = first - 1 THEN 0
        ELSE LET ten == IF res[p - 1] <= UMax \div 10 THEN res[p - 1] * 10 ELSE UMax
                 digit == At(s, p) - 48
             IN IF ten <= UMax - digit THEN ten + digit ELSE UMax
  IN [value |-> IF At(s, start) = 45
                THEN IF res[stop - 1] > SMax THEN -SMax - 1 ELSE -res[stop - 1]
                ELSE SmallerOf(SMax, res[stop - 1]),
      end |-> IF stop > first THEN stop ELSE start]

-----------------------------------------------------------------------------
(* sanitizer_printf.cc: the text a directive stands for.  out is what is in *)
(* the buffer, room what it can still take before the last byte.           *)

AppendUnsigned(num, base, minimal) ==
  LET count == CHOOSE k \in 1 .. Bits : num < base ^ k /\ (k = 1 \/ base ^ (k - 1) <= num)
      Digit(k) == (num \div base ^ (k - 1)) % base
      length == IF count < minimal THEN minimal ELSE count
  IN [i \in 1 .. length |-> LET d == IF length - i + 1 > count THEN 0 ELSE Digit(length - i + 1)
                            IN IF d < 10 THEN 48 + d ELSE 97 + d - 10]
AppendSignedDecimal(num) ==
  IF num < 0 THEN <<45>> \o AppendUnsigned(Wrapped(-num), 10, 0) ELSE AppendUnsigned(num, 10, 0)
AppendString(s) == IF s = << >> THEN <<60, 110, 117, 108, 108, 62>>
                   ELSE SubSeq(s, 1, internal_strlen(s))
\* Twelve digits of a 64-bit pointer's sixteen.
AppendPointer(value) == <<48, 120>> \o AppendUnsigned(value, 16, (3 * Bits) \div 16)

\* A directive: [conv, arg]; "text" is a character of the format itself.
Directive(d) ==
  CASE d.conv = "text" -> <<d.arg>>
    [] d.conv = "d" -> AppendSignedDecimal(d.arg)
    [] d.conv = "u" -> AppendUnsigned(d.arg, 10, 0)
    [] d.conv = "x" -> AppendUnsigned(d.arg, 16, 0)
    [] d.conv = "p" -> AppendPointer(d.arg)
    [] d.conv = "s" -> AppendString(d.arg)
    [] d.conv = "c" -> <<d.arg>>
    [] d.conv = "%" -> <<37>>

\* AppendChar: a character that does not fit is counted but not written.
Append2(acc, text, room) ==
  [out |-> acc.out \o SubSeq(text, 1, SmallerOf(Len(text), room - Len(acc.out))),
   result |-> acc.result + Len(text)]
VSNPrintf(buff_length, format) ==
  LET written == FoldLeft(LAMBDA acc, d : Append2(acc, Directive(d), buff_length - 1),
                          [out |-> << >>, result |-> 0], format)
  IN [written EXCEPT !.out = Append(@, 0)]

\* Report puts the process id in front, in the same buffer.
Report(buff_length, prefix, format) ==
  LET head == VSNPrintf(buff_length, prefix)
      rest == VSNPrintf(buff_length - head.result, format)
  IN [out |-> SubSeq(head.out, 1, head.result) \o rest.out, result |-> head.result + rest.result]

-----------------------------------------------------------------------------
(* sanitizer_flags.cc: "name=value" words, the value possibly quoted.      *)

From(s, p) == SubSeq(s, p + 1, Len(s))
\* <<value>>, or << >> when the flag is not there.
GetFlagValue(env, name) ==
  LET pos == internal_strstr(env, name)
      after == pos + internal_strlen(name)
      quoted == At(env, after + 1) \in {34, 39}
      start == IF quoted THEN after + 2 ELSE after + 1
      closing == internal_strchr(env, start, IF quoted THEN At(env, after + 1) ELSE 32)
      end == IF closing = Null THEN internal_strlen(env) ELSE closing
  IN CASE pos = Null -> << >>
       [] pos # Null /\ At(env, after) # 61 -> <<<< >>>>
       [] OTHER -> <<SubSeq(env, start + 1, end)>>

StartsWith(value, word) == IsPrefix(word, value)
ParseFlagBool(env, name, flag, noes, yeses) ==
  LET found == GetFlagValue(env, name) IN
  CASE found = << >> -> flag
    [] found # << >> /\ (\E w \in yeses : StartsWith(found[1], w)) -> TRUE
    [] found # << >> /\ (\E w \in noes : StartsWith(found[1], w))
         /\ ~(\E w \in yeses : StartsWith(found[1], w)) -> FALSE
    [] OTHER -> flag
\* The conversion reads on behind the value, to the end of env.
ParseFlagInt(env, name, flag) ==
  LET pos == internal_strstr(env, name)
      found == GetFlagValue(env, name)
      after == pos + internal_strlen(name)
      start == IF At(env, after) # 61 THEN after
               ELSE IF At(env, after + 1) \in {34, 39} THEN after + 2 ELSE after + 1
  IN IF found = << >> THEN flag ELSE internal_simple_strtoll(From(env, start)).value
ParseFlagString(env, name, flag) ==
  LET found == GetFlagValue(env, name) IN IF found = << >> THEN flag ELSE found[1]

-----------------------------------------------------------------------------
(* sanitizer_stacktrace.cc: a 64-bit pc takes one 32-bit word if it is near *)
(* the one before, and two otherwise.  A word of uptr has two halves.      *)

Half == 2 ^ (Bits \div 2)
Top == Half \div 2              \* 1U << 31
kMaxOffset == 2 ^ (Bits \div 2 - 2) - 1

\* acc: words, how many pcs they hold, the last pc, and whether it goes on.
CompressNext(acc, pc, size) ==
  LET near == Wrapped(acc.prev - pc) < kMaxOffset \/ Wrapped(pc - acc.prev) < kMaxOffset
      offset == Wrapped(pc - acc.prev) % Half
      words == IF near THEN <<IF offset < Top THEN offset + Top ELSE offset>>
               ELSE <<pc \div Half, pc % Half>>
  IN IF ~acc.more \/ pc = 0 \/ pc > SMax \/ Len(acc.words) + Len(words) > size
     THEN [acc EXCEPT !.more = FALSE]
     ELSE [words |-> acc.words \o words, res |-> acc.res + 1, prev |-> pc, more |-> TRUE]

\* The buffer afterwards: the words, two zeroes if they fit, what was there.
CompressStack(trace, compressed, size) ==
  LET acc == FoldLeft(LAMBDA a, pc : CompressNext(a, pc, size),
                      [words |-> << >>, res |-> 0, prev |-> 0, more |-> TRUE], trace)
      n == Len(acc.words)
  IN [compressed |-> [i \in 1 .. size |-> CASE i <= n -> acc.words[i]
                                            [] i \in {n + 1, n + 2} -> 0
                                            [] OTHER -> compressed[i]],
      res |-> acc.res]

BugUncompress(compressed, size, max) ==
  LET from[i \in 1 .. size + 2, prev \in 0 .. UMax, k \in 0 .. max] ==
        IF i > size \/ k = max THEN << >>
        ELSE IF compressed[i] >= Top
        THEN LET pc == prev + compressed[i] - Top IN <<pc>> \o from[i + 1, pc, k + 1]
        ELSE IF i + 1 > size \/ compressed[i] * Half + compressed[i + 1] = 0 THEN << >>
        ELSE LET pc == compressed[i] * Half + compressed[i + 1]
             IN <<pc>> \o from[i + 2, pc, k + 1]
  IN from[1, 0, 0]
UncompressStack(compressed, size, max) ==
  LET Offset(x) == IF x - Top >= Top \div 2 THEN x - Half ELSE x - Top
      from[i \in 1 .. size + 2, prev \in 0 .. UMax, k \in 0 .. max] ==
        IF i > size \/ k = max THEN << >>
        ELSE IF compressed[i] >= Top
        THEN LET pc == Wrapped(prev + Offset(compressed[i])) IN <<pc>> \o from[i + 1, pc, k + 1]
        ELSE IF i + 1 > size \/ compressed[i] * Half + compressed[i + 1] = 0 THEN << >>
        ELSE LET pc == compressed[i] * Half + compressed[i + 1]
             IN <<pc>> \o from[i + 2, pc, k + 1]
  IN from[1, 0, 0]

-----------------------------------------------------------------------------
(* sanitizer_list.h.  A list is [first, last, size]; next is the field of   *)
(* all items, 0 is null.  Operations give [l, next] or [l, from, next].    *)

EmptyList == [first |-> 0, last |-> 0, size |-> 0]
push_back(l, next, x) ==
  IF l.size = 0
  THEN [l |-> [first |-> x, last |-> x, size |-> 1], next |-> [next EXCEPT ![x] = 0]]
  ELSE [l |-> [l EXCEPT !.last = x, !.size = @ + 1],
        next |-> [next EXCEPT ![x] = 0, ![l.last] = x]]
push_front(l, next, x) ==
  IF l.size = 0
  THEN [l |-> [first |-> x, last |-> x, size |-> 1], next |-> [next EXCEPT ![x] = 0]]
  ELSE [l |-> [l EXCEPT !.first = x, !.size = @ + 1], next |-> [next EXCEPT ![x] = l.first]]
pop_front(l, next) ==
  [l |-> [first |-> next[l.first], last |-> IF next[l.first] = 0 THEN 0 ELSE l.last,
          size |-> l.size - 1], next |-> next]
append_front(l, from, next) ==
  CASE l.size = 0 -> [l |-> from, from |-> EmptyList, next |-> next]
    [] l.size # 0 /\ from.size # 0 ->
         [l |-> [l EXCEPT !.first = from.first, !.size = @ + from.size],
          from |-> EmptyList, next |-> [next EXCEPT ![from.last] = l.first]]
    [] OTHER -> [l |-> l, from |-> EmptyList, next |-> next]
append_back(l, from, next) ==
  IF l.size = 0 THEN [l |-> from, from |-> EmptyList, next |-> next]
  ELSE [l |-> [l EXCEPT !.last = from.last, !.size = @ + from.size],
        from |-> EmptyList, next |-> [next EXCEPT ![l.last] = from.first]]
CheckConsistency(l, next) ==
  LET item[i \in 0 .. l.size] == CASE i = 0 -> l.first
                                   [] i # 0 /\ item[i - 1] = 0 -> 0
                                   [] OTHER -> next[item[i - 1]]
  IN IF l.size = 0 THEN l.first = 0 /\ l.last = 0
     ELSE /\ l.last # 0 /\ item[l.size - 1] = l.last /\ next[l.last] = 0
          /\ \A i \in 0 .. l.size - 2 : item[i] # l.last

\* LowLevelAllocator: [current, end, given]; mmap gives memory at a place.
LowLevelAllocate(a, size, page, place) ==
  LET rounded == ((size + 7) \div 8) * 8
      fresh == IF rounded > page THEN rounded ELSE page
      start == IF a.end - a.current < rounded THEN place ELSE a.current
      end == IF a.end - a.current < rounded THEN place + fresh ELSE a.end
  IN [current |-> start + rounded, end |-> end, given |-> start]
=============================================================================
