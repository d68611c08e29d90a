-------------------------- MODULE AsanInterceptors --------------------------
(***************************************************************************)
(* What the wrappers of the C string functions check before they call the  *)
(* function, lib/asan/asan_interceptors.cc.  A string is the sequence of   *)
(* its characters with a 0 somewhere in it; a check is the set of offsets  *)
(* that ASAN_READ_RANGE or ASAN_WRITE_RANGE covers, of which the code      *)
(* looks at the first and the last.  The functions themselves are external *)
(* and stand here as the offsets the C library reads and writes.           *)
(***************************************************************************)
EXTENDS Integers, Sequences, FiniteSets, FiniteSetsExt

Bytes(n) == 0 .. n - 1
From(first, n) == first .. first + n - 1
Lesser(x, y) == IF x < y THEN x ELSE y

RangesOverlap(offset1, length1, offset2, length2) ==
  ~(offset1 + length1 <= offset2 \/ offset2 + length2 <= offset1)

strlen(s) == Min({i \in DOMAIN s : s[i] = 0}) - 1
strnlen(s, n) == Lesser(n, strlen(s))

\* The loop of the comparisons: the first index where it stops, or n.
Stops(s1, s2, n, zero) ==
  LET at == {i \in 0 .. Lesser(n, Lesser(Len(s1), Len(s2))) - 1 :
               s1[i + 1] # s2[i + 1] \/ (zero /\ s1[i + 1] = 0)}
  IN IF at = {} THEN n ELSE Min(at)

ToLower(c) == IF c \in 65 .. 90 THEN c + 32 ELSE c
Lower(s) == [i \in DOMAIN s |-> ToLower(s[i])]

CheckedByMemcmp(s1, s2, n) == Bytes(Lesser(Stops(s1, s2, n, FALSE) + 1, n))
CheckedByStrcmp(s1, s2) == Bytes(Stops(s1, s2, Len(s1) + Len(s2), TRUE) + 1)
CheckedByStrcasecmp(s1, s2) == CheckedByStrcmp(Lower(s1), Lower(s2))
CheckedByStrncmp(s1, s2, n) == Bytes(Lesser(Stops(s1, s2, n, TRUE) + 1, n))
CheckedByStrncasecmp(s1, s2, n) == CheckedByStrncmp(Lower(s1), Lower(s2), n)

CheckedByStrlen(s) == Bytes(strlen(s) + 1)
CheckedByStrnlen(s, n) == Bytes(Lesser(strnlen(s, n) + 1, n))
CheckedByStrchr(s, c) ==
  LET at == {i \in 1 .. strlen(s) + 1 : s[i] = c}
  IN Bytes(IF at = {} THEN strlen(s) + 1 ELSE Min(at))

\* The copies: [read, to, write, overlap]: what is read of "from" and of "to",
\* what is written of "to", and whether the wrapper reports that they overlap.
\* "to" starts at 0 and "from" at distance d.
CheckedByMemcpy(n, d) ==
  [read |-> Bytes(n), to |-> {}, write |-> Bytes(n), overlap |-> d # 0 /\ RangesOverlap(0, n, d, n)]
CheckedByStrcpy(from, d) ==
  LET n == strlen(from) + 1
  IN [read |-> Bytes(n), to |-> {}, write |-> Bytes(n), overlap |-> RangesOverlap(0, n, d, n)]
CheckedByStrncpy(from, n, d) ==
  LET size == Lesser(n, strnlen(from, n) + 1)
  IN [read |-> Bytes(size), to |-> {}, write |-> Bytes(n), overlap |-> RangesOverlap(0, size, d, size)]
CheckedByStrcat(to, from, d) ==
  LET n == strlen(from)
      m == strlen(to)
  IN [read |-> Bytes(n + 1), to |-> Bytes(m), write |-> From(m, n + 1),
      overlap |-> n > 0 /\ RangesOverlap(0, n + m + 1, d, n + 1)]
CheckedByStrncat(to, from, size, d) ==
  LET n == strnlen(from, size)
      m == strlen(to)
      copy == Lesser(size, n + 1)
  IN [read |-> Bytes(copy), to |-> Bytes(m), write |-> From(m, n + 1),
      overlap |-> n > 0 /\ RangesOverlap(0, m + copy + 1, d, copy)]

\* strtol and its relatives in base 10: the library stops after the last digit
\* and leaves endptr at the start when there is none; FixRealStrtolEndptr then
\* skips blanks and a sign itself.
Blank == 32
Signs == {43, 45}
Digits == 48 .. 57
Skip(s, i, class) == Min({j \in i .. Len(s) : s[j] \notin class})
Sign(s) == LET i == Skip(s, 1, {Blank}) IN IF s[i] \in Signs THEN i + 1 ELSE i
RealEndptr(s) == IF Skip(s, Sign(s), Digits) = Sign(s) THEN 1 ELSE Skip(s, Sign(s), Digits)
FixRealStrtolEndptr(s) == IF RealEndptr(s) = 1 THEN Sign(s) ELSE RealEndptr(s)
CheckedByStrtol(s) == Bytes((FixRealStrtolEndptr(s) - 1) + 1)
=============================================================================
