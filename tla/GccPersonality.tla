--------------------------- MODULE GccPersonality ---------------------------
(***************************************************************************)
(* The personality routine of C frames (lib/gcc_personality_v0.c): it      *)
(* parses the language-specific data of a function and looks for the       *)
(* landing pad of the call that is being unwound.  Memory is a function    *)
(* from addresses to bytes; a pointer has PointerBytes bytes.              *)
(***************************************************************************)
EXTENDS Integers, Sequences

PointerBytes == 3
Address(n) == n % 256 ^ PointerBytes
Omit == 255

\* The little-endian number of n bytes at p.
Bytes(mem, p, n) ==
  LET sum[i \in 0 .. n] ==
        IF i = 0 THEN 0
        ELSE sum[i - 1] + (IF i <= PointerBytes THEN mem[p + i - 1] * 256 ^ (i - 1) ELSE 0)
  IN sum[n]
SignExtended(x, bits) == IF x >= 2 ^ (bits - 1) THEN Address(x - 2 ^ bits) ELSE x

\* Seven bits a byte, least first; [value, end].
BugULEB128(mem, p) ==
  LET last == CHOOSE q \in p .. p + 3 : mem[q] < 128 /\ \A r \in p .. q - 1 : mem[r] >= 128
      sum[q \in p .. last] == (mem[q] % 128) + (IF q = p THEN 0 ELSE sum[q - 1])
  IN [value |-> Address(sum[last]), end |-> last + 1]
readULEB128(mem, p) ==
  LET last == CHOOSE q \in p .. p + 3 : mem[q] < 128 /\ \A r \in p .. q - 1 : mem[r] >= 128
      sum[q \in p .. last] == (mem[q] % 128) * 128 ^ (q - p) + (IF q = p THEN 0 ELSE sum[q - 1])
  IN [value |-> Address(sum[last]), end |-> last + 1]

\* The format is in the low four bits, what it is relative to in the next three,
\* and whether it is the address of the pointer in the top one.
Abort == [value |-> -1, end |-> -1]
Fixed == [f \in {0, 2, 3, 4, 10, 11, 12} |->
            CASE f = 0 -> PointerBytes [] f \in {2, 10} -> 2 [] f \in {3, 11} -> 4 [] OTHER -> 8]
readEncodedPointer(mem, p, encoding) ==
  LET format == encoding % 16
      relative == (encoding \div 16) % 8
      read == IF format = 1 THEN readULEB128(mem, p)
              ELSE [value |-> IF format = 10 THEN SignExtended(Bytes(mem, p, 2), 16)
                              ELSE Bytes(mem, p, Fixed[format]),
                    end |-> p + Fixed[format]]
      placed == Address(read.value + (IF relative = 1 THEN p ELSE 0))
  IN IF encoding = Omit THEN [value |-> 0, end |-> p]
     ELSE IF format \notin DOMAIN Fixed \cup {1} \/ relative \notin {0, 1} THEN Abort
     ELSE [value |-> IF encoding >= 128 THEN Bytes(mem, placed, PointerBytes) ELSE placed,
           end |-> read.end]

\* The header: landing-pad start and type table are read over.
SkipPadStart(mem, p) == IF mem[p] = Omit THEN p + 1 ELSE readEncodedPointer(mem, p + 1, mem[p]).end
SkipTypeTable(mem, p) == IF mem[p] = Omit THEN p + 1 ELSE readULEB128(mem, p + 1).end
CallSitesAt(mem, p) ==
  LET length == readULEB128(mem, p + 1)
  IN [encoding |-> mem[p], first |-> length.end, end |-> length.end + length.value]
CallSites(mem, lsda) == CallSitesAt(mem, SkipTypeTable(mem, SkipPadStart(mem, lsda)))

Site(mem, p, encoding) ==
  LET start == readEncodedPointer(mem, p, encoding)
      length == readEncodedPointer(mem, start.end, encoding)
      pad == readEncodedPointer(mem, length.end, encoding)
  IN [start |-> start.value, length |-> length.value, pad |-> pad.value,
      end |-> readULEB128(mem, pad.end).end]

\* The first pad of a site that covers the offset, or 0.
LandingPad(mem, table, offset) ==
  LET walk[p \in table.first .. table.end + 8] ==
        LET site == Site(mem, p, table.encoding) IN
        IF p >= table.end THEN 0
        ELSE IF site.pad # 0 /\ site.start <= offset /\ offset < Address(site.start + site.length)
        THEN site.pad ELSE walk[site.end]
  IN walk[table.first]

\* The routine: in the search phase and without data there is nothing to do.
\* lsda is 0 or an address; ip is the address after the call.
Resume(pad, ip, funcStart) ==
  IF pad = 0 THEN [reason |-> "continue", ip |-> ip]
  ELSE [reason |-> "install", ip |-> Address(funcStart + pad)]
gcc_personality_v0(search, mem, lsda, ip, funcStart) ==
  Resume(IF search \/ lsda = 0 THEN 0
         ELSE LandingPad(mem, CallSites(mem, lsda), Address(ip - 1 - funcStart)), ip, funcStart)
=============================================================================
