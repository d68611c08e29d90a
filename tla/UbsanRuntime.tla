---------------------------- MODULE UbsanRuntime ----------------------------
(***************************************************************************)
(* The undefined-behaviour sanitizer's run time (lib/ubsan): the check of  *)
(* an object's dynamic type behind two caches that threads use without a   *)
(* lock, the decoding of operands and the diagnostic a handler emits.      *)
(* Instrumented code looks into the first cache and calls the handler only *)
(* on a miss; every handler but that of a miss ends the program.           *)
(***************************************************************************)
EXTENDS Integers, Sequences, FiniteSets

CONSTANTS
  Threads,
  Class,          \* class -> sequence of bases [type, offset, virtual]
  Simple,         \* classes whose one base is public, not virtual, at offset 0
  Vtable,         \* vtable -> [type, offset] (VtablePrefix)
  Hash,           \* <<vtable, type>> -> hash, one to one and never 0
  HashMask,       \* 65535
  Tries,          \* 5
  VptrTypeCacheSize,
  MaxChecks       \* bound on the checks of a thread

VARIABLES
  hash_set,       \* __ubsan_vptr_hash_set
  type_cache,     \* __ubsan_vptr_type_cache
  check,          \* thread -> check under way
  checks,
  wild            \* a bucket out of the table was used

vars == <<hash_set, type_cache, check, checks, wild>>

-----------------------------------------------------------------------------
(* Dynamic types.                                                          *)

HashTableSize == HashMask + 2
\* The probes of a hash, and the bucket it gets.
Probe(v) ==
  LET probe[i \in 1 .. Tries] ==
        IF i = 1 THEN v % (HashMask + 1)
        ELSE (probe[i - 1] + ((v \div (HashMask + 1)) % (HashMask + 1)) + 1) % HashTableSize
  IN probe
getTypeCacheHashTableBucket(v) ==
  LET usable == {i \in 1 .. Tries : hash_set[Probe(v)[i]] \in {0, v}}
  IN IF usable = {} THEN v ELSE Probe(v)[CHOOSE i \in usable : \A j \in usable : i <= j]

BugIsDerivedFromAtOffset(derived, base, offset) ==
  \E i \in DOMAIN Class[derived] : Class[derived][i].type = base \/ derived = base
\* Whether derived has a subobject of type base at an offset; a virtual base
\* counts as one of every type at every offset.
isDerivedFromAtOffset(derived, base, offset) ==
  LET Depth == Cardinality(DOMAIN Class)
      is[n \in 0 .. Depth, c \in DOMAIN Class, o \in -8 .. 8] ==
        CASE c = base -> o = 0
          [] c # base /\ n = 0 -> FALSE
          [] c # base /\ n > 0 /\ c \in Simple -> is[n - 1, Class[c][1].type, o]
          [] OTHER -> \E i \in DOMAIN Class[c] :
                        \/ Class[c][i].virtual
                        \/ /\ o - Class[c][i].offset \in -8 .. 8
                           /\ is[n - 1, Class[c][i].type, o - Class[c][i].offset]
  IN is[Depth, derived, offset]

Idle == [at |-> "idle"]
Cached(v) == type_cache[v % VptrTypeCacheSize] = v
InTable(b) == b \in 0 .. HashTableSize - 1

\* The compiler's check of the first cache, and the call on a miss.
CheckVptr(t) ==
  /\ check[t].at = "idle" /\ checks[t] < MaxChecks
  /\ checks' = [checks EXCEPT ![t] = @ + 1]
  /\ \E p \in DOMAIN Hash :
       check' = [check EXCEPT ![t] = [at |-> IF Cached(Hash[p]) THEN "pass" ELSE "probe", pair |-> p, bucket |-> 0]]
  /\ UNCHANGED <<hash_set, type_cache, wild>>

\* The bucket is found; what a bucket out of the table holds is not defined.
FindBucket(t) ==
  LET v == Hash[check[t].pair] b == getTypeCacheHashTableBucket(v) IN
  /\ check[t].at = "probe"
  /\ wild' = (wild \/ ~InTable(b))
  /\ check' = [check EXCEPT ![t].at = "read", ![t].bucket = b]
  /\ UNCHANGED <<hash_set, type_cache, checks>>

SetCache(t) == type_cache' = [type_cache EXCEPT ![Hash[check[t].pair] % VptrTypeCacheSize] = Hash[check[t].pair]]
Go(t, at) == check' = [check EXCEPT ![t].at = at]
checkDynamicType(t) ==
  LET v == Hash[check[t].pair]
      vtable == Vtable[check[t].pair[1]]
      b == check[t].bucket
  IN
  /\ check[t].at = "read"
  /\ \E hit \in IF InTable(b) THEN {hash_set[b] = v} ELSE BOOLEAN :
     IF hit THEN SetCache(t) /\ Go(t, "pass")
     ELSE /\ UNCHANGED type_cache
          /\ IF vtable.offset <= 0 /\ vtable.type \in DOMAIN Class
                /\ isDerivedFromAtOffset(vtable.type, check[t].pair[2], -vtable.offset)
             THEN Go(t, "cache") ELSE Go(t, "report")
  /\ UNCHANGED <<hash_set, checks, wild>>

\* The two caches are written one after the other.
FillCache(t) ==
  /\ check[t].at = "cache" /\ SetCache(t) /\ Go(t, "bucket")
  /\ UNCHANGED <<hash_set, checks, wild>>
FillBucket(t) ==
  /\ check[t].at = "bucket" /\ Go(t, "pass")
  /\ hash_set' = IF InTable(check[t].bucket)
                 THEN [hash_set EXCEPT ![check[t].bucket] = Hash[check[t].pair]] ELSE hash_set
  /\ UNCHANGED <<type_cache, checks, wild>>
Pass(t) ==
  /\ check[t].at = "pass" /\ check' = [check EXCEPT ![t] = Idle]
  /\ UNCHANGED <<hash_set, type_cache, checks, wild>>

UbsanInit ==
  /\ hash_set = [b \in 0 .. HashTableSize - 1 |-> IF b = 0 THEN 1 ELSE 0]
  /\ type_cache = [b \in 0 .. VptrTypeCacheSize - 1 |-> IF b = 0 THEN 1 ELSE 0]
  /\ check = [t \in Threads |-> Idle] /\ checks = [t \in Threads |-> 0] /\ wild = FALSE

UbsanNext ==
  \E t \in Threads : \/ CheckVptr(t) \/ FindBucket(t) \/ checkDynamicType(t)
                     \/ FillCache(t) \/ FillBucket(t) \/ Pass(t)

\* The subobjects of an object, and whether a virtual base is among them.
Subobjects(class) ==
  LET sub[n \in 0 .. Cardinality(DOMAIN Class)] ==
        IF n = 0 THEN {<<class, 0>>}
        ELSE sub[n - 1] \cup UNION {{<<Class[s[1]][i].type, s[2] + Class[s[1]][i].offset>> :
                                       i \in DOMAIN Class[s[1]]} : s \in sub[n - 1]}
  IN sub[Cardinality(DOMAIN Class)]
HasVirtualBase(class) ==
  \E s \in Subobjects(class) : \E i \in DOMAIN Class[s[1]] : Class[s[1]][i].virtual
IsA(pair) ==
  LET v == Vtable[pair[1]] IN v.offset <= 0 /\ v.type \in DOMAIN Class /\ <<pair[2], -v.offset>> \in Subobjects(v.type)

\* A check passes when the object has the type, and otherwise only when a
\* virtual base keeps the run time from telling, whichever cache answers, as
\* long as every bucket is in the table.
TypesAreChecked ==
  ~wild => \A t \in Threads :
    /\ check[t].at = "pass" =>
         \/ IsA(check[t].pair)
         \/ Vtable[check[t].pair[1]].type \in DOMAIN Class /\ HasVirtualBase(Vtable[check[t].pair[1]].type)
    /\ check[t].at = "report" => ~IsA(check[t].pair)

-----------------------------------------------------------------------------
(* Values: a type is [signed, bits]; what fits a handle is zero-extended   *)
(* into it, the rest is in memory.  HandleBits and IntMaxBits scale        *)
(* the 64 and 128 bits of the code.                                        *)

HandleBits == 4
IntMaxBits == 8
AsSigned(x, bits) == IF x >= 2 ^ (bits - 1) THEN x - 2 ^ bits ELSE x
isInlineInt(v) == v.type.bits <= HandleBits

\* The sign comes from the type's own width: << ExtraBits >> ExtraBits.
getSIntValue(v) ==
  LET extra == 2 ^ (IntMaxBits - v.type.bits)
  IN IF isInlineInt(v) THEN AsSigned((v.val * extra) % 2 ^ IntMaxBits, IntMaxBits) \div extra
     ELSE AsSigned(v.memory, v.type.bits)
getUIntValue(v) == IF isInlineInt(v) THEN v.val ELSE v.memory
isMinusOne(v) == v.type.signed /\ getSIntValue(v) = -1
isNegative(v) == v.type.signed /\ getSIntValue(v) < 0
getPositiveIntValue(v) == IF v.type.signed THEN getSIntValue(v) ELSE getUIntValue(v)

(* Diagnostics: the message, the placeholders in it, and the arguments.    *)
Diag(message, places, args) == [message |-> message, places |-> places, args |-> args]
MaxArgs == 5

HandleSignedOverflow(lhs, operator, rhs) ==
  Diag("overflow", {0, 1, 2, 3}, <<lhs, operator, rhs, "type">>)
handle_negate_overflow(old) == Diag("negation", {0, 1}, <<old, "type">>)

handle_type_mismatch(pointer, alignment) ==
  IF pointer = 0 THEN Diag("null", {0, 1}, <<"kind", "type">>)
  ELSE IF alignment # 0 /\ pointer % alignment # 0
  THEN Diag("misaligned", {0, 1, 2, 3}, <<"kind", pointer, alignment, "type">>)
  ELSE Diag("space", {0, 1, 2}, <<"kind", pointer, "type">>)

handle_divrem_overflow(lhs, rhs) ==
  IF isMinusOne(rhs) THEN Diag("by -1", {0, 1}, <<lhs, "type">>) ELSE Diag("by zero", {}, << >>)

handle_shift_out_of_bounds(lhs, rhs) ==
  IF isNegative(rhs) THEN Diag("exponent negative", {0}, <<rhs>>)
  ELSE IF getPositiveIntValue(rhs) >= lhs.type.bits
  THEN Diag("exponent too large", {0, 1, 2}, <<rhs, lhs.type.bits, "type">>)
  ELSE IF isNegative(lhs) THEN Diag("negative", {0}, <<lhs>>)
  ELSE Diag("not representable", {0, 1, 2}, <<lhs, rhs, "type">>)

handle_float_cast_overflow(from) == Diag("cast", {0, 2}, <<from, "from", "to">>)
handle_vla_bound_not_positive(bound) == Diag("bound", {0}, <<bound>>)

\* What operator<< adds for a value: its kind and the number printed.
Shown(v) == IF v.type.signed THEN <<"sint", getSIntValue(v)>> ELSE <<"uint", getUIntValue(v)>>
=============================================================================
