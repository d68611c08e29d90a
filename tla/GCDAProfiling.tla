--------------------------- MODULE GCDAProfiling ---------------------------
(***************************************************************************)
(* Emission of gcov counters at the end of a run (profile/GCDAProfiling.c):*)
(* the counters are added to those of earlier runs, in place, in a file of *)
(* 32-bit words.  Runs follow one another; a run can crash while it writes,*)
(* which leaves a prefix of its words.  A name is one word; words of       *)
(* counters have WordBits bits, and -1 is what a failing read returns.     *)
(***************************************************************************)
EXTENDS Integers, Sequences

CONSTANTS
  Builds,        \* builds of the unit: sequences of [ident, counters]
  WordBits,
  MaxCount,      \* bound on what one run counts
  MaxRuns        \* bound on runs

VARIABLES
  dirs,              \* the directories of the file exist
  file,              \* its words, << >> when it does not exist
  output_file, pos,  \* open, and at which word
  build, counters,   \* the running program and its counters, << >> when none runs
  next,              \* next function to emit, 0 while the program runs
  named,             \* its name has been emitted
  credited,          \* what complete emissions of each function add up to
  torn,              \* functions whose counters a crash or a mismatch cut
  runs

vars == <<dirs, file, output_file, pos, build, counters, next, named, credited, torn, runs>>

-----------------------------------------------------------------------------
Word == 2 ^ WordBits
Modulus == Word * Word
Functions == 1 .. 3
Header == <<101, 102, 103>>
FunctionTag == 200  ArcsTag == 210

At(i) == IF i <= Len(file) THEN file[i] ELSE -1
read_int32 == At(pos + 1)
\* The 64-bit counter at a word: all ones when the file ends before or in it.
read_int64(i) == IF i + 1 <= Len(file) THEN (file[i] + Word * file[i + 1]) % Modulus ELSE Modulus - 1
write_int64(c) == <<c % Word, c \div Word>>

Longer(m, n) == IF m > n THEN m ELSE n
\* The file after words are written over it at the current position.
Over(words) ==
  [i \in 1 .. Longer(Len(file), pos + Len(words)) |->
     IF i \in (pos + 1) .. (pos + Len(words)) THEN words[i - pos] ELSE file[i]]
Write(words) == file' = Over(words) /\ pos' = pos + Len(words)

FunctionRecord(f) == <<FunctionTag, 3 + 1 + 1, build[f].ident, 0, 0, 1, build[f].ident>>
Concat(n, Part(_)) ==
  LET all[i \in 0 .. n] == IF i = 0 THEN << >> ELSE all[i - 1] \o Part(i) IN all[n]
ArcsRecord(f, total) ==
  <<ArcsTag, 2 * build[f].counters>>
  \o Concat(build[f].counters, LAMBDA i : write_int64(total[i]))

-----------------------------------------------------------------------------
Start ==
  /\ build = << >> /\ runs < MaxRuns /\ runs' = runs + 1
  /\ build' \in Builds
  /\ counters' = [f \in 1 .. Len(build') |-> [i \in 1 .. build'[f].counters |-> 0]]
  /\ next' = 0 /\ named' = FALSE
  /\ UNCHANGED <<dirs, file, output_file, pos, credited, torn>>

\* The program counts; llvm_gcda_increment_indirect_counter does so through a
\* table, in which a predecessor may have no counter.
Counted == LET all[f \in 0 .. Len(counters)] ==
                 IF f = 0 THEN 0
                 ELSE all[f - 1] + (LET sum[i \in 0 .. Len(counters[f])] ==
                                          IF i = 0 THEN 0 ELSE sum[i - 1] + counters[f][i]
                                    IN sum[Len(counters[f])])
           IN all[Len(counters)]
increment_indirect_counter ==
  /\ build # << >> /\ next = 0 /\ Counted < MaxCount
  /\ \E f \in DOMAIN counters : \E i \in DOMAIN counters[f] :
       counters' = [counters EXCEPT ![f][i] = (@ + 1) % Modulus]
  /\ UNCHANGED <<dirs, file, output_file, pos, build, next, named, credited, torn, runs>>

\* The file is opened, else created, else created after its directories; the
\* last can fail for good, and the functions after it then return at once.
llvm_gcda_start_file ==
  /\ build # << >> /\ next = 0 /\ next' = 1
  /\ \/ /\ dirs' = TRUE
        /\ output_file' = TRUE /\ pos' = 3
        /\ file' = [i \in 1 .. Longer(Len(file), 3) |-> IF i <= 3 THEN Header[i] ELSE file[i]]
     \/ /\ ~dirs /\ UNCHANGED <<dirs, file, pos>> /\ output_file' = FALSE
  /\ UNCHANGED <<build, counters, named, credited, torn, runs>>

Emitting == build # << >> /\ next \in 1 .. Len(build)
NextFunction == next' = next + 1 /\ named' = FALSE

llvm_gcda_emit_function ==
  /\ Emitting /\ ~named /\ named' = TRUE
  /\ IF output_file THEN Write(FunctionRecord(next)) ELSE UNCHANGED <<file, pos>>
  /\ UNCHANGED <<dirs, output_file, build, counters, next, credited, torn, runs>>

Merged(f) ==
  [i \in DOMAIN counters[f] |->
     (counters[f][i] + (IF read_int32 = -1 THEN 0 ELSE read_int64(pos + 1 + 2 * i))) % Modulus]
BadMagic == read_int32 \notin {-1, ArcsTag}
BadCount(f) == read_int32 = ArcsTag /\ (At(pos + 2) = -1 \/ At(pos + 2) \div 2 # build[f].counters)

BugEmitArcs ==
  LET f == next words == ArcsRecord(f, counters[f]) IN
  /\ Emitting /\ named /\ NextFunction
  /\ IF ~output_file \/ BadMagic \/ BadCount(f) THEN UNCHANGED <<file, pos, credited, torn>>
     ELSE /\ Write(words)
          /\ credited' = [credited EXCEPT ![f] = [i \in DOMAIN counters[f] |->
               (counters[f][i] + (IF i \in DOMAIN @ THEN @[i] ELSE 0)) % Modulus]]
          /\ UNCHANGED torn
  /\ UNCHANGED <<dirs, output_file, build, counters, runs>>
llvm_gcda_emit_arcs ==
  LET f == next words == ArcsRecord(f, Merged(f)) IN
  /\ Emitting /\ named /\ NextFunction
  /\ IF ~output_file THEN UNCHANGED <<file, pos, credited, torn>>
     ELSE IF BadMagic \/ BadCount(f)
     THEN /\ pos' = IF BadMagic \/ At(pos + 2) = -1 THEN pos + 1 ELSE pos + 2
          /\ torn' = Functions
          /\ UNCHANGED <<file, credited>>
     ELSE /\ Write(words)
          /\ credited' = [credited EXCEPT ![f] = [i \in DOMAIN counters[f] |->
               (counters[f][i] + (IF i \in DOMAIN @ THEN @[i] ELSE 0)) % Modulus]]
          /\ UNCHANGED torn
  /\ UNCHANGED <<dirs, output_file, build, counters, runs>>

llvm_gcda_end_file ==
  /\ build # << >> /\ next = Len(build) + 1
  /\ IF output_file THEN file' = Over(<<0, 0>>) ELSE UNCHANGED file
  /\ output_file' = FALSE /\ build' = << >> /\ counters' = << >> /\ pos' = 0
  /\ UNCHANGED <<dirs, next, named, credited, torn, runs>>

\* A crash while a record is being written.
Crash ==
  /\ Emitting /\ output_file /\ ~BadMagic /\ ~BadCount(next)
  /\ LET words == IF named THEN ArcsRecord(next, Merged(next)) ELSE FunctionRecord(next) IN
     \E k \in 0 .. Len(words) - 1 :
       /\ file' = Over(SubSeq(words, 1, k))
       /\ torn' = IF named /\ k > 0 THEN torn \union {next} ELSE torn
  /\ output_file' = FALSE /\ build' = << >> /\ counters' = << >> /\ pos' = 0
  /\ UNCHANGED <<dirs, next, named, credited, runs>>

GCDAInit ==
  /\ dirs \in BOOLEAN /\ file = << >> /\ output_file = FALSE /\ pos = 0
  /\ build = << >> /\ counters = << >> /\ next = 0 /\ named = FALSE
  /\ credited = [f \in Functions |-> << >>] /\ torn = {} /\ runs = 0

GCDANext ==
  \/ Start \/ increment_indirect_counter \/ llvm_gcda_start_file \/ llvm_gcda_emit_function
  \/ llvm_gcda_emit_arcs \/ llvm_gcda_end_file \/ Crash

-----------------------------------------------------------------------------
\* Where the counters of function f start, given that the builds agree on the
\* functions they share.
Longest == CHOOSE b \in Builds : \A c \in Builds : Len(c) <= Len(b)
FirstCounter(f) ==
  LET all[g \in 1 .. f] ==
        IF g = 1 THEN 3 + 7 + 2 ELSE all[g - 1] + 2 * Longest[g - 1].counters + 7 + 2
  IN all[f]

\* Between runs, the counters of a function in the file are the sums over the
\* runs that emitted it, whatever builds ran and wherever other runs crashed.
CountersAreSums ==
  build = << >> =>
    \A f \in Functions \ torn :
      credited[f] # << >> =>
        \A i \in DOMAIN credited[f] :
          /\ FirstCounter(f) + 2 * i <= Len(file)
          /\ read_int64(FirstCounter(f) + 2 * i - 1) = credited[f][i]

-----------------------------------------------------------------------------
\* mangle_filename; a path is a sequence of names and "/".  GCOV_PREFIX, when
\* set, is not empty.
mangle_filename(orig, prefix, strip) ==
  LET slashes == {i \in 2 .. Len(orig) : orig[i] = "/"}
      Before(i) == {j \in slashes : j <= i}
      CountOf(S) == LET n[i \in 0 .. Len(orig)] ==
                          IF i = 0 THEN 0 ELSE n[i - 1] + (IF i \in S THEN 1 ELSE 0)
                    IN n[Len(orig)]
      levels == IF strip < CountOf(slashes) THEN strip ELSE CountOf(slashes)
      fname == IF levels <= 0 THEN 1 ELSE CHOOSE i \in slashes : CountOf(Before(i)) = levels
  IN IF prefix = << >> THEN orig
     ELSE prefix \o (IF prefix[Len(prefix)] = "/" THEN << >> ELSE <<"/">>)
                 \o SubSeq(orig, fname, Len(orig))

\* What recursive_mkdir makes for a name.
recursive_mkdir(name) == {SubSeq(name, 1, i - 1) : i \in {j \in 2 .. Len(name) : name[j] = "/"}}
=============================================================================
