----------------------------- MODULE MCTsanRace -----------------------------
(***************************************************************************)
(* Three small instances of TsanRace that share its variables; "part" says *)
(* which one a behaviour is of.                                            *)
(*   locks   two slots of a cell, a mutex of every kind of use             *)
(*   serial  operations one after another, on overlapping ranges and a     *)
(*           mutex that is application memory                              *)
(*   reuse   a slot of a dead thread is taken again at once, with acquire, *)
(*           release and release-store on an atomic                        *)
(* The .cfg gives the constants of the first.                              *)
(***************************************************************************)
EXTENDS TsanRace

VARIABLE part

OneRange == {[addr0 |-> 0, size |-> 8]}
TwoRanges == {[addr0 |-> 0, size |-> 1], [addr0 |-> 0, size |-> 2]}

Serially == INSTANCE TsanRace WITH
  Quarantine <- 9, ShadowCnt <- 4, Ranges <- TwoRanges, AppMem <- Mutex, Serial <- TRUE,
  MaxEpoch <- 4, MaxThreads <- 1, MaxAccesses <- 20

Reusing == INSTANCE TsanRace WITH
  Quarantine <- 0, Mutex <- {}, Atomic <- {3}, MaxEpoch <- 4, MaxThreads <- 2, MaxAccesses <- 3

PartsInit ==
  \/ part = "locks" /\ Init
  \/ part = "serial" /\ Serially!Init
  \/ part = "reuse" /\ Reusing!Init

PartsNext ==
  /\ UNCHANGED part
  /\ \/ part = "locks" /\ Next
     \/ part = "serial" /\ Serially!Next
     \/ part = "reuse" /\ Reusing!Next

PartsSpec == PartsInit /\ [][PartsNext]_<<part, vars>>

\* The instance that the constants of the .cfg give, alone.
GivenSpec == part = "given" /\ Init /\ [][Next /\ UNCHANGED part]_<<part, vars>>

\* A write that races with an earlier access is reported; an access skipped for
\* an older one of its synch epoch has published nothing since that one
\* (tsan_update_shadow_word_inl.h:21); and a report names the thread that made the
\* access, also if its slot has another one by then (tsan_rtl_report.cc:438).
RacesAreReported ==
  /\ part = "serial" => Serially!RaceReported
  /\ part = "locks" => PublishedBeforeSynch /\ ReportNamesItsThread
  /\ NamesAreRight
=============================================================================
