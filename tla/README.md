# TLA+ models of compiler-rt (Patmos tree)

compiler-rt is a set of run-time libraries: the builtins a compiler calls for
operations its target lacks, the library behind C11 atomics, the Blocks and gcov
run-times, and the run-times of the sanitizers. Much of its hard code is
lock-free, or runs under or beside the locks of the program it is linked into;
the rest is arithmetic and decoding whose mistakes sit at edges. The modules
here model that code, TLC checks them on small instances, and TLAPS proves
for every instance what matters most of the tsan mutex, the happens-before core,
tsan's table of SyncVars, the stack depot, its region allocator and the library
behind C11 atomics (section 5). Paths are relative to the repository's root; `src/` is left out.

## 1. Inventory

| Part | State | Operations | Hard part | Module |
|---|---|---|---|---|
| tsan `Mutex` | one word | Lock, Unlock, ReadLock, ReadUnlock | readers count themselves before they wait | `TsanMutex` |
| run-time's own locks | mutexes held, a thread's state | every handler; the debug check of the order | nesting on all paths; a trace read while its thread ends | `TsanLocks` |
| tsan happens-before core | shadow cells, thread clocks and epochs, thread contexts, dead list | MemoryAccess, mutex and thread handlers, Acquire, Release, ReportRace | unlocked scans of a cell, accesses skipped within a synch epoch, slots reused | `TsanRace` |
| tsan `SyncTab` | lists of SyncVars, each with a mutex | GetAndLock, GetAndRemove, sweep of a freed block | lock hand-over, removal while in use, memory used again | `TsanSync` |
| tsan traces | ring of events, part headers | TraceAddEvent, TraceSwitch, RestoreStack | a stack replayed from a ring that is overwritten | `TsanTrace` |
| tsan reports | racy stacks and addresses, fired suppressions, expectations | ReportRace's filters, IsSuppressed, annotations | filters that remember earlier reports | `TsanReports` |
| tsan atomics | value, SyncVar clock | load, store, exchange, fetch, compare-exchange | clock and value updated apart | `TsanAtomics` |
| tsan wrappers | objects of libpthread, their SyncVars | about forty functions | release before, acquire after, on every way out | `TsanInterceptors` |
| tsan signals | pending signals, flags of the thread | handler, sigaction, raise, delivery | interruption anywhere | `TsanSignals` |
| asan allocator | page groups, chunks, free lists, quarantines, shadow | malloc, free, realloc, lookup | steps outside the lock, double free, memory in exactly one place | `AsanAllocator` |
| asan fake stack | frames per size class, call stack | stack_malloc, stack_free | functions that leave without saying so | `AsanFakeStack` |
| asan threads, reports | registry, summaries, one-report ticket | create, start, destroy, report | names outlive threads; two reporters | `AsanThreads` |
| asan shadow, globals | shadow bytes, lists of globals | poison, register, init order | partial granules; order of calls | `AsanShadow`, `AsanGlobals` |
| asan string wrappers | none | checks and overlaps | which bytes the function touches | `AsanInterceptors` |
| stack depot | bucket heads with a lock bit, id counters, nodes | Put, Get | search with and without lock, publication by one store, id limit | `StackDepot` |
| depot's region allocator | `region_pos`, `region_end`, `mtx` | `tryallocDesc`, `allocDesc` | two words read apart, a CAS, replacement | `DepotRegion` |
| sanitizer allocators | regions, free lists, caches, list of large blocks | Allocate, Deallocate, Drain, queries | bulk moves between lists; a list linked outside the map | `SizeClassAllocator` |
| sanitizer_common library | none (list, arena) | strings, printf, flags, stack compression | buffers that end in the middle | `SanitizerLibrary` |
| symbolizer | child process, pipes, buffer | SymbolizeCode, Restart | a child that dies between two steps | `ExternalSymbolizer` |
| `BlocksRuntime` | counts, forwarding pointers | copy, release, assign, dispose | latching counts, shared variables | `BlocksRuntime` |
| gcov run-time | open file, counters on disk | start, emit, end | merge in place, torn files, other builds | `GCDAProfiling` |
| ubsan | two caches | type check, operand decoding | caches without a lock | `UbsanRuntime` |
| personality | none | LSDA walk | variable-width encodings | `GccPersonality` |
| `lib/atomic.c` | hashed spinlocks, objects | load, store, exchange, compare-exchange, fetch | objects share locks, copies by byte | `AtomicLib` |
| integer builtins | none | shift, divide, multiply, count, overflow | zero, full-width shifts, top bits | `IntBuiltins` |
| float builtins | none | add, multiply, divide, compare, convert, complex | one rounding, denormals, NaN | `SoftFloat` |
| assembly builtins | registers | i386, x86_64, arm versions | the same, by other algorithms | `AssemblyBuiltins` |

How they interact. The tsan interceptors call the mutex, thread and
acquire/release handlers around the program's own calls (`TsanInterceptors` says
which); compiled code calls `MemoryAccess` and the `__tsan_atomic` functions. A
handler finds its SyncVar in SyncTab, which hands it over locked with a tsan
`Mutex`; thread handlers and `ReportRace` run under `ctx->thread_mtx`, another
one. A race passes through `RestoreStack` and the filters of `TsanReports` before
it is printed. asan's malloc and free write the shadow the interceptors and
compiled code read, and a report reads page groups, chunks, fake frames, globals
and thread summaries. Both run-times store stacks in the depot from any thread
and symbolize through the external process. `lib/atomic.c`, BlocksRuntime, gcov,
ubsan and the builtins are linked by themselves. `PROJECT.json` lists the parts
with their files, and under "hazards" what each is exposed to and which property
would show it.

## 2. Modules

Parts of one library that share no state are composed by its MC module and
checked in one run, as alternatives of a variable `part` chosen in the initial
state, so that every part has instances and bounds of its own while a property
keeps one meaning. Operators named `Bug...` are plausible errors in the definition that
follows them; they stand for nothing in the code and are used only to show that
a property can fail.

**TsanMutex, RWLock.** The positions are between the atomic accesses of the four
functions: `LockFast` is the strong CAS (tsan_mutex.cc:204), `LockLoad` and
`LockCas` the loop (208-217), `ReadLockAdd` and `ReadLockLoad` the count and the
wait (235-246). A wait that reads the wrong value is a stuttering step. `Unlock`
and `ReadUnlock` subtract, so what waiting readers added survives. `RWLock` is
what a reader-writer lock promises.

**TsanRace.** For each thread slot the context (`tctx`) and the running thread
(`thr`: epoch, fast_synch_epoch, clock, the operation under way); for each
address a SyncVar; for each cell the shadow slots. Handlers that hold the
SyncVar's lock or `ctx->thread_mtx` throughout are one action. `MemoryAccess` has
no lock, so `ScanSlot`, `StoreSlot`, `EvictSlot` and `ReportRace` are separate
steps and scans of one cell interleave. The application's mutexes (`held`) are
external. History variables record what happened independently of the clocks:
each access, and per thread the accesses that happen before its next step.

**TsanSync.** A finder holds the list's mutex (`list_mtx`) until it has the
SyncVar's (`var_mtx`); one that inserts looks again under the write lock; one that
removes or sweeps unlinks and then waits. `var_addr` is 0 for memory that is free,
which `Insert` may take again while there is some: the memory is of a fixed size here.

**TsanTrace.** One thread's events with their epochs, the ring `trace` and the
stack it should restore (`stack_truth`, a history variable).

**TsanReports.** The lists of the context and, as history, what was printed,
seen and dropped. `ReportRace` is one action, since it runs under
`Context::report_mtx`.

**TsanAtomics.** An operation is a release step, the hardware's and an acquire
step, in the order of `tsan_interface_atomic.cc`. `carried` is what C++11's
release sequences say the value carries.

**TsanInterceptors.** A wrapper is a sequence of named steps (`call[t]`), the
real function's and the handlers'; the records `Locking`, `Waiting`,
`Posting` and so on give the sequence of each function. `truth` and `carried` follow the real functions.

**TsanSignals.** `running` is the stack of what a thread is in the middle of: the
program, a wrapper, delivery, handlers.

**TsanLocks.** A handler is the sequence (`path`) of the run-time mutexes it takes
and gives back, with the steps that read or end a `ThreadState`; `locked` is also
what the DeadlockDetector knows. Locks for reading count as exclusive, which
only adds waiting.

**AsanAllocator.** What `MallocInfo::mu_` guards is one step; the steps of a
malloc or free outside it (header, shadow, exchange of `chunk_state`, push to
the thread's quarantine) are separate. `pc` and `regs` hold a call's position
and locals. **AsanFakeStack**, **AsanThreads** and **AsanGlobals** have one
action per interface function or step under a lock; **AsanShadow** and
**AsanInterceptors** are operators.

**StackDepot, Interning.** `PutLoad` loads the head, `PutFind` searches, `PutLock`
is the successful CAS on the lock bit, `PutRefind` the second search, made only
when the head has changed; then `PutNewId`, `PutAlloc`, `PutFill`, and
`PutPublish`, whose one store links the node and drops the lock. `Interning` is
an atomic table of what each stack's id is.

**DepotRegion.** Positions between the accesses of `tryallocDesc`, called with
and without `mtx`, and of the replacement of a region (stackdepot.cc:91-97).

**SizeClassAllocator.** A free list is the sequence of its chunks, so an order
turned around by a bulk move is visible. Small requests are single steps (one
spin lock or a private cache), large ones map and link, or unlink and unmap, in
two. The large blocks are the code's doubly linked list, its links in the mappings
themselves (`mapped`), and lookups scan it. **SanitizerLibrary** is operators over short strings of character codes.

**ExternalSymbolizer.** `Parent` is what the process does next (write, read a
piece, parse, restart); `ChildAnswers` and the child's end are the environment's.
`sigpipe` is what the program does about SIGPIPE: by default a write to a child that
has died ends it (`step = "killed"`), otherwise the write fails and the child is
started again.

**BlocksRuntime.** Each compare-and-swap of a count is an action; a call's
remaining work, such as releasing what a block captured, is the sequence `todo`.

**GCDAProfiling.** `file` is the words on disk (or none), `pos` the position of
the stream; `credited` is the sum of what each run counted, `torn` the counters a
crash or a mismatch has damaged.

**UbsanRuntime.** Two caches and the checks in progress, one action per cache
access. **GccPersonality** is operators over a memory of bytes.

**AtomicLib, AtomicObjects.** The locked path compares, reads and writes byte by
byte; fetch-op is xor, which distinguishes all orders of two operands over
one-bit bytes from a lost update. `before` is a history variable, the value of the
object when its lock was taken; `AtomicObjects`, where each call has one step of
effect, sees it until the unlock.

**IntBuiltins, SoftFloat, AssemblyBuiltins.**
Each builtin is an operator over words of `n` bits, or floats of a format
`[s, e]`, with the code's own algorithm: the shifts, masks and special cases, not
the arithmetic they compute. The Newton steps of division are made on the same words:
the code's constant keeps its first `n` bits, and double works on half words first.
Their errors are then those of small words, so the run does not show the bounds
that the comments claim for 32 and 64 bits. What C leaves undefined (a shift by the width or
more) is a parameter, `ShiftModulo`, and both outcomes are checked.

## 3. Runs

| Run | Instances | Shows |
|---|---|---|
| `tsan_mutex` | 3 threads | exclusion; the word equals what holders and waiters put there; assertions; reader preference; a waiting reader enters, and somebody does; refinement of `RWLock` |
| `race` | `locks`: the main thread and a child, 2 shadow slots, one mutex, epochs to 5, 3 accesses; `serial`: 4 slots, 2 overlapping ranges, no overlap in time; `reuse`: 2 slots of threads taken again at once, one atomic | clocks cover what is ordered before; no false report; epochs are unique over reuse; a racing write is reported, nothing is published after the synch epoch, and a report names its thread |
| `race_release` | as `serial`, with an atomic | **violated**: `RaceReported` |
| `tsan_parts` | 3 threads, 4 SyncVars, 3 addresses of which 2 share a list; rings of 2 parts of 3 events; 4 pairs of stacks and 3 ranges; one bit of atomic; 2 calls per thread of each family; 2 signals and a fault; every handler in 3 threads | a SyncVar in use is alive, one per address, nobody waits in a circle; a restored stack is the stack at its epoch; a dropped race is covered by an earlier report or a suppression; acquire and order complete; signals kept; the run-time's locks nest as the table says, nobody waits in a circle, and a trace stays while a race report reads it |
| `destroy_locked` | the same, with `report_destroy_locked` | **violated**: `FindThreadIsLocked` |
| `asan` | 2 threads, 3 calls, 2 page groups; 3 frames; 3 threads; 4 globals of 3 units; all short strings | each chunk in one place; shadow equals blocks; lookups; frees judged; frames of running functions kept; the first report printed; globals and redzones guarded; wrappers check what the function touches |
| `stack_depot` | 2 threads, 4 stacks in 3 lists of 2 parts, two with equal hashes, 2 ids per part | a holder owns its list, nodes are unique, ids name their part; published for good; refinement of `Interning`; Puts return |
| `depot_region_adjacent` | 2 threads, superblocks that touch | **violated**: `BlocksDisjoint` |
| `sanitizer` | 2 threads, 2 size classes and the real size map; the depot's regions, not adjacent; 3 large blocks in 3 slots of memory; a symbolizer with 2 restarts, 4 addresses, and SIGPIPE ignored or not; strings of up to 3 or 4 characters | chunks conserved; blocks aligned, apart and found, the list of large ones sound; descriptors disjoint; a call for a symbol returns with its own answer, or the program is killed by SIGPIPE; library functions equal their definitions |
| `libraries` | 2 threads, two 2-byte objects under one lock and a lock-free byte; 2 blocks, an object and a variable, counts that latch at 3; 3 builds, 3 runs; 4 classes; 17 encodings | calls atomic, locks given back; counts exact; counters are sums; a checked type is right; landing pads found |
| `atomic_store` | one thread, generic calls, lock-free | **violated**: `StoreTakesEffect` |
| `builtins` | words of 4 bits (dwords of 8, quads of 16), 16 bits for counting; formats of 7 to 12 bits | all results against integers and one rounding |

Why the bounds are enough.

- `tsan_mutex`: two threads conflict and a third can arrive between their steps.
- For the properties proved in section 5 the theorems do not depend on any bound.
- `race`: `MaxEpoch` bounds the operations of a thread, `MaxThreads` the threads
  created beside the first, `MaxAccesses` the accesses to a cell. In `locks` a
  thread can lock, access and unlock, or lock twice and unlock twice; two slots
  make eviction and a second store happen, `serial` has four since an eviction
  may lose a race by design, and `reuse` has a slot with two owners and an access of each.
- `tsan_parts`: fewer SyncVars than removals, so memory is used again; a ring
  that comes round once, entered at its start and in its middle; events enough
  for a report, its repetition by stack and by address, and a suppression
  between; two writers and a reader of one value; signals that interrupt
  wrappers, delivery and each other.
- `asan`: both threads' quarantines overflow into the global one and chunks come
  back; sizes with and without a partial granule; a left redzone with alignment.
  The scaled constants keep the code's relations (redzone a multiple of the
  granule, size classes powers of two).
- `stack_depot`: every path needs at most two stacks in one list and one in another part;
  with `MaxId = 3` the third id of a part fails the CHECK.
- `sanitizer`: a region that fills, a cache that overflows and drains by halves,
  a large block unlinked between two others while the other thread maps or unmaps;
  a descriptor smaller than a superblock and one larger; an answer that is exactly
  the buffer, one that does not fit, one of two frames.
- `libraries`: a value is torn or not at its second byte; `y` only competes for
  the lock. Counts reach the latch within the references the program can make.
  A run after a run of another build, and after a torn file, both happen.
- `builtins`: every algorithm works by halves, so 4 bits give two-bit halves and
  every combination of zero, full and mixed parts; the formats are the smallest
  with distinct normal, denormal, halfway and sticky cases, and for conversions
  with an exponent range wider and narrower than the integer. Dwords take every first
  operand, quads those near powers of two.

Deadlock is checked in `tsan_mutex`. The others may
stop: a CHECK or a report ends the process, memory runs out, an input has been
judged, or the bounds on calls are reached.

### Violations

- `atomic_store`: `atomic.c:162` stores `*(type*)dest` where `src` is meant.
- `depot_region_adjacent`: the CAS at `sanitizer_stackdepot.cc:72` takes an equal
  position for an unchanged region. It needs a thread that sleeps before the CAS
  while its superblock is filled and one directly below is mapped and filled.
- `race_release`: `tsan_rtl_mutex.cc:248-266` publish without beginning a synch
  epoch, against `tsan_rtl.h:243-249`; a write after a release is taken for a
  repetition of one before it, and its race is missed.
- `destroy_locked`: the report of `MutexDestroy` (`tsan_rtl_mutex.cc:54-67`) is made
  without `thread_mtx`; for a mutex in a heap block, `FindThread` checks for it and
  ends the process. For the same reason the trace it restores a stack from may be
  destroyed meanwhile, so `LocksAreOrdered` is checked with the flag
  `report_destroy_locked` off (it is on by default).

### Where the properties stop

The code departs from what one would ask in these places; the properties are
stated so that they hold, and say in a comment what they leave out.

Builtins. `patmos/wcet_oriented/udivsi3.c:41` compares by the sign of a difference
and is wrong for divisors with the top bit set. `truncdfsf2.c:133` tests `>` where
its comment ("a overflows to infinity") asks for `>=`, so 2^128 itself takes the branch
for underflow. `divsf3.c:170-192` and
`divdf3.c:187-209` give denormal quotients one unit low. `__powi*` of a large
negative exponent divides by an overflowed power. A complex quotient of a finite
by an infinite number with a NaN part may be NaN.

`lib/atomic.c`. `LOCK_FREE_CASES` (line 122) has no `case 1`: a generic call on a
byte takes the lock, a sized one does not, and together they can lose an update.

tsan. Between `ThreadCreate` and `ThreadStart` a reused context has the new
thread's id and the dead thread's epochs (`tsan_rtl_thread.cc:141`, 190), so
`tsan_rtl_report.cc:438` may name the new thread. An ordered read replaces a
write in a shadow slot (`tsan_update_shadow_word_inl.h:51`), so a later *read* that
races with the write may pass. Two releasing stores at once: the value that stays
may be one whose clock was overwritten (`tsan_interface_atomic.cc:127`). The
copy of a finished thread's trace takes the headers' stacks and not their epochs
(`tsan_rtl_thread.cc:251`), so an old epoch is not refused; a stack restored at a
lock event (`tsan_rtl_mutex.cc:64`) has the pc of the access before it; the buffer
of 1024 entries (`tsan_rtl_report.cc:274`) is not checked. `thread:` and `mutex:` suppressions are
parsed and never asked for; an empty `race:` template matches everything; one race over
two expected addresses counts for one of them. `user_free` reads `b->head` without
its lock. A signal that ends up deferred waits until the thread
leaves a wrapper, a pending one is dropped when its handler becomes
`SIG_DFL`, and SIGPIPE or SIGABRT between `tsan_interceptors.cc:1327` and 1332 fails
a CHECK. An exception out of `pthread_once` leaves it begun for ever.

asan. Until the first reporter has stored its id, a second one may find its own
id stored by nobody and end the process (`asan_report.cc:286`). An address in a
page group's header fails a CHECK in `FindChunkByAddr`, one past its last chunk is
not found. The comment that each size class of fake frames is "large enough to
hold all frames" does not hold for deep recursion with frames left behind.
`DescribeThread` with an unknown parent, or a chunk of a detached
thread, fails a CHECK. A unit that is unregistered stays in the list of dynamic
initialization and is poisoned again. `pthread_exit` without the destructor loses the thread's
free lists; a thread without thread-specific data never drains the quarantine. The `strncat` wrapper
reports an overlap one byte early, and the `memcpy` wrappers name reads writes.

sanitizer_common. `IntrusiveList::append_back` of an empty list loses `last_`
(`sanitizer_list.h:85`); a flag's name is found inside another's; `Reallocate`
frees the old block when the new allocation failed (`sanitizer_allocator64.h:530`);
`internal_memcmp` compares signed characters. The symbolizer has no timeout; an answer that
fills the buffer fails every retry. Writing to a child that has died raises SIGPIPE
(`sanitizer_symbolizer.cc:197`), about which the run-time does nothing: unless the
program ignores or handles it, the program is killed in the middle of its report, though
the comment at 240 speaks of a restart or of giving the symbolizer up. `CallsAreAnswered` asks that a
call returns or the program is killed so, and that it returns where SIGPIPE is ignored;
children that were replaced are never waited for.

gcov and ubsan. After a mismatch the stream stands in the middle of a record and
what follows is written there; a truncated counter reads as all ones; two
processes at once lose counts. Hash 0 is accepted by the second cache unchecked, and the eviction
path writes outside it (`ubsan_type_hash.cc:107`, against the comment at 105).

## 4. Fairness

`FairSpec` of `TsanMutex`, `StackDepot` and `AtomicLib` (in `libraries`, the
conjunct over `Continue`) assumes weak fairness of a thread that is inside a call:
it is scheduled again. The spin loops yield (`Backoff::Do`,
`internal_sched_yield`), nothing in a critical section blocks, and no thread is
obliged to begin a call, except that in `TsanMutex` one that holds the lock goes
on to release it. No strong fairness is assumed, since none of the locks is fair.
So starvation of a tsan writer or of one contender in `atomic.c` is possible, as
their comments say, and the properties ask only what survives: a waiting reader
enters, somebody enters, a taken lock is given back. A `Put` returns although the
bucket lock is unfair, because each stack is inserted once and only an insertion
takes the lock. For the symbolizer, weak fairness of the process's own step and
of the child's answer: a child answers or ends, and may end at any time. A child
that does neither is excluded, since `internal_read` waits for ever.

## 5. Proofs

Eight modules of proofs, each with an inductive invariant of named parts,
one lemma per action that says the action keeps it, and theorems that follow from
it. They hold for every value of the constants that satisfies the module's
assumptions: any finite set of threads, and any sizes and bounds.

| Theorem | Of every behaviour of `Spec` | Assumes |
|---|---|---|
| `TsanMutex_proofs`: `TypeCorrect`, `MutualExclusionHolds`, `CountsHold`, `AssertionsNeverFire`, `ReadersPreferred`, `Implementation` | the properties of run `tsan_mutex` but liveness | `ThreadAssumption` |
| `TsanRace_proofs`: `ClocksStaySound`, `NoAlarmIsFalse`, `EpochsStayUnique` | `ClocksAreSound`, `NoFalseAlarm`, `EpochsAreUnique` | `RaceAssumption` |
| `TsanRace_proofs`: `SynchEpochsAreSound` | `PublishedBeforeSynch` (in `RacesAreReported`) | `RaceAssumption`, `Atomic = {}` |
| `TsanRace_proofs`: `NamesStayRight` | `NamesAreRight` (in `RacesAreReported`) | `RaceAssumption` |
| `TsanLocks_proofs`: `LocksStayNested` | `TableIsAcyclic`, `NestingIsAllowed`, `NobodyWaitsInACircle` (in `LocksAreOrdered`) | none |
| `TsanLocks_proofs`: `LocksStayOrdered`, `FindThreadStaysLocked` | `LocksAreOrdered`, `FindThreadIsLocked` | `~report_destroy_locked` |
| `TsanSync_proofs`: `SyncVarsStaySound` | `SyncVarsAreSound` | `SyncAssumption` |
| `StackDepot_proofs`: `DepotStaysSound`, `ListsAreForGood`, `DepotImplementsInterning` | `DepotIsSound`, `PublishedForGood`, `ImplementsInterning` | `DepotAssumption` |
| `DepotRegion_proofs`: `DescriptorsStayDisjoint` | `DescriptorsAreDisjoint` | `RegionAssumption`, `~Adjacent` |
| `AsanAllocator_proofs`: `ChunksStayKept`, `ShadowStaysRight`, `FreesStayJudged` | `ChunksAreKept`, `ShadowMatchesBlocks`, `FreesAreJudged` | `AllocatorAssumption` |
| `AtomicLib_proofs`: `LocksAreHeldOnce` | `TypeOK`, `LocksHeldOnce` (in `HoldersAreExact`) | `AtomicAssumption` |
| `AtomicLib_proofs`: `CallsStayAtomic` | `CallsAreAtomic` | `AtomicAssumption`, `CallsAgree` |

**TsanMutex.** Mutual exclusion is not inductive: whether the CAS or the bit test
may let a thread in depends on what the word says about the others. The
invariant adds `StateCountsHolders`: the word is one for a writer plus two for
each reader inside *or waiting*. A zero word then means nobody is inside or
waiting and a clear low bit means no writer; each lemma follows how the set of
holders and its cardinality change. For `Implementation` the waiting positions
map to nothing and the rest of the mapping is the identity.

**TsanRace.** What has to be shown is that clocks, which the code updates, agree
with knowledge, which the model records from what really happened. The invariant
says so of every place where a clock is kept: a running thread's
(`ThreadsCover`), that of a created or finished thread's context, and both clocks of
every SyncVar (`SyncsCover`). That a clock entry keeps its meaning when a slot
is used again needs `AccessesArePast` and `KnowledgeIsPast`: nothing that was done
or is known lies past the epoch the slot has reached, from which the next thread
of the slot starts. `HolderHolds` and `OwnerAgrees` relate the application's
mutex to the recorded owner over the window between the real call and the
handler, and say that an owner knows all that was released to its mutex; without
this a `MutexReadOrWriteUnlock` or a recursive lock, which does not acquire, would lose an order. `ShadowIsAccessed`
and `ScansAreReal` say that shadow words and the words a scan holds stand for
accesses of its cell, although other threads store between its steps; `NoFalseAlarm`
follows, since a report compares a clock that covers everything known. The
assumption that no address is both a mutex and an atomic excludes a program that
calls `Release` on its own mutex, which would change the clock under the
owner; a program has no means to do so. The bounds (`MaxEpoch` and the
others) may be any number, so nothing rests on them. `SynchEpochsAreSound` is about the
access that is skipped because the same epoch made one before. Its invariant,
`ClocksArePublished`, bounds what any clock other than a slot's own says of the slot: by
the `fast_synch_epoch` of the running thread, or else by the last epoch of the last one.
Every handler that publishes a clock moves `fast_synch_epoch` up to it; `Release`
does not, so the theorem is for programs without atomics.
`NamesStayRight` rests on `NamesFit`: what a slot's accesses have from `epoch0` of
its last started thread on is that thread's, because a thread starts past all epochs
of its slot. A report compares with `epoch0`; only between `ThreadCreate` and
`ThreadStart` of the slot's next thread is that comparison made with the old value
and the name taken from the new thread.

**TsanLocks.** The handlers are put together from fragments that take a mutex, do
something under it, and give it back. `PathFits` says of each thread that what
is left of its handler, starting with what it holds, takes only what the table allows and ends
with nothing held; a lemma for each fragment, and one for fragments in a row, shows
it of every handler. Then nobody waits in a circle: the table lets mutexes be
taken upwards only, so along a circle of waiting threads the ranks would climb without
end (`LockedOnce` says that a mutex has one holder). `StatusFits` says that
who does not have `thread_mtx` is running exactly if its `ThreadState` is there, and
`TracesFit` that nothing is done under a trace's mutex but to give it back. `HeadIsSafe` says that a
report holds `thread_mtx` where it picks a thread, and that the thread is then alive.
That is where `report_destroy_locked` must be off; nesting and the absence of circles do
not depend on it.

**TsanSync.** `Inv` relates each mutex to the positions of the threads: a list is held
exactly by those who wait for a SyncVar under it and the one that sweeps it
(`ListsAreHeld`), a SyncVar by those who use it (`VarsAreHeld`). The difficulty is the
sweep of `user_free`, which frees the SyncVars one after another while they are
still linked: a freed one may be used again at once, for another list, so what
a list has is only what is `Live` there, linked and not yet swept. `OneVarEach`
says of those that their addresses are of the list and differ; `UsersFit` that
who waits for a SyncVar waits for a live one of its address; `DrainersFit`
that one which was unlinked is no longer in any list, so nobody new
comes to wait for it. `NoCircularWait` needs no more than who holds what: who uses
a SyncVar waits for nothing; if nobody does, every SyncVar can be locked; and if
nobody waits for one either, every list can.

**StackDepot.** `PutSearched` says what a Put knows at each position: that its
stack is in none of the nodes it has seen, and that whatever was inserted since
lies in front of them, so that the second search need not be made when the
head is unchanged. `NodesFilled`, `FreshIds` and `FreshNodes` say that a node is
complete before it is published and that no one else has its id, also at the last id
of a part. `GetInPart` follows a Get through the lists of its part. The refinement
maps the published nodes to `Interning`'s table; its step is `PutPublish`, or the
search that finds.

**DepotRegion.** `BlocksDisjoint` needs to know what a position loaded earlier
still says. `LoadedPosIsOld`: it lies in a superblock that is not one being
installed. `CasHasRoom`: if `region_pos` is in the same superblock at the CAS, the
end the thread compared with was the end of that one, and there is room.
`LockedPosGoesUp` makes the retry under the lock retire only full regions. The
theorem assumes that superblocks never touch: with `Adjacent` the run
`depot_region_adjacent` shows the property false, which is a finding.
`Adjacent = FALSE` is what `mmap` gives as long as other mappings lie between.

**AsanAllocator.** `HeapInv` (theorem `HeapIsKept`) says of every chunk who has it.
That no chunk is in two places, `ChunkHasOnePlace`, is not inductive, because half of a
malloc or a free runs outside `mu_`. So the invariant says what each position
of a call knows of its chunk (`HandIsRight`): before the header is written it is
still marked available although no list has it; between the exchange of
`chunk_state` and the push it is quarantined although no quarantine has it.
`StatesAreRight` says what a state means for a chunk in a list, `ListsAreApart`
and `HandsAreApart` that lists and calls share no chunk, `AllAreSomewhere` that
none is forgotten. `ListsAreApart` is stated per class: for a list of another class
it follows from `ListsHaveHeaders`, which also holds after a failed CHECK, as
the types do. `MarksLeadBack` is there for free(): from any aligned pointer, the mark
below it leads to the chunk around it, and marks of earlier, less aligned blocks
of the chunk do no harm. The lemmas about sequences (joined, reversed, cut in two)
serve the bulk moves of `SwallowThreadLocalMallocStorage`. `FreesAreJudged` follows from
`HeapInv` and one lemma: of the two frees of one pointer, the
exchange finds "allocated" exactly once, and then the block belongs to the
application or, in a realloc, to the thread itself.

`ShadowInv` (theorem `ShadowIsKept`) adds the shadow. What it must know is which granules belong to
which chunk, so it says that chunks, groups and blocks begin at multiples of a
granule, and that an address of a group is in the chunk of its slot, or in the header or tail
of the group, where everything is poisoned (`GranulesAreRight`). A chunk nobody uses is
closed as a whole; a block that is open shows its size and everything around it in its
chunk is closed (`BlocksAreShown`). Between unpoisoning and poisoning, what is
closed is said of the thread's hand (`HandsArePoisoned`). A step changes
the shadow of one chunk, or only granules that are closed already, and the lemmas
`SameChunk` and `OtherChunks` carry the rest over. `AllocatorAssumption`
says of the constants what the code checks or relies on: redzone and granule
are powers of two, a granule no longer than a redzone; an alignment is 0 or a power of two
(CHECK at asan_allocator.cc:598, or rounded up before); the kernel gives page-aligned
groups of no less than `kMinMmapSize`; and each request has a size
class (`SizesHaveClasses`), since larger ones return before.

**AtomicLib.** That a lock has one holder is inductive together with the shapes of
the locals at each position (`HoldersAreAlone`, `LocalsFit`): several objects may
hash to one lock, so exclusion is stated per lock and used per object.
Atomicity needs what a call has done so far. `CallsFollow` says it for each phase: the
bytes compared were those of `expected`, the bytes read are those of the object,
and of the object the bytes before the next one to write have the new value
and the others the value it had when the lock was taken. No step of another
thread disturbs this, since nobody else moves the object while the lock is held. The
refinement to `AtomicObjects` shows the object as it was when the lock was
taken until `Unlock`, which is where a locked call takes effect; a lock-free one
takes effect in its instruction, and every other step is a stutter. `CallsAgree`
excludes what "Violations" and "Where the properties stop" describe: the generic
store of a lock-free size, and calls on one object of which some take its lock
and some do not. Without the first the theorem is false by run `atomic_store`. The
assumption about `Calls` says that a caller passes values of its object's size.

Only model-checked, and why.

- Liveness (`WaitersEnter`, `PutReturns`, `SignalsAreKept`, `CallsAreAnswered`,
  `ReportIsPrinted`, `TakenLockIsReleased`): it is outside the prover's reach, with
  ENABLED.
- `RacesAreReported`. Its parts are claims about one instance each
  (`MCTsanRace`): `RaceReported` holds while every access finds a slot
  and operations do not overlap, `ReportNamesItsThread` while no slot is
  reused. Of the rest `NamesAreRight` is proved, and `PublishedBeforeSynch` if
  no `Release` is made.
- What computes on words (`IntegersAgree`, `FloatsRoundOnce`, `BlocksAreSound`): `IntBuiltins` and what extends it use the community module
  `Bitwise`, whose operators are recursive, and recursion takes the SMT backend
  away from every module that reaches it.
- What compares an algorithm with a definition over all short inputs
  (`LibraryIsRight`, `LandingPadsAreFound`, `StackIsRestored`, `ReportsAreFiltered`):
  for every input it needs induction over data.
- What the MC modules say of several modules' state at once
  (`AddressesAreNamed`, `RunningFramesAreKept`): the first also rests on the binary
  search being right after the sort, `LookupIsRight`, and the second on
  `AsanFakeStack` and the shadow together.
- `ChunksAreConserved` (`SizeClassAllocator`) adds up counts over all caches and
  regions; sums over a function's domain are folds, of which the library has no theorems.
- `OrderIsSeen`, `GlobalsAreGuarded`, `HoldersAreExact`,
  `CountersAreSums` and `ChecksAreRight` are within reach and not proved yet.

Induction over the naturals is possible without an operator parameter: the
theorems of `WellFoundedInduction` on minimal elements of a set
(`WFMin`, `NatLessThanWellFounded`) give `LeastNatural` and `AllNaturals` in
`AsanAllocator_proofs`, from which the facts on division and rounding follow.

## 6. Not modelled

Memory. Every atomic access is sequentially consistent, so what a weaker order
would permit is not seen (the relaxed accesses to shadow words and ids are of single
words). Where the code has a race on a plain word, the steps before and after
the access are separate actions; the access itself is one.

tsan. `MemoryAccessRange`, freed memory and the ignore counters;
`AcquireGlobal` (Go only), `MutexCreate`, and of the report in `MutexDestroy` all
but the locks it takes; the 43-bit limit of epochs; the interceptors that only
forward. Vectors, flags, statistics, platform files and the Go glue.

asan. Start-up, flags and statistics; unwinding; the shadow of a stack, cleared when its
thread is destroyed, and lookups of a thread by stack address; the interceptors of `setjmp`,
`longjmp` and signals; the Mac and Windows entry points.

BlocksRuntime. Garbage-collected mode and the dump functions. The copy of a
`__block` variable (runtime.c:377) is one action, although the count is tested and
the new pointer installed apart.

gcov. Two processes that write one file at once.

Builtins. The branches compiled for a hardware FPU, `popcountti2`, the arm vfp
files (one instruction each), the aeabi memory functions and Thumb switch tables,
PowerPC double-double arithmetic, trampolines and `clear_cache`, the
inline-assembly `udivmodsi4` of Patmos. `lib/atomic.c`: the locks for FreeBSD and Mac.

Others. `interception` and the third-party `mach_override`, `llvm-symbolizer`,
platform files of `sanitizer_common`, the wording and layout of reports. Of a stack,
all but its identity and hash.

## 7. Plan

Theorems: the clocks of atomics and wrappers (`OrderIsSeen`); the search of `AsanAllocator`'s page groups; the sums of `SizeClassAllocator`.

Modules: range accesses and freed memory in `TsanRace`; the copy of a
`__block` variable in two steps.

## 8. Running

Inside `tla/`, for each run of `PROJECT.json` and for the proofs:

    tlc -workers 2 -config TsanMutex.cfg TsanMutex
    tlapm TsanMutex_proofs.tla
