\* AddressSanitizer: allocator, fake stack, threads and reports, globals,
\* poisoning and string interceptors.  The constants are those of the allocator.
CONSTANTS
  Threads = {t1, t2}
  MainTid = t0
  NoThread = none
  InvalidTid = invalid
  Redzone = 2
  Granularity = 2
  PageSize = 8
  MinMmap = 16
  LocalMax = 8
  ThreadQuarantine = 4
  QuarantineSize = 8
  MaxAllowed = 8
  Bases = {32, 64}
  Sizes = {1, 4}
  Alignments = {0, 4}
  Calls = 3
SPECIFICATION PartsSpec
VIEW View
SYMMETRY Sym
INVARIANTS
  ChunksAreKept
  ShadowMatchesBlocks
  AddressesAreNamed
  RunningFramesAreKept
  GlobalsAreGuarded
PROPERTIES
  FreesAreJudged
  ReportIsPrinted
CHECK_DEADLOCK FALSE
