\* sanitizer_common: allocators, symbolizer, library, output.
SPECIFICATION PartsSpec
CONSTANTS
  Thread = {t1, t2}
  Sizes = {1, 3}
  RegionSize = 2
  AddressTop = 9
  Adjacent = FALSE
INVARIANTS
  ChunksAreConserved
  BlocksAreSound
  LibraryIsRight
  DescriptorsAreDisjoint
PROPERTY CallsAreAnswered
CHECK_DEADLOCK FALSE
