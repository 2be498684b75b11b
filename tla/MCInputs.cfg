SPECIFICATION Spec
CONSTANTS
  MaxDepth = 1
  HexDigits = 2
  MaxInt = 127
  Longest <- MCLongest
INVARIANTS CodecExact TranslationFaithful StartKeepsIntent SpawnCarriesOptions ReportIsTrue ListedIsRoutable
CHECK_DEADLOCK FALSE
