SPECIFICATION Spec
CONSTANTS
  MaxLength <- MCMaxLength
  BlockSize = 4
  LongRange = 4096
INVARIANTS
  HexValue
  HeaderSplit
  UrlParts
  FilesComeBack
CHECK_DEADLOCK FALSE
