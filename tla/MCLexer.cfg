\* The scanner on every text of up to 5 (numbers), 6 (comments) and 3 (the
\* rest) characters; the buffer holds 4 and its terminator, an int 7 bits.
SPECIFICATION FairLexSpec
CONSTANTS
  NoName = NoName
  Texts <- SmallTexts
  kw_map <- IfOnly
  BufSize = 5
  IntBits = 7
INVARIANTS
  LexTypeOK
  MaximalMunch
  RefusalsJustified
  ValueExact
PROPERTIES
  Tiling
  SpansInOrder
  Scans
  ScansLinear
  ImplementsTokenSource
