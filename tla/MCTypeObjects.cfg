\* Up to four types of two words beside the primitives, in ints of six bits.
SPECIFICATION TypesSpec
CONSTANTS
  IntBits = 6
  Lengths <- FewLengths
  Words = {"INT", "DOUBLE"}
  MaxTypes = 9
  MaxParams = 1
INVARIANTS
  ValuesAgree
  SizesCount
  EqualMeansSameLayout
