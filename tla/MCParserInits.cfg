\* The rejected sample 19, as it is.
SPECIFICATION Spec
CONSTANTS
  NoName = NoName
  JunkName = JunkName
  Unbound = Unbound
  Names <- SampleNames
  SymbolTypes <- TypeSet
  Prefix <- SampleTokens
  Alphabet <- NoAlphabet
  FreeTokens = 0
  LexErrors = {FALSE}
  Garbage = {"null"}
PROPERTY InitializerIsLiteral
