\* An operator without an operand: int f ( int a [ 2 ] ) { and up to 4 tokens.
SPECIFICATION Spec
CONSTANTS
  NoName = NoName
  JunkName = JunkName
  Unbound = Unbound
  Names <- ExprNames
  SymbolTypes <- TypeSet
  Prefix <- ExprPrefix
  Alphabet <- ExprAlphabet
  FreeTokens = 4
  LexErrors = {FALSE}
  Garbage = {"null"}
INVARIANT ContinuesAfterError
