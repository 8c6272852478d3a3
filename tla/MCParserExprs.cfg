\* Expressions: a function with an array parameter and three statements in its
\* body, then up to 6 tokens.
SPECIFICATION Spec
CONSTANTS
  NoName = NoName
  JunkName = JunkName
  Unbound = Unbound
  Names <- ExprNames
  SymbolTypes <- TypeSet
  Prefix <- ExprPrefix
  Alphabet <- ExprAlphabet
  FreeTokens = 6
  LexErrors = {FALSE}
  Garbage = {"null"}
INVARIANTS
  NoSilentCrash
  OperandsTyped
  DepthLinear
  OperatorGrouping
