\* Statements and recovery, with invalid characters: int f ( int a ) { and up to 7 tokens.
SPECIFICATION Spec
CONSTANTS
  NoName = NoName
  JunkName = JunkName
  Unbound = Unbound
  Names <- StmtNames
  SymbolTypes <- StmtTypes
  Prefix <- BodyPrefix
  Alphabet <- StmtAlphabet
  FreeTokens = 7
  LexErrors = {TRUE, FALSE}
  Garbage = {"null", "typed", "wild"}
INVARIANTS
  ScopeBalance
  ReturnContext
  ErrorLatch
  DepthLinear
PROPERTIES
  LexicalScoping
  ParsesLinear
