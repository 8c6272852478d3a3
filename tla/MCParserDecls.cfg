\* Global declarations and functions: every stream of up to 10 tokens.
SPECIFICATION Spec
CONSTANTS
  NoName = NoName
  JunkName = JunkName
  Unbound = Unbound
  Names <- OneName
  SymbolTypes <- TypeSet
  Prefix <- NoTokens
  Alphabet <- DeclAlphabet
  FreeTokens = 10
  LexErrors = {FALSE}
  Garbage = {"null"}
INVARIANTS
  TypeOK
  ScopeBalance
  ReturnContext
  ErrorLatch
  DepthLinear
  NoSilentCrash
PROPERTIES
  BindingsStable
  ParsesLinear
