\* What comes back after an error: global declarations of up to 5 tokens.
SPECIFICATION Spec
CONSTANTS
  NoName = NoName
  JunkName = JunkName
  Unbound = Unbound
  Names <- FewNames
  SymbolTypes <- TypeSet
  Prefix <- NoTokens
  Alphabet <- DeclAlphabet
  FreeTokens = 5
  LexErrors = {FALSE}
  Garbage = {"null"}
INVARIANT EmptyOnError
