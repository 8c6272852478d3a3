\* cactc -o word: what is compiled.
SPECIFICATION DriverSpec
CONSTANTS
  NoName = NoName
  JunkName = JunkName
  Unbound = Unbound
  Names <- FewNames
  SymbolTypes <- TypeSet
  Prefix <- BodyPrefix
  Alphabet <- StmtAlphabet
  FreeTokens = 1
  LexErrors = {FALSE}
  Garbage = {"null"}
  ArgLists <- UpTo2
INVARIANT OutputNotCompiled
