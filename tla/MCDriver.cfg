\* The whole program: every command line of up to two words, and a file that
\* begins int f ( int a ) { and goes on for up to 5 tokens.
SPECIFICATION FairDriverSpec
CONSTANTS
  NoName = NoName
  JunkName = JunkName
  Unbound = Unbound
  Names <- FewNames
  SymbolTypes <- TypeSet
  Prefix <- BodyPrefix
  Alphabet <- StmtAlphabet
  FreeTokens = 5
  LexErrors = {FALSE}
  Garbage = {"null"}
  ArgLists <- UpTo2
INVARIANT StatusTellsOutcome
PROPERTIES
  NoErrorForgotten
  Exits
