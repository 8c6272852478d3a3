\* Two names, two types, up to three nested scopes, operations in any order.
SPECIFICATION ScopesSpec
CONSTANTS
  Names = {n1, n2}
  SymbolTypes = {t1, t2}
  Unbound = Unbound
  MaxDepth = 3
CONSTRAINT DepthBound
INVARIANTS
  ScopesTypeOK
  GlobalIffOutermost
PROPERTIES
  BindingsStable
  ImplementsScopedEnv
