CONSTANTS
  Modules        <- MCModules
  Equations      = {"E"}
  Methods        <- MCMethods
  StaticMethods  <- MCStatic
  ImplicitNames  <- MCImplicit
  Initial        <- MCInitial
  Ranges         <- MCRanges
  Assignments    <- MCAssignments
  HashCode       <- MCHashCode
  Aliasing       = FALSE
  MaxOperators   = 2
  MaxExpressions = 2
SPECIFICATION Spec
\* a compilation ends
CHECK_DEADLOCK FALSE
INVARIANTS
  TablesAgree
  ProbesEnd
  RefsCount
  OwnsNested
PROPERTIES
  KeepsPromise
