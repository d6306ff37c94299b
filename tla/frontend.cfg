SPECIFICATION FrontSpec
CONSTANTS
  Sibling = {"a", "b"}
  Stdlib <- MCStdlib
  Builtin = {"io"}
  WithC = {"os", "linux"}
  LinuxOnly = {"linux"}
  StdImports <- MCStdImports
  EntryName = {"main", "strconv"}
  ImportLists <- MCLists
  Letter <- MCLetter
  Keyword <- MCKeyword
  IntSuffix <- MCIntSuffix
  FloatSuffix <- MCFloatSuffix
  CodePoint <- MCCodePoint
  ParserName = {"any", "Eq", "x", "y", "f", "map"}
  ParserLiteral = {"STRING"}
  ParserInt = {"1"}
  Constraint <- MCConstraint
  ImportedModule = {}
  Programs <- MCPrograms
  MaxGenerated = 10
CHECK_DEADLOCK FALSE
INVARIANT VerdictExact
INVARIANT LoaderInv
INVARIANT TokensExact
INVARIANT TreesExact
INVARIANT TypesExact
INVARIANT WorldsExact
INVARIANT InstancesExact
INVARIANT InstantiationEnds
INVARIANT ErasedCallsExact
INVARIANT BodiesExact
INVARIANT CheckedExact
PROPERTY LoaderEnds
PROPERTY ImplementsInstantiation
