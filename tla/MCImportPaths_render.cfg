SPECIFICATION Spec
CONSTANTS
  Segments <- MCSegments
  Namespaces = {own, shared}
  LibraryNamespace = shared
  NoNamespace = NoNamespace
  Names = {"n", "lib"}
  Keys <- MCKeys
  Statements <- MCStatements
  MaxChanges = 2
  MaxImports = 3
INVARIANTS TypeOK SharedStaysShared OneVersionPerFile OfflineImportsAgree
PROPERTY ResolvesAsDocumented
CHECK_DEADLOCK FALSE
