SPECIFICATION Spec
CONSTANTS
  Characters <- MCCharacters
  Programs <- MCPrograms
  Cocktail <- NoCocktail
  Libraries <- MCLibraries
  VSL <- MCVSL
  MaxNodes = 45
  MaxScopes = 14
INVARIANTS
  TypeOK
  ScopeTree
  CallScopeFound
  ResolvedBeforeWritten
  BlanksReduced
  BuffersMatchFrames
  ProgramKept
  NamedCallsSafe
PROPERTIES
  DefinedBeforeBound
  Terminates
