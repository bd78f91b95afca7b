SPECIFICATION Spec
CONSTANTS
  Characters <- MCCharacters
  Programs <- MCPrograms
  Cocktail <- NoCocktail
  Libraries <- MCLibraries
  VSL <- MCVSL
  MaxNodes = 200
  MaxScopes = 60
INVARIANTS
  OutputIsMeaning
  DefinitionsIntact
  RunsWhereResolved
