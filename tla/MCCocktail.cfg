SPECIFICATION Spec
CONSTANTS
  Characters <- MCCharacters
  Programs <- MCPrograms
  Cocktail <- MCCocktail
  Libraries <- MCLibraries
  VSL <- MCVSL
  MaxNodes = 120
  MaxScopes = 40
INVARIANTS
  UndefinedSurvives
  CocktailResolved
