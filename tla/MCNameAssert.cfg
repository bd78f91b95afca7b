SPECIFICATION Spec
CONSTANTS
  Characters <- MCCharacters
  Programs <- NamedByBlock
  Cocktail <- NoCocktail
  Libraries <- MCLibraries
  VSL <- MCVSL
  MaxNodes = 40
  MaxScopes = 20
INVARIANT NameAsserted
