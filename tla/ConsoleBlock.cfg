SPECIFICATION FairSpec
CONSTANTS
  MaxLen = 2
  NotifyFails = FALSE
PROPERTIES
  CharactersAreReturned
