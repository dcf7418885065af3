\* One place in each channel, three messages.
SPECIFICATION TuiFairSpec
CONSTANTS
  Providers = {pa, pb}
  TuiCap = 1
  MaxTyped = 3
  NoProvider = NoProvider
PROPERTIES
  RepliesShown
CHECK_DEADLOCK FALSE
