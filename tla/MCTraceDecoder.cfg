SPECIFICATION Spec
CONSTANTS
  Main <- MCMain
  TextStart <- MCTextStart
  TextEnd <- MCTextEnd
  Targets <- MCTargets
  Kits <- MCKits
  MaxInterrupts = 2
PROPERTIES FrozenByOverflow Consumes CountsTheBranches
