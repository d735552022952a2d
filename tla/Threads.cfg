SPECIFICATION MCSpec
CONSTANTS
  N = 3
  Loops = 2
  Units <- UnitsMany
INVARIANTS
  UnitsConserved
  SignalOnItsWay
  CountersAgree
PROPERTY EveryProgramEnds
