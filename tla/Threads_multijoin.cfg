SPECIFICATION MCSpec
CONSTANTS
  N = 3
  Loops = 2
  Units <- UnitsMany
INVARIANT MultijoinEndsWhenNoneLive
