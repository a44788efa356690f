CONSTANTS
  r1 = r1
  r2 = r2
  Runners <- MCTwoRunners
  StepRunners <- MCAllRunners
  Trials = 1
  StepCommands = {"write"}

SPECIFICATION Spec

INVARIANT
  FlashOnlyInReset
