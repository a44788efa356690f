\* One HWaaS step on one device: a power command (on, off, reboot) runs on
\* two targets, a flash command on one; every step configuration and every
\* initial device state.
CONSTANTS
  r1 = r1
  r2 = r2
  Runners <- MCTwoRunners
  StepRunners <- MCPowerOnTwo
  Trials = 2
  StepCommands = {"on", "off", "reboot", "write", "read"}

SPECIFICATION Spec

INVARIANTS
  TypeOK
  FlashOnlyInReset
  StepOutcomeHolds

PROPERTIES
  RunnersReturn
