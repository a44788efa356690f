\* One HWaaS step: is every target whose invocation failed reported?
CONSTANTS
    t1 = t1
    t2 = t2
    Targets <- MCTargets
    NSteps = 1
    StepConfigs <- MCHwaasOnly
    PipeCap = 1
    Registry <- MCAllKinds
    OutputSizes = {1}

SPECIFICATION Spec

INVARIANT NoFalsePass
