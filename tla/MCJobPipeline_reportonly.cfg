\* Two targets, one report-only cmd step: is a failing command reported?
CONSTANTS
    t1 = t1
    t2 = t2
    Targets <- MCTargets
    NSteps = 1
    StepConfigs <- MCReportOnlyCmd
    PipeCap = 1
    Registry <- GeneratedRegistry
    OutputSizes = {1}

SPECIFICATION Spec

INVARIANT NoFalsePass
