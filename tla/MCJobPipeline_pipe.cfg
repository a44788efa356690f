\* cmd (not report-only) and s0ix-selftest steps whose command may print
\* more than the pipe holds.
CONSTANTS
    t1 = t1
    t2 = t2
    Targets <- MCTargets
    NSteps = 1
    StepConfigs <- MCPlainCommands
    PipeCap = 1
    Registry <- GeneratedRegistry
    OutputSizes = {1, 2}

SPECIFICATION Spec

INVARIANT NoFalseFail
