\* Two targets through a two-step pipeline whose steps are cmd (report-only
\* or not), s0ix-selftest or HWaaS (parameters valid or not); a command
\* prints one or two units of output into a pipe that holds one.
CONSTANTS
    t1 = t1
    t2 = t2
    Targets <- MCTargets
    NSteps = 2
    StepConfigs <- MCAllConfigs
    PipeCap = 1
    Registry <- MCAllKinds
    OutputSizes = {1, 2}

SPECIFICATION Spec

INVARIANTS
    TypeOK
    CommandPassMeansSuccess


    
