---------------------------- MODULE MCJobPipeline -----------------------------
EXTENDS JobPipeline

CONSTANTS t1, t2

MCTargets == {t1, t2}

\* cmd steps with and without ReportOnly, s0ix-selftest and HWaaS steps,
\* and steps whose target runner is not in the repository.
MCAllConfigs ==
    {[kind |-> "cmd", reportOnly |-> r] : r \in BOOLEAN}
    \cup {[kind |-> k, reportOnly |-> FALSE] : k \in {"s0ix", "hwaas", "plugin"}}
\* Only report-only cmd steps.
MCReportOnlyCmd == {[kind |-> "cmd", reportOnly |-> TRUE]}
\* Only HWaaS steps.
MCHwaasOnly == {[kind |-> "hwaas", reportOnly |-> FALSE]}
\* A server whose plugin configuration registers every step of this
\* repository.
MCAllKinds == {"cmd", "s0ix", "hwaas", "plugin"}
\* cmd steps that are not report-only, and s0ix-selftest steps.
MCPlainCommands == {[kind |-> k, reportOnly |-> FALSE] : k \in {"cmd", "s0ix"}}

================================================================================
