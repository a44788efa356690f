---------------------------- MODULE MCHwaasDevice ----------------------------
EXTENDS HwaasDevice

CONSTANTS r1, r2

MCOneRunner  == {r1}
MCTwoRunners == {r1, r2}

\* Every target of the step runs it.
MCAllRunners(cfg) == MCTwoRunners

\* A power command runs on two targets of one device; a flash command on one.
MCPowerOnTwo(cfg) == IF cfg.cmd \in {"write", "read"} THEN {r1} ELSE {r1, r2}

=============================================================================
