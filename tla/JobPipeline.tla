----------------------------- MODULE JobPipeline ------------------------------
(***************************************************************************)
(* A job's pipeline: the orchestrator's step loop and the target runner    *)
(* (ForEachTarget) of spec.md 4.1 and 4.2, which are not part of this     *)
(* repository's sources and are modelled from the spec, composed with the  *)
(* per-target functions of two test steps that are:                        *)
(*   - the cmd step, TargetRunner.Run and runCMD of                        *)
(*     plugins/teststeps/cmd/runner.go, with the process it starts and the *)
(*     bounded pipe between them, and emitStdout/emitStderr of events.go;  *)
(*   - the s0ix-selftest step, TargetRunner.Run and runS0ixSelftest of     *)
(*     plugins/teststeps/s0ix-selftest/runner.go, the same shape;          *)
(*   - the closure f of HWaaS.Run in plugins/teststeps/hwaas/hwaas.go;    *)
(*   - steps whose target runner is not in this repository (HwaaS of       *)
(*     hwaas/main.go, sysbench, bios_settings_set, fw_version, robot,      *)
(*     fwhunt), with a free per-target result.                             *)
(* Before the job runs, every step's ValidateParameters is applied to its  *)
(* parameters at submission (spec.md 4.1): the job runs or is rejected.    *)
(*                                                                         *)
(* Every per-target invocation draws what its environment does (transport  *)
(* and process set-up errors, exit status, size of its output, whether its *)
(* output matches the Expect regex) when it starts; bad[t] records whether *)
(* that invocation really failed, so the result the step returns can be    *)
(* compared with it.                                                       *)
(***************************************************************************)
EXTENDS Naturals, FiniteSets, SequencesExt

CONSTANTS
    Targets,      \* the job's targets
    NSteps,       \* the pipeline's length
    StepConfigs,  \* the configurations a step may have
    PipeCap,      \* units of output the stdout pipe holds
    OutputSizes,  \* how many units of output a command may print
    Registry      \* the step kinds whose loader the server registered

ASSUME /\ NSteps \in Nat \ {0}
       /\ StepConfigs \subseteq [kind : {"cmd", "s0ix", "hwaas", "plugin"},
                                 reportOnly : BOOLEAN]
       /\ PipeCap \in Nat \ {0}
       /\ OutputSizes \subseteq Nat /\ OutputSizes # {}
       /\ Registry \subseteq {"cmd", "s0ix", "hwaas", "plugin"}

Steps == 1..NSteps

VARIABLES
    stepCfg,    \* configuration of each step of the pipeline
    jobState,   \* "submitted", "rejected", "running", "completed", "failed", "cancelled"
    cur,        \* the step the orchestrator is at
    phase,      \* "idle": before ForEachTarget of cur; "run": inside it
    alive,      \* targets not excluded by a failure
    cancel,     \* the job's shared context has been cancelled
    rpc,        \* where each target's invocation is
    rstep,      \* the step each target's invocation belongs to
    bad,        \* the invocation really failed
    outcome,    \* runCMD's outcome: proc.Start, then proc.Wait
    expect,     \* what parseOutput finds for the Expect regex
    wantExit,   \* how the started command ends by itself
    exitCode,   \* how the process ended, "none" while it runs
    left,       \* output the process has still to write
    pipe,       \* output written to the pipe and not yet read
    result,     \* result[t][s]: "none", "running", "pass" or "fail"
    emitted     \* emitted[t][s]: the event step s emitted for t

orchVars == <<jobState, cur, phase, alive, cancel>>
procVars == <<outcome, expect, wantExit, exitCode, left, pipe>>
vars == <<stepCfg, orchVars, rpc, rstep, bad, procVars, result, emitted>>

RunnerPcs   == {"none", "idle", "wait", "read", "done"}
Exits       == {"zero", "nonzero", "hang"}
Matches     == {"match", "nomatch", "badregex"}
Results     == {"none", "running", "pass", "fail"}
Events      == {"none", "Stdout", "Stderr"}

TypeOK ==
    /\ stepCfg \in [Steps -> StepConfigs]
    /\ jobState \in {"submitted", "rejected", "running", "completed", "failed", "cancelled"}
    /\ cur \in Steps
    /\ phase \in {"idle", "run"}
    /\ alive \subseteq Targets
    /\ cancel \in BOOLEAN
    /\ rpc \in [Targets -> RunnerPcs]
    /\ rstep \in [Targets -> Steps]
    /\ bad \in [Targets -> BOOLEAN]
    /\ outcome \in [Targets -> {"nil", "err"}]
    /\ expect \in [Targets -> Matches]
    /\ wantExit \in [Targets -> Exits]
    /\ exitCode \in [Targets -> Exits \cup {"none", "killed"}]
    /\ left \in [Targets -> 0..Max(OutputSizes)]
    /\ pipe \in [Targets -> 0..PipeCap]
    /\ result \in [Targets -> [Steps -> Results]]
    /\ emitted \in [Targets -> [Steps -> Events]]

Init ==
    /\ stepCfg \in [Steps -> StepConfigs]
    /\ jobState = "submitted"
    /\ cur = 1
    /\ phase = "idle"
    /\ alive = Targets
    /\ cancel = FALSE
    /\ rpc = [t \in Targets |-> "none"]
    /\ rstep = [t \in Targets |-> 1]
    /\ bad = [t \in Targets |-> FALSE]
    /\ outcome = [t \in Targets |-> "nil"]
    /\ expect = [t \in Targets |-> "match"]
    /\ wantExit = [t \in Targets |-> "zero"]
    /\ exitCode = [t \in Targets |-> "none"]
    /\ left = [t \in Targets |-> 0]
    /\ pipe = [t \in Targets |-> 0]
    /\ result = [t \in Targets |-> [s \in Steps |-> "none"]]
    /\ emitted = [t \in Targets |-> [s \in Steps |-> "none"]]

\* The invocation of t finishes with the step function's return value ret
\* ("nil", "err" or "panic") and the event it emitted; ForEachTarget turns
\* a panic into t's error (spec.md 4.2 b).
Finish(t, ret, ev) ==
    /\ rpc' = [rpc EXCEPT ![t] = "done"]
    /\ result' = [result EXCEPT ![t][rstep[t]] = IF ret = "nil" THEN "pass" ELSE "fail"]
    /\ emitted' = [emitted EXCEPT ![t][rstep[t]] = ev]

\* The event Run emits for what it returns: emitStderr for an error,
\* emitStdout for nil (cmd events.go 102-119), none when it panicked.
RunEmits == [nil |-> "Stdout", err |-> "Stderr", panic |-> "none"]

\* Mutant: a failed emit is logged and Run returns as if it had succeeded.
EmitReturnSwallowed(ret, emitOk) == ret

\* emitEvent (events.go 32-49) fails when ev.Emit fails; emitStderr and
\* emitStdout then return that error in place of what Run would return.
EmitReturn(ret, emitOk) ==
    IF emitOk \/ ret = "panic" THEN ret ELSE "err"

\* Run ends in emitStderr or emitStdout (cmd runner.go 45-59, s0ix 53-76):
\* the event is recorded, or ev.Emit fails, records nothing and its error
\* is returned.
EmitAndFinish(t, ret) ==
    \E emitOk \in BOOLEAN :
        Finish(t, EmitReturn(ret, emitOk), IF emitOk THEN RunEmits[ret] ELSE "none")

(***************************************************************************)
(* The cmd step: TargetRunner.Run (runner.go 35-60) and runCMD (62-116).  *)
(***************************************************************************)

\* The start of a per-target function that runs one command: a set-up
\* error is emitted on Stderr and returned, whatever ReportOnly says;
\* proc.Start fails and the pipes are read with that outcome; or the
\* command starts, printing n units, ending as x, its output matching as
\* m (one of parses), and the function blocks in proc.Wait.
Launch(t, parses) ==
    /\ rpc[t] = "idle"
    /\ \/ /\ bad' = [bad EXCEPT ![t] = TRUE]
          /\ EmitAndFinish(t, "err")
          /\ UNCHANGED procVars
       \/ /\ bad' = [bad EXCEPT ![t] = TRUE]
          /\ outcome' = [outcome EXCEPT ![t] = "err"]
          /\ pipe' = [pipe EXCEPT ![t] = 0]
          /\ rpc' = [rpc EXCEPT ![t] = "read"]
          /\ UNCHANGED <<expect, wantExit, exitCode, left, result, emitted>>
       \/ \E n \in OutputSizes, x \in Exits, m \in parses :
             /\ left' = [left EXCEPT ![t] = n]
             /\ pipe' = [pipe EXCEPT ![t] = 0]
             /\ wantExit' = [wantExit EXCEPT ![t] = x]
             /\ exitCode' = [exitCode EXCEPT ![t] = "none"]
             /\ expect' = [expect EXCEPT ![t] = m]
             /\ bad' = [bad EXCEPT ![t] = (x # "zero" \/ m # "match")]
             /\ rpc' = [rpc EXCEPT ![t] = "wait"]
             /\ UNCHANGED <<outcome, result, emitted>>
    /\ UNCHANGED <<stepCfg, orchVars, rstep>>

\* cmd, Run: creating the transport (45-51), or in runCMD the process
\* (64-70) or its stdout/stderr pipes (74-88), fails; or proc.Start (93)
\* fails; or the command starts and runCMD waits (95).  An Expect regex
\* may match, not match, or not compile.
CmdLaunch(t) ==
    /\ stepCfg[rstep[t]].kind = "cmd"
    /\ Launch(t, Matches)

\* s0ix-selftest, Run: a protocol other than ssh (53-58), or creating the
\* transport (62-68), or in runS0ixSelftest the process (83-86) or its
\* pipes (90-98), fails; or proc.Start (103) fails; or the tool starts
\* and the function waits (105).  Its output contains "Congratulations!"
\* or not.
S0ixLaunch(t) ==
    /\ stepCfg[rstep[t]].kind = "s0ix"
    /\ Launch(t, {"match", "nomatch"})

\* The started command writes one unit of output to its stdout pipe; a
\* full pipe blocks it, since nobody reads the pipe before Wait returns.
ProcWrite(t) ==
    /\ rpc[t] = "wait"
    /\ exitCode[t] = "none"
    /\ left[t] > 0
    /\ pipe[t] < PipeCap
    /\ left' = [left EXCEPT ![t] = @ - 1]
    /\ pipe' = [pipe EXCEPT ![t] = @ + 1]
    /\ UNCHANGED <<stepCfg, orchVars, rpc, rstep, bad, outcome, expect,
                   wantExit, exitCode, result, emitted>>

\* Having written all its output, the command exits, unless it hangs.
ProcExit(t) ==
    /\ rpc[t] = "wait"
    /\ exitCode[t] = "none"
    /\ left[t] = 0
    /\ wantExit[t] # "hang"
    /\ exitCode' = [exitCode EXCEPT ![t] = wantExit[t]]
    /\ UNCHANGED <<stepCfg, orchVars, rpc, rstep, bad, outcome, expect,
                   wantExit, left, pipe, result, emitted>>

\* proc.Wait (cmd 95, s0ix 105) returns the exit status of the process.
CmdWaitExited(t) ==
    /\ rpc[t] = "wait"
    /\ exitCode[t] \in {"zero", "nonzero"}
    /\ outcome' = [outcome EXCEPT ![t] = IF exitCode[t] = "zero" THEN "nil" ELSE "err"]
    /\ rpc' = [rpc EXCEPT ![t] = "read"]
    /\ UNCHANGED <<stepCfg, orchVars, rstep, bad, expect, wantExit, exitCode,
                   left, pipe, result, emitted>>

\* A process that cannot finish: blocked on its full pipe, or hanging.
Stuck(t) ==
    \/ left[t] > 0 /\ pipe[t] = PipeCap
    \/ left[t] = 0 /\ wantExit[t] = "hang"

CmdWaitKilled(t) ==
    /\ rpc[t] = "wait"
    /\ exitCode[t] = "none"
    /\ cancel \/ Stuck(t)
    /\ exitCode' = [exitCode EXCEPT ![t] = "killed"]
    /\ outcome' = [outcome EXCEPT ![t] = "err"]
    /\ rpc' = [rpc EXCEPT ![t] = "read"]
    /\ UNCHANGED <<stepCfg, orchVars, rstep, bad, expect, wantExit, left,
                   pipe, result, emitted>>

\* parseOutput (146-168): a match returns nil, no match an error; a regex
\* that does not compile leaves re nil and re.FindAll (155) panics.
ParseOutput == [match |-> "nil", nomatch |-> "err", badregex |-> "panic"]

\* Mutant: the outcome of the process is not looked at.
RunCMDReturnNoOutcome(t) ==
    IF stepCfg[rstep[t]].reportOnly THEN "nil"
    ELSE ParseOutput[expect[t]]

\* What runCMD returns once the outcome is known (103-115): nil for a
\* ReportOnly step, before the outcome is looked at.
RunCMDReturn(t) ==
    IF stepCfg[rstep[t]].reportOnly THEN "nil"
    ELSE IF outcome[t] = "err" THEN "err"
    ELSE ParseOutput[expect[t]]

\* The end of a per-target function that ran a command: it has read the
\* pipes after Wait returned and decided ret; Run emits the matching event
\* and returns, and the function's locals are gone.
ReadAndReturn(t, ret) ==
    /\ rpc[t] = "read"
    /\ EmitAndFinish(t, ret)
    /\ outcome' = [outcome EXCEPT ![t] = "nil"]
    /\ expect' = [expect EXCEPT ![t] = "match"]
    /\ wantExit' = [wantExit EXCEPT ![t] = "zero"]
    /\ exitCode' = [exitCode EXCEPT ![t] = "none"]
    /\ left' = [left EXCEPT ![t] = 0]
    /\ pipe' = [pipe EXCEPT ![t] = 0]
    /\ UNCHANGED <<stepCfg, orchVars, rstep, bad>>

\* runCMD reads the pipes (98), then decides (103-115).
CmdRead(t) ==
    /\ stepCfg[rstep[t]].kind = "cmd"
    /\ ReadAndReturn(t, RunCMDReturn(t))

\* parseOutput (155-161): nil when stdout contains "Congratulations!".
S0ixParseOutput == [match |-> "nil", nomatch |-> "err"]

\* What runS0ixSelftest returns once the outcome is known (116-124): it
\* has no ReportOnly.
RunS0ixSelftestReturn(t) ==
    IF outcome[t] = "err" THEN "err" ELSE S0ixParseOutput[expect[t]]

\* runS0ixSelftest reads the pipes (108) after Wait, then decides; Run
\* emits Stderr or Stdout (70-76).
S0ixRead(t) ==
    /\ stepCfg[rstep[t]].kind = "s0ix"
    /\ ReadAndReturn(t, RunS0ixSelftestReturn(t))

(***************************************************************************)
(* The HWaaS step: the per-target closure f of HWaaS.Run (hwaas.go        *)
(* 101-260).  Its parameters expand per target, so each may fail to       *)
(* expand or come out empty; powerOn, powerOff and flashWrite of          *)
(* Parameter are not in this repository, so whether they succeed is free. *)
(***************************************************************************)

HwaasInputs ==
    [host : {"ok", "error", "empty"},       \* hostname, port
     contextID : {"uuid", "invalid"},       \* fails to expand, empty or no uuid
     rest : {"ok", "error", "empty"},       \* machineID, deviceID, command, args
     command : {"power", "flash", "other"},
     argsValid : BOOLEAN,                   \* args name a known sub-command
     opOk : BOOLEAN]                        \* powerOn/powerOff/flashWrite

\* The checks f makes, in the order it makes them, and whether the value it
\* returns when one fails is an error: after a successful Expand, err is
\* nil, and the checks that "return err" return that nil.
HwaasChecks(in) ==
    << [fails |-> in.host = "error",        err |-> TRUE],   \* 108-113, 120-125
       [fails |-> in.host = "empty",        err |-> FALSE],  \* 114-118, 126-130
       [fails |-> in.contextID = "invalid", err |-> TRUE],   \* 132-147
       [fails |-> in.rest = "error",        err |-> TRUE],   \* 149-154, 161-166, 173-178, 186-192
       [fails |-> in.rest = "empty",        err |-> FALSE],  \* 155-159, 167-171, 179-183
       [fails |-> in.command = "other",     err |-> FALSE],  \* 255-258
       [fails |-> ~in.argsValid,            err |-> FALSE],  \* 220-230, 243-253
       [fails |-> ~in.opOk,                 err |-> TRUE] >> \* 203-207, 212-216, 236-240

\* Index of the first check that fails, 0 when f reaches "return nil".
HwaasFirstFailure(in) == SelectInSeq(HwaasChecks(in), LAMBDA c : c.fails)

\* f runs for target t; it emits no event (Load declares none).
HwaasRun(t) ==
    /\ rpc[t] = "idle"
    /\ stepCfg[rstep[t]].kind = "hwaas"
    /\ \E in \in HwaasInputs :
          LET k == HwaasFirstFailure(in) IN
          /\ bad' = [bad EXCEPT ![t] = k # 0]
          /\ Finish(t, IF k # 0 /\ HwaasChecks(in)[k].err THEN "err" ELSE "nil", "none")
    /\ UNCHANGED <<stepCfg, orchVars, rstep, procVars>>

\* The Run of a step whose TargetRunner is not in this repository (e.g.
\* Sysbench.Run, main.go 57-65): ForEachTarget calls tr.Run per target,
\* and whether it succeeds is whatever that runner makes of the target;
\* its events are not modelled.
PluginRun(t) ==
    /\ rpc[t] = "idle"
    /\ stepCfg[rstep[t]].kind = "plugin"
    /\ \E ret \in {"nil", "err"} :
          /\ bad' = [bad EXCEPT ![t] = (ret = "err")]
          /\ Finish(t, ret, "none")
    /\ UNCHANGED <<stepCfg, orchVars, rstep, procVars>>

(***************************************************************************)
(* The orchestrator's step loop and ForEachTarget (spec.md 4.1, 4.2).     *)
(***************************************************************************)

\* What ValidateParameters sees of a step's parameters: the "input"
\* parameter is absent (GetOne(in).IsEmpty()), does not unmarshal, or
\* unmarshals; the fields the step insists on are set; and the "expect"
\* parameter is absent, does not unmarshal, or unmarshals.
StepParams == [input : {"absent", "malformed", "ok"},
               fields : BOOLEAN,
               expect : {"absent", "malformed", "ok"}]

\* The steps whose TargetRunner is not in this repository.
Plugins == {"HwaaS", "Sysbench", "Set Bios Setting", "Firmware Version",
            "Robot", "FwHunt"}

\* HWaaS.validateAndPopulate: hostname, port, contextID, machineID,
\* deviceID and command must each be exactly one non-empty parameter.
HwaasValidateAndPopulate(p) == p.fields

\* HwaaS (main.go) validateAndPopulate: the input unmarshals; host,
\* contextID, machineID and deviceID take defaults; command and args must
\* be set.
HwaasStepValidateAndPopulate(p) == p.input = "ok" /\ p.fields

\* Sysbench validateAndPopulate: the input unmarshals, and expect is a
\* non-empty list whose every item unmarshals.
SysbenchValidateAndPopulate(p) == p.input = "ok" /\ p.expect = "ok"

\* Set Bios Setting populateParams: the input unmarshals, an expect given
\* unmarshals, and should_fail allows at most three bios_options (fields).
BiosSettingsPopulateParams(p) ==
    p.input = "ok" /\ p.expect # "malformed" /\ (p.expect = "ok" => p.fields)

\* Firmware Version populateParams: the input unmarshals and names
\* tool_path and expected_version.
FwVersionPopulateParams(p) == p.input = "ok" /\ p.fields

\* Robot validateAndPopulate: the input unmarshals and names file_path.
RobotValidateAndPopulate(p) == p.input = "ok" /\ p.fields

\* FwHunt validateAndPopulate: an absent input is accepted as it is; a
\* given one must unmarshal.
FwhuntValidateAndPopulate(p) == p.input # "malformed"

PluginValidates(plugin, p) ==
    CASE plugin = "HwaaS"            -> HwaasStepValidateAndPopulate(p)
      [] plugin = "Sysbench"         -> SysbenchValidateAndPopulate(p)
      [] plugin = "Set Bios Setting" -> BiosSettingsPopulateParams(p)
      [] plugin = "Firmware Version" -> FwVersionPopulateParams(p)
      [] plugin = "Robot"            -> RobotValidateAndPopulate(p)
      [] plugin = "FwHunt"           -> FwhuntValidateAndPopulate(p)

\* ValidateParameters of a step of this kind; that of cmd and
\* s0ix-selftest is not in this repository and may go either way.
Validates(kind, plugin, p) ==
    CASE kind = "hwaas"  -> HwaasValidateAndPopulate(p)
      [] kind = "plugin" -> PluginValidates(plugin, p)
      [] OTHER           -> p.fields

\* getPluginConfig (cmds/contest/main.go 45-61), generated from
\* core-plugins.yml: of the steps modelled here, the server binary as
\* checked in registers the loader of the cmd step only (sshcmd is also
\* registered, but only its event helpers are in this repository).
GeneratedRegistry == {"cmd"}

\* Start resolves each step name in the registry and applies every step's
\* ValidateParameters to its parameters (spec.md 4.1, 7): the job runs, or
\* it is rejected and never created.  The validation HWaaS.Run,
\* Sysbench.Run and FwHunt.Run repeat on the same parameters (hwaas.go
\* 95-99) therefore passes.
Submit ==
    /\ jobState = "submitted"
    /\ \E plugin \in [Steps -> Plugins], p \in [Steps -> StepParams] :
          jobState' = IF \A s \in Steps : /\ stepCfg[s].kind \in Registry
                                          /\ Validates(stepCfg[s].kind, plugin[s], p[s])
                      THEN "running" ELSE "rejected"
    /\ UNCHANGED <<stepCfg, cur, phase, alive, cancel, rpc, rstep, bad,
                   procVars, result, emitted>>

\* ForEachTarget starts one invocation of the step per surviving target.
StartStep ==
    /\ jobState = "running"
    /\ phase = "idle"
    /\ ~cancel
    /\ phase' = "run"
    /\ rpc' = [t \in Targets |-> IF t \in alive THEN "idle" ELSE "none"]
    /\ rstep' = [t \in Targets |-> IF t \in alive THEN cur ELSE rstep[t]]
    /\ result' = [t \in Targets |->
                    IF t \in alive THEN [result[t] EXCEPT ![cur] = "running"]
                    ELSE result[t]]
    /\ UNCHANGED <<stepCfg, jobState, cur, alive, cancel, bad, procVars, emitted>>

\* ForEachTarget returns once every invocation it started has returned.
ForEachTargetReturned == \A t \in alive : rpc[t] = "done"

\* A target whose invocation failed is excluded, unless the step is
\* report-only.
Excluded(t) == result[t][cur] = "fail" /\ ~stepCfg[cur].reportOnly

\* The job's state once step cur concluded with the survivors S.
Concluded(S) ==
    IF S = {} THEN "failed"
    ELSE IF cur = NSteps THEN "completed"
    ELSE "running"

\* Mutant: the step counter advances past the last step.
StepDoneAlwaysAdvance ==
    /\ jobState = "running"
    /\ phase = "run"
    /\ ~cancel
    /\ ForEachTargetReturned
    /\ LET S == {t \in alive : ~Excluded(t)} IN
          /\ alive' = S
          /\ jobState' = Concluded(S)
          /\ cur' = IF S = {} THEN cur ELSE cur + 1
    /\ phase' = "idle"
    /\ rpc' = [t \in Targets |-> "none"]
    /\ UNCHANGED <<stepCfg, cancel, rstep, bad, procVars, result, emitted>>

\* The step has concluded for every target: exclude the failed ones, then
\* fail, complete, or go on to the next step.
StepDone ==
    /\ jobState = "running"
    /\ phase = "run"
    /\ ~cancel
    /\ ForEachTargetReturned
    /\ LET S == {t \in alive : ~Excluded(t)} IN
          /\ alive' = S
          /\ jobState' = Concluded(S)
          /\ cur' = IF Concluded(S) = "running" THEN cur + 1 ELSE cur
    /\ phase' = "idle"
    /\ rpc' = [t \in Targets |-> "none"]
    /\ UNCHANGED <<stepCfg, cancel, rstep, bad, procVars, result, emitted>>

\* The orchestrator observes the cancelled context, before the next step
\* or when ForEachTarget returns promptly on it.
CancelObserved ==
    /\ jobState = "running"
    /\ cancel
    /\ jobState' = "cancelled"
    /\ UNCHANGED <<stepCfg, cur, phase, alive, cancel, rpc, rstep, bad,
                   procVars, result, emitted>>

\* CancelJob cancels the job's shared context.
RequestCancel ==
    /\ jobState = "running"
    /\ ~cancel
    /\ cancel' = TRUE
    /\ UNCHANGED <<stepCfg, jobState, cur, phase, alive, rpc, rstep, bad,
                   procVars, result, emitted>>

\* The job is over and no invocation is still running.
Terminated ==
    /\ jobState \notin {"submitted", "running"}
    /\ \A t \in Targets : rpc[t] \in {"none", "done"}
    /\ UNCHANGED vars

Runner(t) ==
    \/ CmdLaunch(t) \/ S0ixLaunch(t) \/ CmdWaitExited(t) \/ CmdWaitKilled(t)
    \/ CmdRead(t) \/ S0ixRead(t) \/ HwaasRun(t) \/ PluginRun(t)

Process(t) == ProcWrite(t) \/ ProcExit(t)

Orchestrator == Submit \/ StartStep \/ StepDone \/ CancelObserved

Next ==
    \/ Orchestrator
    \/ RequestCancel
    \/ \E t \in Targets : Runner(t) \/ Process(t)
    \/ Terminated

\* Invocations, processes and the orchestrator are goroutines and OS
\* processes that keep running; nobody is obliged to cancel.
Fairness ==
    /\ WF_vars(Orchestrator)
    /\ \A t \in Targets : WF_vars(Runner(t)) /\ WF_vars(Process(t))

Spec == Init /\ [][Next]_vars /\ Fairness

(***************************************************************************)
(* Properties                                                              *)
(***************************************************************************)

\* The cmd and s0ix-selftest steps, when not report-only, pass a target
\* only if the command they started exited 0 and printed what they expect:
\* both look at Wait's outcome before parsing the output (cmd runner.go
\* 107-113, s0ix runner.go 116-122), whatever the pipe, a timeout or a
\* cancel did to the process; and a pass is always on record as a Stdout
\* event, since a failed ev.Emit turns the return into an error.
CommandPassMeansSuccess ==
    \A t \in Targets :
        /\ rpc[t] = "done"
        /\ stepCfg[rstep[t]].kind \in {"cmd", "s0ix"}
        /\ ~stepCfg[rstep[t]].reportOnly
        /\ result[t][rstep[t]] = "pass"
        => ~bad[t] /\ emitted[t][rstep[t]] = "Stdout"

\* Every per-target failure is reported as that target's error (spec.md 5,
\* 7 and the glossary: report-only failures are recorded too): a step
\* passes a target only when its invocation really succeeded.
NoFalsePass ==
    \A t \in Targets :
        rpc[t] = "done" /\ result[t][rstep[t]] = "pass" => ~bad[t]

\* A command that succeeds by itself is not reported as failed unless the
\* job was cancelled (spec.md 7: runtime errors are transport failures,
\* step logic failures and output mismatches) or its event could not be
\* emitted.
NoFalseFail ==
    \A t \in Targets :
        /\ rpc[t] = "done"
        /\ result[t][rstep[t]] = "fail"
        /\ ~cancel
        /\ emitted[t][rstep[t]] # "none"
        => bad[t]

================================================================================
