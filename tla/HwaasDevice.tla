----------------------------- MODULE HwaasDevice -----------------------------
(***************************************************************************)
(* The power and flash commands of the HWaaS test step                     *)
(* (plugins/teststeps/hwaas/power.go, flash.go, image.go) against the      *)
(* remote device they drive over HTTP.                                     *)
(*                                                                         *)
(* A TestStep holds one set of parameters (host, machine, device, command, *)
(* args) and ForEachTarget runs the per-target function for every target   *)
(* in its own goroutine, so every runner of one step sends the same        *)
(* command to the same device.  Each HTTP call is one step; every call may *)
(* fail, and a call that changes the device may have taken effect although *)
(* its response was lost.  The sleeps between calls are left out: they are *)
(* where another runner's calls interleave.                                *)
(*                                                                         *)
(* Functions are modelled with a return stack: Call pushes the label to    *)
(* continue at, Return pops it and leaves the error result in res.         *)
(***************************************************************************)
EXTENDS Naturals, Sequences

CONSTANTS
  Runners,   \* target goroutines of one HWaaS step
  Trials,       \* const trials: reads of the power LED per check (5 in the code)
  StepCommands, \* the commands a step of the run may be given
  StepRunners(_) \* the target goroutines a step with this configuration has

Commands  == {"on", "off", "reboot", "write", "read"}

ASSUME Trials \in Nat \ {0} /\ StepCommands \subseteq Commands
\* The step's parameters: Command/Args, whether the context has a FUSB
\* adapter (ContextID # noFUSBCtxID), and whether Image is set.
StepConfigs == [cmd : StepCommands, hard : BOOLEAN, fusb : BOOLEAN, image : BOOLEAN]
ASSUME \A c \in StepConfigs : StepRunners(c) \subseteq Runners /\ StepRunners(c) # {}
Images    == {"old", "new"}     \* the chip's content before, and the step's file
ProgStates == {"ready", "busy", "error"}
Labels ==
  {"start", "done", "powerOn", "powerOn_1", "fusb_read1", "fusb_press",
   "fusb_read2", "offs_pdu1", "offs_pdu2", "offs_read1", "offs_press",
   "offs_read2", "off_soft_ret", "off_fallback_ret", "reboot_soft_ret",
   "reboot_on", "resetDUT", "resetDUT_1",
   "unresetDUT", "unresetDUT_1", "postReset", "postReset_v", "pressPDU",
   "pressPDU_v", "mount", "mount_post", "mount_plugchk", "mount_unplug",
   "mount_conf", "mount_plug", "fw", "fw_state", "fw_post", "fw_flash",
   "fw_unreset", "fr", "fr_state", "fr_read", "fr_pull", "wait"}

VARIABLES
  step,       \* the step's parameters (fixed for the run)
  \* the remote device
  reset,      \* reset line: "on" holds the DUT in reset
  pdu,        \* PDU outlet powered
  running,    \* the DUT is up; the FUSB power LED reads "on" iff running
  prog,       \* flash programmer state (GET /flash)
  progOp,     \* the operation the programmer runs: "write" or "read"
  progBuf,    \* the programmer's file buffer (/flash/file)
  flash,      \* content of the DUT's flash chip
  uploaded,   \* the image is known to the image store (/images/<hash>)
  usbConf,    \* the USB function serves the image
  plugged,    \* the USB device is plugged into the DUT
  \* the runners
  pc,         \* label of the next step
  stack,      \* return labels
  res,        \* the last function returned nil (TRUE) or an error
  i,          \* loop counter of the LED trials
  arg,        \* argument of the leaf function called (wantState / method)
  pressed,    \* powerFUSB pressed the power button to boot the DUT
  pulled,     \* content written to the local file by pullImage
  expired     \* time.Since(timestamp) >= defaultTimeout in waitTarget

dutVars  == <<reset, pdu, running>>
progVars == <<prog, progOp, progBuf, flash>>
usbVars  == <<uploaded, usbConf, plugged>>
locVars  == <<i, arg, pressed, pulled, expired>>
vars     == <<step, dutVars, progVars, usbVars, pc, stack, res, locVars>>

TypeOK ==
  /\ step \in StepConfigs
  /\ reset \in {"on", "off"} /\ pdu \in BOOLEAN /\ running \in BOOLEAN
  /\ prog \in ProgStates /\ progOp \in {"write", "read"}
  /\ progBuf \in Images \cup {"none"} /\ flash \in Images
  /\ uploaded \in BOOLEAN /\ usbConf \in BOOLEAN /\ plugged \in BOOLEAN
  /\ pc \in [Runners -> Labels]
  /\ stack \in [Runners -> Seq(Labels)]
  /\ res \in [Runners -> BOOLEAN]
  /\ i \in [Runners -> 0 .. Trials]
  /\ arg \in [Runners -> {"on", "off", "PUT", "DELETE", "none"}]
  /\ pressed \in [Runners -> BOOLEAN]
  /\ pulled \in [Runners -> Images \cup {"none"}]
  /\ expired \in [Runners -> BOOLEAN]

Powered(rs, p) == p /\ rs = "off"
Led == IF running THEN "on" ELSE "off"

\* The device before the step: any power state, the programmer idle.
Init ==
  /\ step \in StepConfigs
  /\ reset \in {"on", "off"} /\ pdu \in BOOLEAN
  /\ running \in IF Powered(reset, pdu) THEN BOOLEAN ELSE {FALSE}
  /\ prog \in {"ready", "error"} /\ progOp = "write"
  /\ progBuf = "none" /\ flash = "old"
  /\ uploaded \in BOOLEAN /\ usbConf = FALSE /\ plugged \in BOOLEAN
  /\ pc = [r \in Runners |-> IF r \in StepRunners(step) THEN "start" ELSE "done"]
  /\ stack = [r \in Runners |-> <<"done">>]
  /\ res = [r \in Runners |-> TRUE]
  /\ i = [r \in Runners |-> 0]
  /\ arg = [r \in Runners |-> "none"]
  /\ pressed = [r \in Runners |-> FALSE]
  /\ pulled = [r \in Runners |-> "none"]
  /\ expired = [r \in Runners |-> FALSE]

-----------------------------------------------------------------------------
(* Control of a runner                                                     *)

Goto(r, l) == /\ pc' = [pc EXCEPT ![r] = l]
              /\ UNCHANGED <<stack, res>>
\* Continue at l as if a call that was skipped had returned nil.
Skip(r, l) == /\ pc' = [pc EXCEPT ![r] = l]
              /\ res' = [res EXCEPT ![r] = TRUE]
              /\ UNCHANGED stack
Call(r, l, ret) == /\ pc' = [pc EXCEPT ![r] = l]
                   /\ stack' = [stack EXCEPT ![r] = <<ret>> \o @]
                   /\ UNCHANGED res
Return(r, ok) == /\ pc' = [pc EXCEPT ![r] = Head(stack[r])]
                 /\ stack' = [stack EXCEPT ![r] = Tail(@)]
                 /\ res' = [res EXCEPT ![r] = ok]
SetArg(r, a) == arg' = [arg EXCEPT ![r] = a]

\* The DUT after the reset line or the PDU changed: it is down unless
\* powered and out of reset; newly powered, it may or may not boot.
RunningAfter(rs, p) ==
  IF ~Powered(rs, p) THEN {FALSE}
  ELSE IF Powered(reset, pdu) THEN {running} ELSE BOOLEAN

-----------------------------------------------------------------------------
(* Leaf functions of power.go: the reset line and the PDU                  *)

\* postReset, POST /reset (lines 322-352): the request may switch the
\* reset line or not (a 200 is verified below, a failure may have been
\* applied before the response was lost).
PostReset(r) ==
  /\ pc[r] = "postReset"
  /\ \E v \in {arg[r], reset} :
       /\ reset' = v
       /\ running' \in RunningAfter(v, pdu)
  /\ \/ Goto(r, "postReset_v")
     \/ Return(r, FALSE)
  /\ UNCHANGED <<step, pdu, progVars, usbVars, locVars>>

\* postReset after a 200 (lines 353-364): getState(reset) must read back
\* the state asked for.
PostResetVerify(r) ==
  /\ pc[r] = "postReset_v"
  /\ Return(r, reset = arg[r])
  /\ UNCHANGED <<step, dutVars, progVars, usbVars, locVars>>

\* pressPDU, PUT (on) or DELETE (off) on /power (lines 278-299).
PressPDU(r) ==
  /\ pc[r] = "pressPDU"
  /\ \E v \in {arg[r] = "PUT", pdu} :
       /\ pdu' = v
       /\ running' \in RunningAfter(reset, v)
  /\ \/ Goto(r, "pressPDU_v")
     \/ Return(r, FALSE)
  /\ UNCHANGED <<step, reset, progVars, usbVars, locVars>>

\* getPDUState (power.go 431-459): GET .../power answers whether the PDU
\* outlet is powered.  Its failures (transport, status, body) are CallFails.
GetPDUState == pdu

\* pressPDU after a 200 (lines 300-313): getPDUState must read back the
\* state the method asked for.
PressPDUVerify(r) ==
  /\ pc[r] = "pressPDU_v"
  /\ Return(r, GetPDUState = (arg[r] = "PUT"))
  /\ UNCHANGED <<step, dutVars, progVars, usbVars, locVars>>

\* resetDUT (lines 463-477): reset on, then the PDU off.
ResetDUT(r) ==
  /\ pc[r] = "resetDUT"
  /\ Call(r, "postReset", "resetDUT_1")
  /\ SetArg(r, "on")
  /\ UNCHANGED <<step, dutVars, progVars, usbVars, i, pressed, pulled, expired>>

ResetDUTPdu(r) ==
  /\ pc[r] = "resetDUT_1"
  /\ \/ ~res[r] /\ Return(r, FALSE) /\ UNCHANGED arg
     \/ res[r] /\ Goto(r, "pressPDU") /\ SetArg(r, "DELETE")
  /\ UNCHANGED <<step, dutVars, progVars, usbVars, i, pressed, pulled, expired>>

\* unresetDUT (lines 481-495): reset off, then the PDU on.
UnresetDUT(r) ==
  /\ pc[r] = "unresetDUT"
  /\ Call(r, "postReset", "unresetDUT_1")
  /\ SetArg(r, "off")
  /\ UNCHANGED <<step, dutVars, progVars, usbVars, i, pressed, pulled, expired>>

UnresetDUTPdu(r) ==
  /\ pc[r] = "unresetDUT_1"
  /\ \/ ~res[r] /\ Return(r, FALSE) /\ UNCHANGED arg
     \/ res[r] /\ Goto(r, "pressPDU") /\ SetArg(r, "PUT")
  /\ UNCHANGED <<step, dutVars, progVars, usbVars, i, pressed, pulled, expired>>

-----------------------------------------------------------------------------
(* powerOn, powerFUSB and mountImage                                       *)

\* A press of the power button over the FUSB adapter: it toggles a powered
\* DUT, or is not taken; it does nothing to an unpowered one.
Press == running' \in IF Powered(reset, pdu) THEN {running, ~running} ELSE {running}

\* powerOn (lines 98-107): unresetDUT, then powerFUSB in a FUSB context.
PowerOn(r) ==
  /\ pc[r] = "powerOn"
  /\ Call(r, "unresetDUT", "powerOn_1")
  /\ UNCHANGED <<step, dutVars, progVars, usbVars, locVars>>

PowerOnFUSB(r) ==
  /\ pc[r] = "powerOn_1"
  /\ \/ ~res[r] /\ Return(r, FALSE)
     \/ res[r] /\ step.fusb /\ Goto(r, "fusb_read1")
     \/ res[r] /\ ~step.fusb /\ Return(r, TRUE)
  /\ UNCHANGED <<step, dutVars, progVars, usbVars, locVars>>

\* Mutant: the trial loop counts i <= trials.
MoreTrialsInclusive(r) == i[r] <= Trials

\* for i := 0; i < trials; i++ (lines 121, 151, 201, 223).
MoreTrials(r) == i[r] + 1 < Trials

\* One of the Trials reads of the LED over /api/fusb; only the value of the
\* last read is kept (a failed read is CallFails).
LedTrial(r, last(_)) ==
  \/ /\ MoreTrials(r)
     /\ i' = [i EXCEPT ![r] = @ + 1]
     /\ UNCHANGED <<pc, stack, res>>
  \/ /\ i[r] + 1 = Trials
     /\ i' = [i EXCEPT ![r] = 0]
     /\ last(Led)

\* powerFUSB, first check (lines 121-148): an "off" LED mounts the image
\* (if one is set) and presses the button; an "on" LED returns at once.
PowerFUSBCheck(r) ==
  /\ pc[r] = "fusb_read1"
  /\ LedTrial(r, LAMBDA led :
        \/ led = "off" /\ step.image /\ Call(r, "mount", "fusb_press")
        \/ led = "off" /\ ~step.image /\ Skip(r, "fusb_press")
        \/ led = "on" /\ Return(r, TRUE))
  /\ UNCHANGED <<step, dutVars, progVars, usbVars, arg, pressed, pulled, expired>>

\* Lines 132-143: a failed mount returns; otherwise postFusbPower
\* (lines 253-273) presses the power button.
PowerFUSBPress(r) ==
  /\ pc[r] = "fusb_press"
  /\ \/ ~res[r] /\ Return(r, FALSE) /\ UNCHANGED <<running, pressed>>
     \/ /\ res[r]
        /\ Press
        /\ \/ Return(r, FALSE) /\ UNCHANGED pressed
           \/ Goto(r, "fusb_read2") /\ pressed' = [pressed EXCEPT ![r] = TRUE]
  /\ UNCHANGED <<step, reset, pdu, progVars, usbVars, i, arg, pulled, expired>>

\* Mutant: the LED read after the press is not compared with "on".
PowerFUSBVerifyUnchecked(r) ==
  /\ pc[r] = "fusb_read2"
  /\ LedTrial(r, LAMBDA led : Return(r, TRUE))
  /\ UNCHANGED <<step, dutVars, progVars, usbVars, arg, pressed, pulled, expired>>

\* Lines 151-164: the LED must read "on" at the last trial.
PowerFUSBVerify(r) ==
  /\ pc[r] = "fusb_read2"
  /\ LedTrial(r, LAMBDA led : Return(r, led = "on"))
  /\ UNCHANGED <<step, dutVars, progVars, usbVars, arg, pressed, pulled, expired>>

\* mountImage (image.go lines 18-28): calcSHA256 reads the local image;
\* checkMountImage (lines 54-73) asks the image store for it; any error
\* there leads to postMountImage.
MountImage(r) ==
  /\ pc[r] = "mount"
  /\ \/ Goto(r, "mount_post")
     \/ uploaded /\ Goto(r, "mount_plugchk")
  /\ UNCHANGED <<step, dutVars, progVars, usbVars, locVars>>

\* postMountImage (image.go lines 75-123), POST /images/.
MountPost(r) ==
  /\ pc[r] = "mount_post"
  /\ uploaded' \in {uploaded, TRUE}
  /\ \/ Return(r, FALSE)
     \/ uploaded' /\ Goto(r, "mount_plugchk")
  /\ UNCHANGED <<step, dutVars, progVars, usbConf, plugged, locVars>>

\* checkUSBPlug (image.go lines 30-33, 125-152).
MountCheckPlug(r) ==
  /\ pc[r] = "mount_plugchk"
  /\ \/ plugged /\ Goto(r, "mount_unplug")
     \/ ~plugged /\ Goto(r, "mount_conf")
  /\ UNCHANGED <<step, dutVars, progVars, usbVars, locVars>>

\* plugUSB(unplug) (image.go lines 35-39, 159-187, DELETE /usb/plug).
MountUnplug(r) ==
  /\ pc[r] = "mount_unplug"
  /\ plugged' \in {plugged, FALSE}
  /\ \/ Return(r, FALSE)
     \/ ~plugged' /\ Goto(r, "mount_conf")
  /\ UNCHANGED <<step, dutVars, progVars, uploaded, usbConf, locVars>>

\* configureUSB (image.go lines 41-43, 193-224), PUT /usb/functions.
MountConfigure(r) ==
  /\ pc[r] = "mount_conf"
  /\ usbConf' \in {usbConf, TRUE}
  /\ \/ Return(r, FALSE)
     \/ usbConf' /\ Goto(r, "mount_plug")
  /\ UNCHANGED <<step, dutVars, progVars, uploaded, plugged, locVars>>

\* plugUSB(plug) (PUT /usb/plug) and the end of mountImage (image.go
\* lines 45-51).
MountPlug(r) ==
  /\ pc[r] = "mount_plug"
  /\ plugged' \in {plugged, TRUE}
  /\ \/ Return(r, FALSE)
     \/ plugged' /\ Return(r, TRUE)
  /\ UNCHANGED <<step, dutVars, progVars, uploaded, usbConf, locVars>>

-----------------------------------------------------------------------------
(* powerOffSoft                                                            *)

PowerOffSoftEntry == IF step.fusb THEN "offs_read1" ELSE "offs_pdu1"

\* Context without FUSB (lines 175-188): read the PDU, switch it off if on.
PowerOffSoftPdu(r) ==
  /\ pc[r] = "offs_pdu1"
  /\ \/ GetPDUState /\ Call(r, "pressPDU", "offs_pdu2") /\ SetArg(r, "DELETE")
     \/ ~GetPDUState /\ Skip(r, "offs_pdu2") /\ UNCHANGED arg
  /\ UNCHANGED <<step, dutVars, progVars, usbVars, i, pressed, pulled, expired>>

\* Lines 190-199: the PDU must read off.
PowerOffSoftPduCheck(r) ==
  /\ pc[r] = "offs_pdu2"
  /\ \/ ~res[r] /\ Return(r, FALSE)
     \/ res[r] /\ Return(r, ~GetPDUState)
  /\ UNCHANGED <<step, dutVars, progVars, usbVars, locVars>>

\* FUSB context (lines 201-214): an LED that is not "on" at the last trial
\* means already off.
PowerOffSoftCheck(r) ==
  /\ pc[r] = "offs_read1"
  /\ LedTrial(r, LAMBDA led :
        \/ led # "on" /\ Return(r, TRUE)
        \/ led = "on" /\ Goto(r, "offs_press"))
  /\ UNCHANGED <<step, dutVars, progVars, usbVars, arg, pressed, pulled, expired>>

\* Lines 216-221: postFusbPower presses the power button.
PowerOffSoftPress(r) ==
  /\ pc[r] = "offs_press"
  /\ Press
  /\ \/ Return(r, FALSE)
     \/ Goto(r, "offs_read2")
  /\ UNCHANGED <<step, reset, pdu, progVars, usbVars, locVars>>

\* Lines 223-236: the LED must read "off" at the last trial.
PowerOffSoftVerify(r) ==
  /\ pc[r] = "offs_read2"
  /\ LedTrial(r, LAMBDA led : Return(r, led = "off"))
  /\ UNCHANGED <<step, dutVars, progVars, usbVars, arg, pressed, pulled, expired>>

-----------------------------------------------------------------------------
(* powerCmds (lines 33-95) and flashCmds (flash.go lines 29-54)            *)

\* The command of the step: "off" and "reboot" take a second argument,
\* which always adds a hard reset (powerOffHard is resetDUT).
PowerCmds(r) ==
  /\ pc[r] = "start"
  /\ \/ step.cmd = "on" /\ Goto(r, "powerOn")
     \/ step.cmd = "off" /\ Call(r, PowerOffSoftEntry, "off_soft_ret")
     \/ step.cmd = "reboot" /\ step.hard /\ Call(r, "resetDUT", "reboot_on")
     \/ step.cmd = "reboot" /\ ~step.hard /\ Call(r, PowerOffSoftEntry, "reboot_soft_ret")
     \/ step.cmd = "write" /\ Goto(r, "fw")
     \/ step.cmd = "read" /\ Goto(r, "fr")
  /\ UNCHANGED <<step, dutVars, progVars, usbVars, locVars>>

\* "off" after powerOffSoft (lines 45-59): on an error fall back to
\* powerOffHard; then a second argument resets hard once more.
OffHardArg(r) ==
  \/ step.hard /\ Goto(r, "resetDUT")
  \/ ~step.hard /\ Return(r, TRUE)

OffSoftReturned(r) ==
  /\ pc[r] = "off_soft_ret"
  /\ \/ ~res[r] /\ Call(r, "resetDUT", "off_fallback_ret")
     \/ res[r] /\ OffHardArg(r)
  /\ UNCHANGED <<step, dutVars, progVars, usbVars, locVars>>

OffFallbackReturned(r) ==
  /\ pc[r] = "off_fallback_ret"
  /\ \/ ~res[r] /\ Return(r, FALSE)
     \/ res[r] /\ OffHardArg(r)
  /\ UNCHANGED <<step, dutVars, progVars, usbVars, locVars>>

\* "reboot" (lines 64-79): a soft power-off that fails falls back to a hard
\* one.
RebootSoftReturned(r) ==
  /\ pc[r] = "reboot_soft_ret"
  /\ \/ ~res[r] /\ Call(r, "resetDUT", "reboot_on")
     \/ res[r] /\ Goto(r, "powerOn")
  /\ UNCHANGED <<step, dutVars, progVars, usbVars, locVars>>

\* Lines 69-71, 75-77 and 81-87: an error of powerOffHard returns it,
\* otherwise powerOn.
RebootOn(r) ==
  /\ pc[r] = "reboot_on"
  /\ \/ ~res[r] /\ Return(r, FALSE)
     \/ res[r] /\ Goto(r, "powerOn")
  /\ UNCHANGED <<step, dutVars, progVars, usbVars, locVars>>

-----------------------------------------------------------------------------
(* flashWrite, flashRead, waitTarget (flash.go)                            *)

\* Mutant: flashing starts without resetDUT.
FlashWriteNoReset(r) ==
  /\ pc[r] = "fw"
  /\ Skip(r, "fw_state")
  /\ UNCHANGED <<step, dutVars, progVars, usbVars, locVars>>

\* flashWrite (lines 57-64): resetDUT first.
FlashWrite(r) ==
  /\ pc[r] = "fw"
  /\ Call(r, "resetDUT", "fw_state")
  /\ UNCHANGED <<step, dutVars, progVars, usbVars, locVars>>

FlashRead(r) ==
  /\ pc[r] = "fr"
  /\ Call(r, "resetDUT", "fr_state")
  /\ UNCHANGED <<step, dutVars, progVars, usbVars, locVars>>

\* Lines 66-75 and 110-119: getTargetState once; a busy programmer is an
\* error, any other answer goes on.
FlashCheckBusy(r) ==
  /\ pc[r] \in {"fw_state", "fr_state"}
  /\ \/ ~res[r] /\ Return(r, FALSE)
     \/ res[r] /\ prog = "busy" /\ Return(r, FALSE)
     \/ /\ res[r] /\ prog # "busy"
        /\ Goto(r, IF pc[r] = "fw_state" THEN "fw_post" ELSE "fr_read")
  /\ UNCHANGED <<step, dutVars, progVars, usbVars, locVars>>

\* postImage (lines 77-79, 204-246): PUT /flash/file fills the buffer.
FlashWritePost(r) ==
  /\ pc[r] = "fw_post"
  /\ progBuf' \in {progBuf, "new"}
  /\ \/ Return(r, FALSE)
     \/ progBuf' = "new" /\ Goto(r, "fw_flash")
  /\ UNCHANGED <<step, dutVars, prog, progOp, flash, usbVars, locVars>>

\* flashTarget / readTarget (lines 81-83, 121-124, 253-296): POST /flash
\* starts the operation (201); the programmer refuses while busy.
StartProg(r, op, ret) ==
  /\ \/ /\ prog # "busy"
        /\ prog' = "busy" /\ progOp' = op
        /\ \/ Return(r, FALSE) /\ UNCHANGED expired
           \/ Call(r, "wait", ret) /\ expired' = [expired EXCEPT ![r] = FALSE]
     \/ Return(r, FALSE) /\ UNCHANGED <<prog, progOp, expired>>
  /\ UNCHANGED <<step, dutVars, progBuf, flash, usbVars, i, arg, pressed, pulled>>

FlashWriteFlash(r) == pc[r] = "fw_flash" /\ StartProg(r, "write", "fw_unreset")
FlashReadStart(r)  == pc[r] = "fr_read" /\ StartProg(r, "read", "fr_pull")

\* Mutant: an "error" state is waited out like "busy".
WaitTargetErrorAsBusy(r) ==
  /\ pc[r] = "wait"
  /\ \/ prog = "ready" /\ Return(r, TRUE)
     \/ prog \in {"busy", "error"} /\ UNCHANGED <<pc, stack, res>>
  /\ UNCHANGED <<step, dutVars, progVars, usbVars, locVars>>

\* waitTarget (lines 299-324) on a decoded state: "ready" returns nil,
\* "busy" sleeps and loops before the timeout check, "error" returns it.
WaitTarget(r) ==
  /\ pc[r] = "wait"
  /\ \/ prog = "ready" /\ Return(r, TRUE)
     \/ prog = "busy" /\ UNCHANGED <<pc, stack, res>>
     \/ prog = "error" /\ Return(r, FALSE)
  /\ UNCHANGED <<step, dutVars, progVars, usbVars, locVars>>

\* getTargetState ignores the status code: an error answer decodes to an
\* empty state, the only case that reaches the timeout check (lines
\* 318-320); before the timeout the loop goes round without a sleep.
WaitErrorBody(r) ==
  /\ pc[r] = "wait"
  /\ \/ expired[r] /\ Return(r, FALSE)
     \/ ~expired[r] /\ UNCHANGED <<pc, stack, res>>
  /\ UNCHANGED <<step, dutVars, progVars, usbVars, locVars>>

\* Time passes in waitTarget until defaultTimeout has elapsed.
Tick(r) ==
  /\ pc[r] = "wait" /\ ~expired[r]
  /\ expired' = [expired EXCEPT ![r] = TRUE]
  /\ UNCHANGED <<step, dutVars, progVars, usbVars, pc, stack, res, i, arg, pressed, pulled>>

\* Lines 85-91: an error of waitTarget returns, otherwise unresetDUT.
FlashWriteUnreset(r) ==
  /\ pc[r] = "fw_unreset"
  /\ \/ ~res[r] /\ Return(r, FALSE)
     \/ res[r] /\ Goto(r, "unresetDUT")
  /\ UNCHANGED <<step, dutVars, progVars, usbVars, locVars>>

\* Lines 126-136 and pullImage (lines 175-201): GET /flash/file into the
\* local file, then unresetDUT.
FlashReadPull(r) ==
  /\ pc[r] = "fr_pull"
  /\ \/ ~res[r] /\ Return(r, FALSE) /\ UNCHANGED pulled
     \/ /\ res[r]
        /\ pulled' = [pulled EXCEPT ![r] = progBuf]
        /\ Goto(r, "unresetDUT")
  /\ UNCHANGED <<step, dutVars, progVars, usbVars, i, arg, pressed, expired>>

\* The programmer finishes: a write copies its buffer to the chip, a read
\* the chip to its buffer; or it fails.
ProgDone ==
  /\ prog = "busy"
  /\ \/ /\ prog' = "ready"
        /\ IF progOp = "write"
           THEN flash' = progBuf /\ UNCHANGED progBuf
           ELSE progBuf' = flash /\ UNCHANGED flash
     \/ prog' = "error" /\ UNCHANGED <<progBuf, flash>>
  /\ UNCHANGED <<step, dutVars, progOp, usbVars, pc, stack, res, locVars>>

\* A call that leaves the device as it was fails (transport error, an
\* unexpected status or an undecodable body; for "mount", the local image
\* cannot be read): the function returns the error.
CallLabels ==
  {"postReset_v", "pressPDU_v", "fusb_read1", "fusb_read2", "offs_pdu1",
   "offs_pdu2", "offs_read1", "offs_read2", "mount", "mount_plugchk",
   "fw_state", "fr_state", "wait", "fr_pull"}

CallFails(r) ==
  /\ pc[r] \in CallLabels /\ res[r]
  /\ Return(r, FALSE)
  /\ i' = [i EXCEPT ![r] = 0]
  /\ UNCHANGED <<step, dutVars, progVars, usbVars, arg, pressed, pulled, expired>>

\* Every runner has returned.
Terminated ==
  /\ \A r \in Runners : pc[r] = "done"
  /\ UNCHANGED vars

RunnerStep(r) ==
  \/ PowerCmds(r) \/ OffSoftReturned(r) \/ OffFallbackReturned(r)
  \/ RebootSoftReturned(r) \/ RebootOn(r)
  \/ PowerOn(r) \/ PowerOnFUSB(r)
  \/ PowerFUSBCheck(r) \/ PowerFUSBPress(r) \/ PowerFUSBVerify(r)
  \/ MountImage(r) \/ MountPost(r) \/ MountCheckPlug(r) \/ MountUnplug(r)
  \/ MountConfigure(r) \/ MountPlug(r)
  \/ PowerOffSoftPdu(r) \/ PowerOffSoftPduCheck(r) \/ PowerOffSoftCheck(r)
  \/ PowerOffSoftPress(r) \/ PowerOffSoftVerify(r)
  \/ ResetDUT(r) \/ ResetDUTPdu(r) \/ UnresetDUT(r) \/ UnresetDUTPdu(r)
  \/ PostReset(r) \/ PostResetVerify(r) \/ PressPDU(r) \/ PressPDUVerify(r)
  \/ FlashWrite(r) \/ FlashRead(r) \/ FlashCheckBusy(r) \/ FlashWritePost(r)
  \/ FlashWriteFlash(r) \/ FlashReadStart(r) \/ WaitTarget(r)
  \/ FlashWriteUnreset(r) \/ FlashReadPull(r)

Next ==
  \/ \E r \in Runners : RunnerStep(r) \/ CallFails(r) \/ WaitErrorBody(r) \/ Tick(r)
  \/ ProgDone
  \/ Terminated

\* Each target goroutine is scheduled and the programmer finishes the
\* operation it was given.  Failures of the service are not forced.
Fairness ==
  /\ \A r \in Runners : WF_vars(RunnerStep(r))
  /\ WF_vars(ProgDone)

Spec == Init /\ [][Next]_vars /\ Fairness

-----------------------------------------------------------------------------
(* Properties                                                              *)

\* resetDUT's comment (power.go lines 461-462): flash operations are safe
\* only while the DUT is held in reset with the PDU off.  The programmer
\* must never be busy while the DUT is out of reset or powered: flashWrite
\* and flashRead reset the DUT before they start the programmer and release
\* it only after waitTarget saw "ready".
FlashOnlyInReset == prog = "busy" => reset = "on" /\ ~pdu

\* What a command that returned nil promises about the device: powerOn
\* leaves reset off and the PDU on (and, with FUSB, the DUT up, and the
\* image uploaded, configured and plugged at the end if it pressed the
\* button; whether the DUT booted while the image was plugged is not
\* looked at); "off" leaves the DUT down,
\* held in reset with the PDU off after a hard reset; a flash write leaves
\* the step's file on the chip, a flash read the chip's content in the
\* local file, and both release the DUT.  Each rests on the read-back
\* checks of postReset, pressPDU, powerFUSB and waitTarget.
CommandOutcome(r) ==
  CASE step.cmd \in {"on", "reboot"} ->
         /\ reset = "off" /\ pdu
         /\ step.fusb => running
         /\ pressed[r] /\ step.image => uploaded /\ usbConf /\ plugged
    [] step.cmd = "off" ->
         /\ ~running
         /\ step.hard => reset = "on" /\ ~pdu
    [] step.cmd = "write" -> flash = "new" /\ reset = "off" /\ pdu
    [] step.cmd = "read" -> pulled[r] = flash /\ reset = "off" /\ pdu

\* Every target of the step has returned.
StepReturned == \A r \in StepRunners(step) : pc[r] = "done"

\* ForEachTarget reports the step passed on every target only when each
\* runner returned nil; the device must then be in the state the command
\* asks for.  Two targets of one power step drive the same device in
\* concurrent goroutines: a runner's press of the power button or PDU
\* switch can land between another's action and its read-back (pressPDU,
\* lines 300-313; powerFUSB, lines 151-164), and powerOffSoft falls back
\* to a hard reset when its check fails (lines 45-51).
StepOutcomeHolds ==
  StepReturned /\ (\A r \in StepRunners(step) : res[r])
    => \A r \in StepRunners(step) : CommandOutcome(r)

\* Every runner returns, even when the service never fails a call:
\* waitTarget's loop ends once the programmer has finished, whatever the
\* outcome, and every other step is one call.
RunnersReturn == \A r \in Runners : <>(pc[r] = "done")

=============================================================================
