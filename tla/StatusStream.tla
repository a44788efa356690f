---------------------------- MODULE StatusStream ----------------------------
(***************************************************************************)
(* The live-status path of the gRPC listener                               *)
(* (plugins/listeners/grpclistener/grpclistener.go):                       *)
(*                                                                         *)
(*  - StartJob creates an output buffer, registers it as a writer on the   *)
(*    server's one shared context s.ctx, starts the job through the API    *)
(*    with that same context, and then records the buffer in               *)
(*    GRPCServer.Endpoints under the job id the API returned;              *)
(*  - a running job writes its step output to the writers of s.ctx;        *)
(*  - StatusJob sends one report, then polls: it reads the job state, reads *)
(*    at most Chunk bytes from the job's buffer, decodes them and streams  *)
(*    them to the client.                                                  *)
(*                                                                         *)
(* Requests run concurrently (one goroutine per request).  Bytes are       *)
(* abstracted to units: a record of size s is s consecutive units that     *)
(* carry the record's identity, so that a read that splits or merges       *)
(* records is visible.                                                     *)
(***************************************************************************)
EXTENDS Naturals, Sequences, SequencesExt

CONSTANTS
  Calls,        \* StartJob requests; each one owns the buffer it creates
  Clients,      \* StatusJob requests
  Chunk,        \* size of the read buffer, make([]byte, 1024)
  RecordSizes,  \* sizes of the records a job writes to its context writer
  MaxRecords,   \* bound: records written by one job
  NoBuffer      \* model value: no Endpoints entry for a job id

ASSUME /\ Chunk \in Nat \ {0}
       /\ RecordSizes \subseteq Nat \ {0}
       /\ MaxRecords \in Nat \ {0}
       /\ NoBuffer \notin Calls

JobIds   == 1 .. Cardinality(Calls)
States   == {"started", "completed", "failed", "cancelled"}
Terminal == States \ {"started"}
Unit     == [job : JobIds, rec : 1 .. MaxRecords, idx : Nat, size : RecordSizes]
Msg      == [state : States, data : Seq(Unit)]
Done     == {"ok", "err"}

VARIABLES
  startPc,    \* per StartJob call: "idle", "starting" (API returned), "done"
  callJob,    \* r.JobID of each StartJob call (0 before api.Start returns)
  writers,    \* buffers added to s.ctx by s.ctx.AddWriter(w)
  endpoints,  \* GRPCServer.Endpoints: job id -> buffer, or NoBuffer
  buf,        \* unread content of each buffer
  nextId,     \* last job id issued by api.Start
  jobState,   \* state reported by api.Status ("none" before the job exists)
  written,    \* records written so far by each job
  spc,        \* per StatusJob call: "idle", "poll", "read", "ok", "err"
  sjob,       \* req.Msg.JobId of each StatusJob call
  sstate,     \* r.Status.State read by the last getResponseFromAPI
  stream,     \* messages sent on each StatusJob stream
  connected,  \* whether the StatusJob client is still connected
  crashed     \* the Go runtime aborted the server process

startVars  == <<startPc, callJob, writers, endpoints, nextId>>
jobVars    == <<buf, jobState, written>>
statusVars == <<spc, sjob, sstate, stream, connected>>
vars       == <<startVars, jobVars, statusVars, crashed>>

TypeOK ==
  /\ startPc   \in [Calls -> {"idle", "starting", "storing", "done"}]
  /\ callJob   \in [Calls -> JobIds \cup {0}]
  /\ writers   \subseteq Calls
  /\ endpoints \in [JobIds -> Calls \cup {NoBuffer}]
  /\ buf       \in [Calls -> Seq(Unit)]
  /\ nextId    \in 0 .. Cardinality(Calls)
  /\ jobState  \in [JobIds -> States \cup {"none"}]
  /\ written   \in [JobIds -> 0 .. MaxRecords]
  /\ spc       \in [Clients -> {"idle", "poll", "read"} \cup Done]
  /\ sjob      \in [Clients -> JobIds \cup {0}]
  /\ sstate    \in [Clients -> States \cup {"none"}]
  /\ stream    \in [Clients -> Seq(Msg)]
  /\ connected \in [Clients -> BOOLEAN]
  /\ crashed   \in BOOLEAN

Init ==
  /\ startPc   = [c \in Calls |-> "idle"]
  /\ callJob   = [c \in Calls |-> 0]
  /\ writers   = {}
  /\ endpoints = [j \in JobIds |-> NoBuffer]
  /\ buf       = [c \in Calls |-> <<>>]
  /\ nextId    = 0
  /\ jobState  = [j \in JobIds |-> "none"]
  /\ written   = [j \in JobIds |-> 0]
  /\ spc       = [cl \in Clients |-> "idle"]
  /\ sjob      = [cl \in Clients |-> 0]
  /\ sstate    = [cl \in Clients |-> "none"]
  /\ stream    = [cl \in Clients |-> <<>>]
  /\ connected = [cl \in Clients |-> TRUE]
  /\ crashed   = FALSE

-----------------------------------------------------------------------------
(* StartJob                                                                *)

\* Lines 86-112.  The buffer is added to s.ctx before any check.  A nil job,
\* an unset requestor or an error of api.Start returns JobId 0; otherwise
\* api.Start issues the next job id and the job starts running.
StartJob(c) ==
  /\ startPc[c] = "idle"
  /\ writers' = writers \cup {c}
  /\ \/ /\ startPc' = [startPc EXCEPT ![c] = "done"]
        /\ UNCHANGED <<callJob, nextId, jobState>>
     \/ /\ nextId' = nextId + 1
        /\ jobState' = [jobState EXCEPT ![nextId + 1] = "started"]
        /\ callJob' = [callJob EXCEPT ![c] = nextId + 1]
        /\ startPc' = [startPc EXCEPT ![c] = "starting"]
  /\ UNCHANGED <<endpoints, buf, written, statusVars>>

\* Line 120 begins the assignment s.Endpoints[id] = ...: the Go map is
\* marked as being written while its buckets are updated.  No lock guards
\* GRPCServer.Endpoints.
BeginStore(c) ==
  /\ startPc[c] = "starting"
  /\ startPc' = [startPc EXCEPT ![c] = "storing"]
  /\ UNCHANGED <<callJob, writers, endpoints, nextId, jobVars, statusVars, crashed>>

\* Lines 114-127: the buffer is stored under the id api.Start returned, and
\* StartJob answers.
RegisterEndpoint(c) ==
  /\ startPc[c] = "storing"
  /\ endpoints' = [endpoints EXCEPT ![callJob[c]] = c]
  /\ startPc' = [startPc EXCEPT ![c] = "done"]
  /\ UNCHANGED <<callJob, writers, nextId, jobVars, statusVars, crashed>>

\* A goroutine about to access GRPCServer.Endpoints: a StartJob about to
\* store (line 120), a StatusJob about to look its job up (137) or to
\* fetch its buffer (191).
AboutToAccessMap ==
  \/ \E c \in Calls : startPc[c] = "starting"
  \/ \E cl \in Clients : spc[cl] \in {"idle", "read"}

\* Concurrent map access is a data race; the Go runtime detects a read or
\* a write that meets a write in progress, at least some of the time, and
\* ends the process with "fatal error: concurrent map read and map write"
\* (or "concurrent map writes").  When it does not, the access goes ahead.
MapAccessRace ==
  /\ \E c \in Calls : startPc[c] = "storing"
  /\ AboutToAccessMap
  /\ crashed' = TRUE
  /\ UNCHANGED <<startVars, jobVars, statusVars>>

-----------------------------------------------------------------------------
(* The running job.  Every job runs with s.ctx, so its output goes to all  *)
(* writers registered on s.ctx at the time of the write.                   *)

Record(j, n, s) == [i \in 1 .. s |-> [job |-> j, rec |-> n, idx |-> i, size |-> s]]

JobWrite(j, s) ==
  /\ jobState[j] = "started"
  /\ written[j] < MaxRecords
  /\ written' = [written EXCEPT ![j] = @ + 1]
  /\ buf' = [b \in Calls |->
               IF b \in writers THEN buf[b] \o Record(j, written[j] + 1, s)
                                ELSE buf[b]]
  /\ UNCHANGED <<jobState, startVars, statusVars>>

JobEnd(j, st) ==
  /\ jobState[j] = "started"
  /\ jobState' = [jobState EXCEPT ![j] = st]
  /\ UNCHANGED <<buf, written, startVars, statusVars>>

-----------------------------------------------------------------------------
(* StatusJob                                                               *)

\* stream.Send: delivered to a connected client, an error otherwise.
Send(cl, m, then) ==
  IF connected[cl]
  THEN /\ stream' = [stream EXCEPT ![cl] = Append(@, m)]
       /\ spc' = [spc EXCEPT ![cl] = then]
  ELSE /\ spc' = [spc EXCEPT ![cl] = "err"]
       /\ UNCHANGED stream

\* Lines 131-141: unset requestor, or no Endpoints entry for the job id.
StatusReject(cl, id) ==
  /\ spc[cl] = "idle"
  /\ \E requestorSet \in BOOLEAN : ~requestorSet \/ endpoints[id] = NoBuffer
  /\ sjob' = [sjob EXCEPT ![cl] = id]
  /\ spc' = [spc EXCEPT ![cl] = "err"]
  /\ UNCHANGED <<sstate, stream, connected, startVars, jobVars>>

\* getResponseFromAPI (lines 262-278): api.Status answers the state of a
\* job it issued the id of (spec 4.1), so its error paths are not taken.
GetResponseFromAPI(id) == jobState[id]

\* Mutant: the Endpoints lookup of lines 137-141 is left out.
StatusFirstReportNoLookup(cl, id) ==
  /\ spc[cl] = "idle"
  /\ sjob' = [sjob EXCEPT ![cl] = id]
  /\ sstate' = [sstate EXCEPT ![cl] = GetResponseFromAPI(id)]
  /\ Send(cl, [state |-> GetResponseFromAPI(id), data |-> <<>>],
          IF GetResponseFromAPI(id) = "completed" THEN "ok" ELSE "poll")
  /\ UNCHANGED <<connected, startVars, jobVars>>

\* Lines 143-173: the first report; the call ends if the job is completed.
StatusFirstReport(cl, id) ==
  /\ spc[cl] = "idle"
  /\ endpoints[id] # NoBuffer
  /\ sjob' = [sjob EXCEPT ![cl] = id]
  /\ sstate' = [sstate EXCEPT ![cl] = GetResponseFromAPI(id)]
  /\ Send(cl, [state |-> GetResponseFromAPI(id), data |-> <<>>],
          IF GetResponseFromAPI(id) = "completed" THEN "ok" ELSE "poll")
  /\ UNCHANGED <<connected, startVars, jobVars>>

\* Lines 177-188: getResponseFromAPI at the top of the polling loop.
StatusPoll(cl) ==
  /\ spc[cl] = "poll"
  /\ sstate' = [sstate EXCEPT ![cl] = GetResponseFromAPI(sjob[cl])]
  /\ spc' = [spc EXCEPT ![cl] = "read"]
  /\ UNCHANGED <<sjob, stream, connected, startVars, jobVars>>

\* json.Unmarshal(buf, ...) is applied to all Chunk bytes of buf, whatever n
\* the read returned: it succeeds only if the read filled buf with exactly
\* one whole record (trailing zero bytes, a split or two records fail).
Decodes(chunk) ==
  /\ Len(chunk) = Chunk
  /\ chunk[1].idx = 1
  /\ chunk[1].size = Chunk

\* Mutant: an empty read waits for more output and polls again (the EOF
\* wait of lines 221-227 taken before the job state is consulted).
StatusReadWaitEmpty(cl) ==
  LET b     == endpoints[sjob[cl]]
      n     == Min({Chunk, Len(buf[b])})
      chunk == SubSeq(buf[b], 1, n)
  IN /\ spc[cl] = "read"
     /\ buf' = [buf EXCEPT ![b] = SubSeq(@, n + 1, Len(@))]
     /\ IF n = 0
        THEN /\ spc' = [spc EXCEPT ![cl] = "poll"]
             /\ UNCHANGED stream
        ELSE IF Decodes(chunk)
        THEN Send(cl, [state |-> sstate[cl], data |-> chunk], "poll")
        ELSE /\ spc' = [spc EXCEPT ![cl] = "err"]
             /\ UNCHANGED stream
     /\ UNCHANGED <<sjob, sstate, connected, startVars, jobState, written>>

\* Lines 190-231 (and the report after the loop, 233-261).  The read takes
\* min(Chunk, available) bytes off the shared buffer.  A chunk that does not
\* decode ends the call with an error.  A chunk that decodes has n = Chunk,
\* so it is sent and line 210 continues the loop: the break at line 217, the
\* EOF wait at 221-227 and the final report at 233-261 are never reached.
StatusRead(cl) ==
  LET b     == endpoints[sjob[cl]]
      n     == Min({Chunk, Len(buf[b])})
      chunk == SubSeq(buf[b], 1, n)
  IN /\ spc[cl] = "read"
     /\ buf' = [buf EXCEPT ![b] = SubSeq(@, n + 1, Len(@))]
     /\ IF Decodes(chunk)
        THEN Send(cl, [state |-> sstate[cl], data |-> chunk], "poll")
        ELSE /\ spc' = [spc EXCEPT ![cl] = "err"]
             /\ UNCHANGED stream
     /\ UNCHANGED <<sjob, sstate, connected, startVars, jobState, written>>

\* The client goes away; later sends on its stream fail.
ClientDisconnect(cl) ==
  /\ connected[cl]
  /\ spc[cl] \notin Done
  /\ connected' = [connected EXCEPT ![cl] = FALSE]
  /\ UNCHANGED <<spc, sjob, sstate, stream, startVars, jobVars>>

\* Every request has been answered and every job has ended.
Terminated ==
  /\ \A c \in Calls : startPc[c] = "done"
  /\ \A cl \in Clients : spc[cl] \in Done
  /\ \A j \in JobIds : jobState[j] # "started"
  /\ UNCHANGED vars

\* The aborted server does nothing more.
Crashed ==
  /\ crashed
  /\ UNCHANGED vars

\* What the running server's goroutines and jobs do.
Serve ==
  \/ \E c \in Calls : StartJob(c) \/ BeginStore(c) \/ RegisterEndpoint(c)
  \/ \E j \in JobIds : \/ \E s \in RecordSizes : JobWrite(j, s)
                       \/ \E st \in Terminal : JobEnd(j, st)
  \/ \E cl \in Clients :
       \/ \E id \in JobIds : StatusReject(cl, id) \/ StatusFirstReport(cl, id)
       \/ StatusPoll(cl)
       \/ StatusRead(cl)
       \/ ClientDisconnect(cl)
  \/ Terminated

Next ==
  \/ ~crashed /\ Serve /\ UNCHANGED crashed
  \/ ~crashed /\ MapAccessRace
  \/ Crashed

Spec == Init /\ [][Next]_vars

\* Each StatusJob request runs on its own goroutine, which the Go scheduler
\* keeps running while it is runnable: its steps are weakly fair as long as
\* the server process lives.  Nothing is assumed of jobs or clients.
FairSpec ==
  /\ Spec
  /\ \A cl \in Clients :
       /\ WF_vars(~crashed /\ StatusPoll(cl) /\ UNCHANGED crashed)
       /\ WF_vars(~crashed /\ StatusRead(cl) /\ UNCHANGED crashed)

-----------------------------------------------------------------------------
(* Properties                                                              *)

DataMsgs(cl) == SelectSeq(stream[cl], LAMBDA m : m.data # <<>>)

\* Spec 4.4 and 6: the status stream of an accepted job ends, for a client
\* that stays connected, only once the job is terminal and every record the
\* job wrote has been delivered.  StatusJob returns at once for a job that
\* is completed at the first report, and its polling loop ends in an error.
StreamDeliversAllThenTerminal ==
  \A cl \in Clients :
    spc[cl] \in Done /\ connected[cl] /\ stream[cl] # <<>>
      => /\ spc[cl] = "ok"
         /\ Last(stream[cl]).state \in Terminal
         /\ \A n \in 1 .. written[sjob[cl]] :
              \E i \in DOMAIN DataMsgs(cl) :
                DataMsgs(cl)[i].data[1].job = sjob[cl] /\ DataMsgs(cl)[i].data[1].rec = n

\* Spec 4.4 and 6: once the job is terminal, the status stream ends.  The
\* polling loop of StatusJob (lines 174-231) must leave on every path once
\* api.Status reports a terminal state, even when no more output comes.
StatusEndsOnceTerminal ==
  \A cl \in Clients :
    (spc[cl] \in {"poll", "read"} /\ jobState[sjob[cl]] \in Terminal)
      ~> (spc[cl] \in Done \/ crashed)

\* Spec 4.4 and 8: independent readers of one job see the same data (each
\* reader has its own cursor).  StatusJob streams read one shared buffer.
ReadersSeeSameData ==
  \A c1, c2 \in Clients :
    sjob[c1] = sjob[c2] =>
      \/ IsPrefix(DataMsgs(c1), DataMsgs(c2))
      \/ IsPrefix(DataMsgs(c2), DataMsgs(c1))

\* Spec 5 (isolation): a job's status stream carries only that job's
\* output.  Every job writes to every buffer registered on s.ctx.
StreamCarriesOwnJobOnly ==
  \A cl \in Clients : \A i \in DOMAIN DataMsgs(cl) :
    DataMsgs(cl)[i].data[1].job = sjob[cl]

\* Spec 1 and 5: one request must not take down the service that runs
\* every other job.  StartJob writes GRPCServer.Endpoints (line 120) while
\* StatusJob goroutines read it (137, 191), without a lock.
ServerSurvives == ~crashed

\* Spec 7: a rejected submission creates nothing.  StartJob registers its
\* buffer as a writer of s.ctx before validating, and never removes it.
NoOrphanWriter ==
  \A c \in writers :
    startPc[c] = "done" => \E j \in JobIds : endpoints[j] = c

=============================================================================
