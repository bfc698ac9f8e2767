------------------------------- MODULE ApiDump ------------------------------
(***************************************************************************)
(* The life of a capture session, apidump/apidump.go and apidump/net.go:   *)
(* choice of interfaces, one collector goroutine per interface (two when   *)
(* traffic outside the user's filter is counted too), the wait for a       *)
(* signal, a subcommand or errors, shutdown and the final verdict; beside  *)
(* them the goroutine that rotates learn sessions, the telemetry worker    *)
(* and the health-check server.                                            *)
(*                                                                         *)
(* pcap.Collect is one step that ends a collector, with or without error.  *)
(***************************************************************************)
EXTENDS Integers, Sequences, FiniteSets

CONSTANTS
  Interfaces,     \* network interfaces that are up
  ArgSets,        \* arguments the session may be started with
  MaxSession      \* bound on learn sessions

ASSUME ApiDumpAssumption ==
  /\ Interfaces # {} /\ IsFiniteSet(Interfaces)
  /\ ArgSets \subseteq [negation : BOOLEAN, named : BOOLEAN, localOutput : BOOLEAN,
                         execCommand : BOOLEAN, dockerMode : BOOLEAN]
  /\ MaxSession \in Nat \ {0}

Matched(i)   == [interface |-> i, state |-> "matchedFilter"]
Unmatched(i) == [interface |-> i, state |-> "notMatchedFilter"]
AllCollectors == [interface : Interfaces, state : {"matchedFilter", "notMatchedFilter"}]

VARIABLES
  args,        \* Args: set once
  pc,          \* apidump.Run
  eligible,    \* interfaces to listen on
  col,         \* each collector goroutine: none, running, done or failed
  errChan,     \* interfaces whose collectors failed, to be received
  errors,      \* keys of errorsByInterface
  subcmd,      \* subcommand: none, ok or failed
  signal,      \* SIGINT or SIGTERM is pending
  stop,        \* stop is closed
  counted,     \* a packet was counted: the summary is not empty
  result,      \* what Run returned
  session,     \* newest learn session
  sessions,    \* learn session of each backend collector
  toSwitch,    \* collectors RotateLearnSession has yet to switch
  worker,      \* TelemetryWorker: none, asleep, ticking or returned
  exited       \* the process has ended

colVars    == <<col, errChan, counted>>
rotateVars == <<session, sessions, toSwitch>>
vars == <<args, pc, eligible, colVars, errors, subcmd, signal, stop, result, rotateVars, worker, exited>>

Negation    == args.negation      \* debug: also capture what the user's filter rejects
Named       == args.named         \* the user named the interfaces
LocalOutput == args.localOutput   \* traces also go to a local directory
ExecCommand == args.execCommand   \* a subcommand was given
DockerMode  == args.dockerMode    \* the health-check server runs

(* The collectors of the session, and how many there are. *)
Collectors(ifs) == {Matched(i) : i \in ifs} \cup (IF Negation THEN {Unmatched(i) : i \in ifs} ELSE {})
NumCollectors == Cardinality(Collectors(eligible))
Rotating == {c \in Collectors(eligible) : c.state = "matchedFilter"}

Init ==
  /\ args \in ArgSets
  /\ pc = "start" /\ eligible = {}
  /\ col = [c \in AllCollectors |-> "none"]
  /\ errChan = <<>> /\ errors = {}
  /\ subcmd = "none" /\ signal = FALSE /\ stop = FALSE
  /\ counted = FALSE /\ result = "none"
  /\ session = 1 /\ sessions = [c \in AllCollectors |-> 1] /\ toSwitch = {}
  /\ worker = "none" /\ exited = FALSE

Return(r) == result' = r /\ pc' = "returned"

-----------------------------------------------------------------------------
(* apidump.Run *)

(* getEligibleInterfaces: a named interface must be usable, the others are *)
(* skipped when they are not; at least one must be left.                   *)
GetEligibleInterfaces ==
  /\ pc = "start"
  /\ \E denied \in SUBSET Interfaces :
       /\ eligible' = Interfaces \ denied
       /\ IF eligible' = {} \/ (Named /\ denied # {})
          THEN Return("startup")
          ELSE pc' = "setup" /\ UNCHANGED result
  /\ UNCHANGED <<colVars, errors, subcmd, signal, stop, rotateVars, worker, exited>>

(* Filters, output, buffer pool and learn session: any of them may fail;   *)
(* then telemetry starts, unless it is turned off or the trace is local.   *)
Setup ==
  /\ pc = "setup"
  /\ \/ Return("startup") /\ UNCHANGED worker
     \/ pc' = "launch" /\ UNCHANGED result /\ worker' \in {"none", "asleep"}
  /\ UNCHANGED <<eligible, colVars, errors, subcmd, signal, stop, rotateVars, exited>>

(* The loop that starts the collectors, matchedFilter ones first; the      *)
(* local directory of one of those may turn out to be unusable.            *)
StartCollector(c) ==
  /\ pc = "launch"
  /\ c \in Collectors(eligible) /\ col[c] = "none"
  /\ c.state = "matchedFilter" \/ \A i \in eligible : col[Matched(i)] # "none"
  /\ \/ col' = [col EXCEPT ![c] = "running"] /\ UNCHANGED <<pc, result>>
     \/ /\ LocalOutput /\ c.state = "matchedFilter"
        /\ Return("startup") /\ UNCHANGED col
  /\ UNCHANGED <<eligible, errChan, counted, errors, subcmd, signal, stop, rotateVars, worker, exited>>

Launched ==
  /\ pc = "launch"
  /\ \A c \in Collectors(eligible) : col[c] # "none"
  /\ pc' = IF ExecCommand THEN "command" ELSE "select"
  /\ UNCHANGED <<eligible, colVars, errors, subcmd, signal, stop, result, rotateVars, worker, exited>>

(* The subcommand ends.  Only after a successful one is errChan looked at, *)
(* and drained.                                                            *)
CommandEnds ==
  /\ pc = "command"
  /\ \/ subcmd' = "failed" /\ UNCHANGED <<errors, errChan>>
     \/ /\ subcmd' = "ok"
        /\ errors' = errors \cup {errChan[i] : i \in 1..Len(errChan)}
        /\ errChan' = <<>>
  /\ pc' = "stopping"
  /\ UNCHANGED <<eligible, col, counted, signal, stop, result, rotateVars, worker, exited>>

SelectSignal ==
  /\ pc = "select" /\ signal
  /\ signal' = FALSE
  /\ pc' = "stopping"
  /\ UNCHANGED <<eligible, colVars, errors, subcmd, stop, result, rotateVars, worker, exited>>

(* Mutant: the first error ends the session. *)
SelectErrorStops ==
  /\ pc = "select" /\ errChan # <<>>
  /\ errChan' = Tail(errChan)
  /\ errors' = errors \cup {Head(errChan)}
  /\ pc' = "stopping"
  /\ UNCHANGED <<eligible, col, counted, subcmd, signal, stop, result, rotateVars, worker, exited>>

(* An error is received: go on while fewer interfaces than collectors have *)
(* failed.                                                                 *)
SelectError ==
  /\ pc = "select" /\ errChan # <<>>
  /\ errChan' = Tail(errChan)
  /\ errors' = errors \cup {Head(errChan)}
  /\ pc' = IF Cardinality(errors') < NumCollectors THEN "select" ELSE "stopping"
  /\ UNCHANGED <<eligible, col, counted, subcmd, signal, stop, result, rotateVars, worker, exited>>

(* close(stop), after pcapStopWaitTime. *)
CloseStop ==
  /\ pc = "stopping"
  /\ stop' = TRUE /\ pc' = "waiting"
  /\ UNCHANGED <<eligible, colVars, errors, subcmd, signal, result, rotateVars, worker, exited>>

(* Mutant: does not wait for the collectors. *)
FinishNoWait ==
  /\ pc = "waiting"
  /\ Return(IF errors # {} /\ Cardinality(errors) = NumCollectors THEN "failed"
            ELSE IF subcmd = "failed" THEN "subcommand failed"
            ELSE IF ~ counted THEN "empty" ELSE "ok")
  /\ UNCHANGED <<eligible, colVars, errors, subcmd, signal, stop, rotateVars, worker, exited>>

(* doneWG.Wait, then the verdict. *)
Finish ==
  /\ pc = "waiting"
  /\ \A c \in Collectors(eligible) : col[c] \in {"done", "failed"}
  /\ Return(IF errors # {} /\ Cardinality(errors) = NumCollectors THEN "failed"
            ELSE IF subcmd = "failed" THEN "subcommand failed"
            ELSE IF ~ counted THEN "empty" ELSE "ok")
  /\ UNCHANGED <<eligible, colVars, errors, subcmd, signal, stop, rotateVars, worker, exited>>

-----------------------------------------------------------------------------
(* Collector goroutines. *)

(* Packets that pass the filters are counted. *)
CountPacket(c) ==
  /\ col[c] = "running" /\ c.state = "matchedFilter"
  /\ ~ counted /\ counted' = TRUE
  /\ UNCHANGED <<pc, eligible, col, errChan, errors, subcmd, signal, stop, result, rotateVars, worker, exited>>

CollectFails(c) ==
  /\ col[c] = "running"
  /\ col' = [col EXCEPT ![c] = "failed"]
  /\ errChan' = Append(errChan, c.interface)
  /\ UNCHANGED <<pc, eligible, counted, errors, subcmd, signal, stop, result, rotateVars, worker, exited>>

(* Collect returns because stop is closed, or because the capture ended. *)
CollectReturns(c) ==
  /\ col[c] = "running"
  /\ col' = [col EXCEPT ![c] = "done"]
  /\ UNCHANGED <<pc, eligible, errChan, counted, errors, subcmd, signal, stop, result, rotateVars, worker, exited>>

-----------------------------------------------------------------------------
(* RotateLearnSession *)

(* Mutant: rotation starts over before it has finished. *)
RotateTickRestarts ==
  /\ pc \in {"select", "command", "stopping", "waiting"}
  /\ session < MaxSession
  /\ session' = session + 1
  /\ toSwitch' = Rotating
  /\ UNCHANGED <<pc, eligible, colVars, errors, subcmd, signal, stop, result, sessions, worker, exited>>

(* The ticker fires and a new session was created.  When stop is closed at *)
(* the same time select may still pick the ticker.                         *)
RotateTick ==
  /\ pc \in {"select", "command", "stopping", "waiting"}
  /\ toSwitch = {} /\ session < MaxSession
  /\ session' = session + 1
  /\ toSwitch' = Rotating
  /\ UNCHANGED <<pc, eligible, colVars, errors, subcmd, signal, stop, result, sessions, worker, exited>>

SwitchLearnSession(c) ==
  /\ c \in toSwitch
  /\ sessions' = [sessions EXCEPT ![c] = session]
  /\ toSwitch' = toSwitch \ {c}
  /\ UNCHANGED <<pc, eligible, colVars, errors, subcmd, signal, stop, result, session, worker, exited>>

(* Mutant: the worker never looks at done. *)
TelemetryStepForever ==
  /\ worker = "asleep" /\ worker' = "ticking"
  /\ UNCHANGED <<pc, eligible, colVars, errors, subcmd, signal, stop, result, rotateVars, exited>>

(* TelemetryWorker sleeps StatsLogDelay whatever happens, then returns or, *)
(* with an interval, sends telemetry until done is closed.                 *)
TelemetryStep ==
  /\ \/ worker = "asleep" /\ worker' \in {"ticking", "returned"}
     \/ worker = "ticking" /\ stop /\ worker' = "returned"
  /\ UNCHANGED <<pc, eligible, colVars, errors, subcmd, signal, stop, result, rotateVars, exited>>

-----------------------------------------------------------------------------
(* The process. *)

UserSignals ==
  /\ pc = "select" /\ ~ signal
  /\ signal' = TRUE
  /\ UNCHANGED <<pc, eligible, colVars, errors, subcmd, stop, result, rotateVars, worker, exited>>

(* Run returns the first of what the session and the health-check server   *)
(* report, and the process ends.                                           *)
ProcessExits ==
  /\ pc = "returned" \/ DockerMode
  /\ exited' = TRUE
  /\ UNCHANGED <<pc, eligible, colVars, errors, subcmd, signal, stop, result, rotateVars, worker>>

(* The arguments do not change, and nothing happens after the process has  *)
(* ended.                                                                  *)
InProcess == ~ exited /\ UNCHANGED args

Run ==
  /\ InProcess
  /\ \/ GetEligibleInterfaces \/ Setup \/ Launched \/ CommandEnds
     \/ SelectSignal \/ SelectError \/ CloseStop \/ Finish
     \/ \E c \in AllCollectors : StartCollector(c)

Collect(c)  == InProcess /\ (CollectFails(c) \/ CollectReturns(c))
Rotate      == InProcess /\ (RotateTick \/ \E c \in AllCollectors : SwitchLearnSession(c))
Telemetry   == InProcess /\ TelemetryStep
Environment == InProcess /\ (UserSignals \/ ProcessExits \/ \E c \in AllCollectors : CountPacket(c))

Next ==
  \/ Run \/ Rotate \/ Telemetry \/ Environment
  \/ \E c \in AllCollectors : Collect(c)

Spec == Init /\ [][Next]_vars

(* Run goes on; a collector ends once stop is closed; subcommands end.     *)
(* Collectors need not fail and the user need not send a signal.           *)
FairSpec ==
  /\ Spec
  /\ WF_vars(Run) /\ WF_vars(Telemetry)
  /\ \A c \in AllCollectors : WF_vars(stop /\ Collect(c))

-----------------------------------------------------------------------------
(* Type correctness; errChan is "buffered enough so it never blocks". *)
TypeOK ==
  /\ pc \in {"start", "setup", "launch", "command", "select", "stopping", "waiting", "returned"}
  /\ eligible \in SUBSET Interfaces
  /\ col \in [AllCollectors -> {"none", "running", "done", "failed"}]
  /\ errChan \in Seq(Interfaces) /\ Len(errChan) <= NumCollectors
  /\ errors \in SUBSET eligible
  /\ subcmd \in {"none", "ok", "failed"}
  /\ {signal, stop, counted, exited} \subseteq BOOLEAN
  /\ (result = "none") = (pc # "returned")
  /\ session \in 1..MaxSession
  /\ sessions \in [AllCollectors -> 1..MaxSession] /\ toSwitch \in SUBSET AllCollectors
  /\ worker \in {"none", "asleep", "ticking", "returned"}

Verdict == result \notin {"none", "startup"}

(* A verdict is given only when no collector runs any more, so that what   *)
(* they flush on Close is uploaded before the process ends.                *)
VerdictAfterCollectors == Verdict => \A c \in AllCollectors : col[c] # "running"

(* "trace collection failed" is said only if every interface failed. *)
FailureIsTotal == result = "failed" => \A i \in eligible : \E c \in Collectors({i}) : col[c] = "failed"

(* One interface's error does not stop the others: without a signal, an    *)
(* interactive session stops only when all its interfaces have failed.     *)
ErrorsDoNotStopOthers ==
  [][pc = "select" /\ pc' = "stopping" /\ ~ signal
     => \A i \in eligible : \E c \in Collectors({i}) : col[c] = "failed"]_vars

(* The subcommand's failure is surfaced. *)
SubcommandFailureSurfaces ==
  Verdict /\ subcmd = "failed" => result \in {"failed", "subcommand failed"}

(* Collectors are switched one by one, but never more than one session     *)
(* apart.                                                                  *)
SessionsTogether ==
  \A c, d \in Rotating : sessions[c] <= sessions[d] + 1

(* Once stop is closed the session ends and telemetry stops with it. *)
StopsCleanly == stop ~> (exited \/ (pc = "returned" /\ worker \in {"none", "returned"}))

AllFailed == \A c \in Collectors(eligible) : col[c] = "failed"

(* "Continue until an interrupt or all collectors have stopped with        *)
(* errors": a session does not go on without any collector.  The errors    *)
(* are counted by interface, so that with two collectors on each interface *)
(* they never come to as many as there are collectors.                     *)
StopsWhenAllFailed == (pc = "select" /\ AllFailed) ~> (pc # "select" \/ exited)

(* Run's verdict comes after its collectors and is true: total failure     *)
(* only if every interface failed, and a failed subcommand is not hidden.  *)
VerdictInv == TypeOK /\ VerdictAfterCollectors /\ FailureIsTotal /\ SubcommandFailureSurfaces

(* A session comes to its end when it is stopped, and, with one collector  *)
(* for each interface, when nothing is left to capture.                    *)
SessionEnds == StopsCleanly /\ (~ Negation => StopsWhenAllFailed)
=============================================================================
