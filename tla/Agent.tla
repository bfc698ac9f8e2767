------------------------------- MODULE Agent -------------------------------
(***************************************************************************)
(* The agent as a process: cmd/root.go runs one command, here "nginx       *)
(* capture" (NginxServer), "nginx install" (NginxInstall) or the lookup    *)
(* with which "apidump --collection" begins (ServiceLookup), and reports   *)
(* to Telemetry what was called and how it ended.                          *)
(*                                                                         *)
(* The main goroutine sets telemetry up in preRun or, if the flags cannot  *)
(* be parsed, with the first event of Execute.  An install may be          *)
(* interrupted, and run again by a new process that finds the files as the *)
(* last one left them.                                                     *)
(*                                                                         *)
(* root.go registers apidump; the two nginx commands are complete in       *)
(* cmd/internal/legacy/nginx, but nothing imports that package at this     *)
(* commit.  They are modelled as they run under Execute once registered.   *)
(***************************************************************************)
EXTENDS NginxServer, NginxInstall, ServiceLookup

CONSTANT Commands   \* the commands

ASSUME AgentAssumption ==
  Profiles # {} /\ Commands \subseteq {"capture", "install", "lookup"}

VARIABLES
  command,  \* the command of the process
  main,     \* the main goroutine: start, init, running, failing or exited
  exit      \* the error of the command, and then the exit code

vars == <<telemetryVars, serverVars, installVars, lookupVars, command, main, exit>>

Init ==
  /\ TelemetryInit /\ ServerInit /\ InstallInit /\ LookupInit
  /\ command \in Commands
  /\ command # "capture" => profile = CHOOSE p \in Profiles : TRUE
  /\ command # "install" => nginx = NoVersion
  /\ command # "lookup" => mapped = "none"
  /\ main = "start" /\ exit = [error |-> "none", code |-> 0]

-----------------------------------------------------------------------------
(* cmd/root.go *)

(* ExecuteC: preRun calls Init; an error in the flags comes before it. *)
Start ==
  /\ main = "start"
  /\ once' = "configure"
  /\ \/ main' = "init" /\ UNCHANGED exit
     \/ main' = "failing" /\ exit' = [exit EXCEPT !.error = "usage"]
  /\ UNCHANGED <<clock, client, handler, tracked, limitVars, serverVars, installVars,
                 lookupVars, command>>

InitializeTelemetry ==
  /\ DoInit
  /\ UNCHANGED <<serverVars, installVars, lookupVars, command, main, exit>>

(* startProfiling cannot create or start the CPU profile: os.Exit, which   *)
(* runs neither Execute's report nor Shutdown.                             *)
ProfilingFails ==
  /\ main = "init"
  /\ TryTrackingEvents({"command line"})
  /\ main' = "exited" /\ exit' = [error |-> "profile", code |-> 1]
  /\ UNCHANGED <<clock, once, client, handler, limitVars, serverVars, installVars, lookupVars,
                 command>>

(* The rest of preRun, and RunE up to the command's own work. *)
BeginCommand ==
  /\ main = "init"
  /\ TryTrackingEvents({"command line"})
  /\ main' = "running"
  /\ CASE command = "install" -> (\E dry \in BOOLEAN : Begin(dry)) /\ UNCHANGED lookupVars
       [] command = "lookup"  -> BeginLookup /\ UNCHANGED installVars
       [] command = "capture" -> UNCHANGED <<installVars, lookupVars>>
  /\ UNCHANGED <<clock, once, client, handler, limitVars, serverVars, command, exit>>

(* captureNginxTraffic without --project. *)
NoProject ==
  /\ main = "running" /\ command = "capture" /\ server = "off"
  /\ main' = "failing" /\ exit' = [exit EXCEPT !.error = "usage"]
  /\ UNCHANGED <<telemetryVars, serverVars, installVars, lookupVars, command>>

(* RunE returns: an error of RunServer is one for Execute; RunServer hides *)
(* that there was no back end, and installNginxModule reports and hides    *)
(* every error.                                                            *)
CommandReturns ==
  LET ends(error) ==
        IF error = "none" THEN main' = "exited" /\ UNCHANGED exit
        ELSE main' = "failing" /\ exit' = [exit EXCEPT !.error = error] IN
  /\ main = "running"
  /\ CASE command = "capture" -> /\ server \in {"failed", "stopped"}
                                 /\ ends(IF server = "stopped" THEN "usage" ELSE "none")
                                 /\ UNCHANGED tracked
       [] command = "install" -> /\ install.pc = "returned"
                                 /\ ends("none")
                                 /\ IF install.error = "none" THEN UNCHANGED tracked
                                    ELSE TryTrackingEvents({"command execution"})
       [] command = "lookup"  -> /\ lookup.pc \in {"found", "failed"}
                                 /\ ends(IF lookup.pc = "failed" THEN "akita" ELSE "none")
                                 /\ UNCHANGED tracked
  /\ UNCHANGED <<clock, once, client, handler, limitVars, serverVars, installVars, lookupVars,
                 command>>

(* Execute after an error: report it, Shutdown, os.Exit. *)
Fail ==
  /\ main = "failing"
  /\ TryTrackingEvents({"command execution"} \cup
                       (IF exit.error = "akita" THEN {} ELSE {"command line"}))
  /\ main' = "exited" /\ exit' = [exit EXCEPT !.code = 1]
  /\ UNCHANGED <<clock, once, client, handler, limitVars, serverVars, installVars, lookupVars,
                 command>>

-----------------------------------------------------------------------------
(* The commands *)

Serving == main = "running" /\ command = "capture" /\ server # "stopped"

Time ==
  /\ Serving /\ Tick
  /\ UNCHANGED <<serverVars, installVars, lookupVars, command, main, exit>>

Serve ==
  /\ Serving
  /\ \/ BackendFails \/ BackendStarts \/ ListenFails
     \/ FlushUpload \/ FlushDelete
     \/ \E c \in Calls : Receive(c)
  /\ UNCHANGED <<installVars, lookupVars, command, main, exit>>

Handle(c) ==
  /\ Serving
  /\ CallStep(c) \/ Report(c)
  /\ UNCHANGED <<installVars, lookupVars, command, main, exit>>

Install ==
  /\ main = "running" /\ InstallStep
  /\ UNCHANGED <<telemetryVars, serverVars, lookupVars, command, main, exit>>

InterruptInstall ==
  /\ main = "running" /\ Interrupt
  /\ main' = "exited" /\ exit' = [error |-> "interrupt", code |-> 130]
  /\ UNCHANGED <<telemetryVars, serverVars, lookupVars, command>>

(* A new process: nothing but the files is left of the last one, whose     *)
(* InstallModule is over or never began.                                   *)
InstallAgain ==
  /\ main = "exited" /\ command = "install" /\ runs < MaxRuns
  /\ install.pc \in {"off", "returned", "interrupted"}
  /\ main' = "start" /\ exit' = [error |-> "none", code |-> 0]
  /\ install' = Ready
  /\ nginx' \in Versions
  /\ once' = "fresh" /\ client' = "null" /\ handler' = FALSE /\ tracked' = {}
  /\ UNCHANGED <<runs, before, dirVars, clock, limitVars, serverVars, lookupVars, command>>

(* A request that fails, a conflict included, is reported by the client. *)
LookUp ==
  /\ main = "running" /\ LookupStep
  /\ IF <<lookup.pc, lookup'.pc>> = <<"create", "relist">> \/ lookup'.pc = "failed"
     THEN ReportAPIError ELSE UNCHANGED tracked
  /\ UNCHANGED <<clock, once, client, handler, limitVars, serverVars, installVars, command,
                 main, exit>>

OtherAgents ==
  /\ command = "lookup" /\ OthersCreate
  /\ UNCHANGED <<telemetryVars, serverVars, installVars, command, main, exit>>

Next ==
  \/ Start \/ InitializeTelemetry \/ ProfilingFails \/ BeginCommand \/ NoProject
  \/ CommandReturns \/ Fail
  \/ Time \/ Serve \/ \E c \in Calls : Handle(c)
  \/ Install \/ InterruptInstall \/ InstallAgain
  \/ LookUp \/ OtherAgents

Spec == Init /\ [][Next]_vars

(* The main goroutine and the goroutines of the handlers keep running.     *)
(* Requests to the back end and to GitHub end or hang, for nothing times   *)
(* them out.  The NGINX module, the user and the other agents do as they   *)
(* like, and neither time nor the listener's end is promised.              *)
Fairness ==
  /\ WF_vars(Start) /\ WF_vars(InitializeTelemetry) /\ WF_vars(BeginCommand)
  /\ WF_vars(CommandReturns) /\ WF_vars(Fail)
  /\ WF_vars(Install) /\ WF_vars(LookUp)
  /\ \A c \in Calls : WF_vars(Handle(c))

FairSpec == Spec /\ Fairness

-----------------------------------------------------------------------------
(* Properties *)

(* What telemetry knows when the process has ended, other than by an       *)
(* interrupt: the command, and that it failed exactly if Execute saw an    *)
(* error or an install reported its own.  Two failures stay unknown: a     *)
(* profile that cannot be started, and a server without a back end, which  *)
(* even exits with 0.  The exit code is 1 exactly if Execute saw an error  *)
(* or the profile failed (Execute, startProfiling, RunServer).             *)
WhatIsReported ==
  main = "exited" /\ exit.error # "interrupt" =>
    /\ once = "done"
    /\ exit.code = (IF exit.error = "none" THEN 0 ELSE 1)
    /\ command = "capture" /\ exit.code = 0 => server = "failed"
    /\ client = "amplitude" =>
         /\ "command line" \in tracked
         /\ "command execution" \in tracked
              <=> exit.error \in {"usage", "akita"} \/ install.error # "none"

AgentInv == LookupInv /\ WhatIsReported

(* A request of the process that is never answered. *)
Hung == once = "hung" \/ lookup.pc = "hung" \/ install.pc = "hung"

(* The only thing that can hold a process up is a request that is never    *)
(* answered: otherwise telemetry is set up, although doInit itself asks    *)
(* the back end, may fail, and would report that to itself; a command      *)
(* other than the server ends; and a call of the NGINX module is answered  *)
(* unless the process ends first (doInit, InstallModule, handleRequest).   *)
AgentProgress ==
  /\ main \in {"start", "init"} ~> (main \in {"running", "exited"} \/ Hung)
  /\ (main = "running" /\ command # "capture") ~> (main = "exited" \/ Hung)
  /\ \A c \in Calls : call[c].pc # "none" ~> (call[c].pc = "done" \/ main = "exited")

(* The comment on userAPITimeout in telemetry.go: a timeout talking to the *)
(* API, so that the agent is not slow.  Telemetry's question who the user  *)
(* is does not keep the command from beginning (getUserIdentity).          *)
UserAPITimesOut == main = "init" ~> main \in {"running", "exited"}
=============================================================================
