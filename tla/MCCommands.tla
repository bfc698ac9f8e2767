----------------------------- MODULE MCCommands -----------------------------
(* The two commands that are state machines of their own; a process runs   *)
(* one of them.                                                            *)
(*                                                                         *)
(* "ecs add" on two regions, one of which has no task definitions, with a  *)
(* command line for every way through the workflow: each flag alone, a     *)
(* named revision, the flags that name a service, and no terminal with all *)
(* flags or too few.  "apidump" on two interfaces, with four sets of       *)
(* arguments in which each option is on and off.                           *)
EXTENDS ApiDump, ECSAdd

CONSTANTS r1, r2, k1, k2, f1, f2, v1, v2, i1, i2

RegionOfAll  == [x \in Clusters \cup Families |-> IF x = k2 THEN r2 ELSE r1]
ClusterOfAll == [v \in Services |-> k1]
FamilyOfAll  == [v \in Services |-> IF v = v1 THEN f1 ELSE f2]

NoFlags == [tty |-> TRUE, dryRun |-> FALSE, profile |-> FALSE, byArn |-> FALSE,
            region |-> None, cluster |-> None, task |-> None, revision |-> 0, service |-> None]
Batch   == [NoFlags EXCEPT !.tty = FALSE, !.cluster = k1, !.task = f1, !.service = v1]

CommandLines ==
  {NoFlags, Batch}
  \cup {[NoFlags EXCEPT !.dryRun = TRUE], [NoFlags EXCEPT !.profile = TRUE]}
  \cup {[NoFlags EXCEPT !.region = r] : r \in Regions}
  \cup {[NoFlags EXCEPT !.cluster = k] : k \in Clusters}
  \cup {[NoFlags EXCEPT !.task = f, !.byArn = b] : f \in Families, b \in BOOLEAN}
  \cup {[NoFlags EXCEPT !.task = f1, !.revision = r] : r \in 1..2}
  \cup {[NoFlags EXCEPT !.cluster = k1, !.byArn = TRUE, !.service = v] : v \in Services}
  \cup {[Batch EXCEPT !.dryRun = TRUE], [Batch EXCEPT !.region = r2], [Batch EXCEPT !.profile = TRUE]}
  \cup {[Batch EXCEPT !.task = None], [Batch EXCEPT !.cluster = None], [Batch EXCEPT !.service = None]}

Plain    == [negation |-> FALSE, named |-> FALSE, localOutput |-> FALSE,
             execCommand |-> FALSE, dockerMode |-> FALSE]
Debug    == [Plain EXCEPT !.negation = TRUE]
Command  == [Debug EXCEPT !.named = TRUE, !.execCommand = TRUE]
InDocker == [Plain EXCEPT !.localOutput = TRUE, !.dockerMode = TRUE]

FourSessions == {Plain, Debug, Command, InDocker}
DebugSession == {Debug}
BatchOnly    == {Batch}

VARIABLE command

(* What belongs to the command that is not run stays as it was. *)
EitherInit ==
  /\ Init /\ WorkflowInit
  /\ \/ command = "ecs add" /\ args = (CHOOSE a \in ArgSets : TRUE)
     \/ /\ command = "apidump"
        /\ flags = Batch /\ kind = [f \in Families |-> "plain"]

EitherNext ==
  /\ UNCHANGED command
  /\ \/ command = "ecs add" /\ WorkflowNext /\ UNCHANGED vars
     \/ command = "apidump" /\ Next /\ UNCHANGED workflowVars

(* The fairness of ECSAdd and ApiDump, for the command that is run. *)
EitherFairness ==
  /\ WF_workflowVars(command = "ecs add" /\ Step)
  /\ WF_vars(command = "apidump" /\ Run)
  /\ WF_vars(command = "apidump" /\ Telemetry)
  /\ \A c \in AllCollectors : WF_vars(stop /\ Collect(c))

EitherSpec == EitherInit /\ [][EitherNext]_<<command, vars, workflowVars>> /\ EitherFairness
=============================================================================
