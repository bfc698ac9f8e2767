------------------------------- MODULE ECSAdd -------------------------------
(***************************************************************************)
(* The "ecs add" workflow, cmd/internal/ecs/add.go and aws_api.go: choose  *)
(* an AWS profile, region, cluster, task definition and service, register  *)
(* a revision of the task definition with the agent as a sidecar, update   *)
(* the service to it and wait for the deployment.                          *)
(*                                                                         *)
(* Each state function of the workflow is an action; one that prompts ends *)
(* at a state "ask...", and the answer is an action of its own.  Every AWS *)
(* call succeeds, is denied or fails.  A task-definition revision is       *)
(* abstracted to the number of agent containers in it and the version of   *)
(* the application it runs.  AWS and the operators who deploy beside the   *)
(* workflow are external.                                                  *)
(***************************************************************************)
EXTENDS Integers, Sequences, FiniteSets

CONSTANTS
  Regions, Clusters, Families, Services,
  RegionOf,       \* the region of each cluster and of each task family
  ClusterOf,      \* the cluster of each service
  FamilyOf,       \* the task family each service runs
  DefaultRegion,  \* region of the AWS config file
  FlagSets,       \* command lines: records of Flags
  Kinds,          \* task definitions to start from: plain, agent or bridge
  MaxPolls,       \* ticks until waitForRestart gives up
  MaxOthers       \* deployments by somebody else (bound)

None == "none"

(* The flags, and whether standard input is a terminal (tty).  byArn says  *)
(* that the cluster and the service are given by ARN and not by name;      *)
(* revision is the one --task names, by ARN or as family:revision, or 0    *)
(* when it names the family only.                                          *)
Flags == [tty : BOOLEAN, dryRun : BOOLEAN, profile : BOOLEAN, byArn : BOOLEAN,
          region : Regions \cup {None}, cluster : Clusters \cup {None},
          task : Families \cup {None}, revision : Nat, service : Services \cup {None}]

ASSUME ECSAssumption ==
  /\ RegionOf \in [Clusters \cup Families -> Regions]
  /\ ClusterOf \in [Services -> Clusters] /\ FamilyOf \in [Services -> Families]
  /\ \A v \in Services : RegionOf[ClusterOf[v]] = RegionOf[FamilyOf[v]]
  /\ DefaultRegion \in Regions /\ FlagSets \in SUBSET Flags
  /\ Kinds \in SUBSET {"plain", "agent", "bridge"}
  /\ MaxPolls \in Nat /\ MaxOthers \in Nat
  /\ None \notin Regions \cup Clusters \cup Families \cup Services

VARIABLES
  flags,      \* the command line
  currentState,  \* the state of the workflow
  wf,         \* the choices so far: awsRegion, ecsClient's region, cluster,
              \* task family, loaded revision and service, and (history)
              \* the deployments of others when the task was loaded
  found,      \* clusters or services listed for the current prompt
  seen,       \* RolloutState last read by waitForRestart
  polls,      \* its ticks
  outcome,    \* running, success, error or interrupted
  said,       \* what the user was told: deployed, orphan
  confirmed,  \* the user agreed to the changes
  kind,       \* AWS: what each task family looked like at first
  defs,       \* AWS: revisions of each task family
  running,    \* AWS: family and revision each service runs
  rollout,    \* AWS: state of the workflow's deployment
  others      \* deployments by somebody else so far

wfVars  == <<wf, found, seen, polls, outcome, said, confirmed>>
awsVars == <<defs, running, rollout, others>>
workflowVars == <<flags, currentState, wfVars, kind, awsVars>>

NoDef   == [family |-> None, rev |-> 0]
Result  == {"ok", "denied", "error"}
Latest(f) == Len(defs[f])

FirstRevision(k) == [agents |-> IF k = "agent" THEN 1 ELSE 0, app |-> 1]

WorkflowInit ==
  /\ flags \in FlagSets
  /\ currentState = "init"
  /\ wf = [region |-> None, client |-> None, cluster |-> None, family |-> None,
           def |-> NoDef, svc |-> None, at |-> 0]
  /\ found = {} /\ seen = None /\ polls = 0
  /\ outcome = "running" /\ said = {} /\ confirmed = FALSE
  /\ kind \in [Families -> Kinds]
  /\ defs = [f \in Families |-> <<FirstRevision(kind[f])>>]
  /\ running = [v \in Services |-> [family |-> FamilyOf[v], rev |-> 1]]
  /\ rollout = None /\ others = 0

(* awf_next and awf_error; RunAddWorkflow reports what ended the loop. *)
Goto(p) == currentState' = p /\ outcome' = outcome
End(o)  == currentState' = "end" /\ outcome' = o

Quiet == UNCHANGED <<flags, kind, awsVars, seen, polls, said, confirmed>>

-----------------------------------------------------------------------------
(* Profile, region and cluster. *)

InitState ==
  /\ currentState = "init"
  /\ Goto(IF flags.tty THEN "profile" ELSE "fillFromFlags")
  /\ Quiet /\ UNCHANGED <<wf, found>>

(* createConfig loads the profile and sets the default region. *)
CreateConfig == wf' = [wf EXCEPT !.region = DefaultRegion]

GetProfile ==
  /\ currentState = "profile"
  /\ IF flags.profile
     THEN \/ CreateConfig /\ Goto("region")
          \/ UNCHANGED wf /\ End("error")
     ELSE UNCHANGED wf /\ Goto("askProfile")
  /\ Quiet /\ UNCHANGED found

(* A profile that does not exist is asked for again. *)
AnswerProfile ==
  /\ currentState = "askProfile"
  /\ \/ CreateConfig /\ Goto("region")
     \/ UNCHANGED wf /\ Goto("profile")
     \/ UNCHANGED wf /\ End("error")
  /\ Quiet /\ UNCHANGED found

(* createClient: the ECS client and awsConfig use region r from now on. *)
CreateClient(r) == wf' = [wf EXCEPT !.region = r, !.client = r]

GetRegion ==
  /\ currentState = "region"
  /\ IF flags.region # None
     THEN CreateClient(flags.region) /\ Goto("cluster")
     ELSE UNCHANGED wf /\ Goto("askRegion")
  /\ Quiet /\ UNCHANGED found

AnswerRegion ==
  /\ currentState = "askRegion"
  /\ \/ \E r \in Regions : CreateClient(r) /\ Goto("cluster")
     \/ UNCHANGED wf /\ Goto("findCluster")
  /\ Quiet /\ UNCHANGED found

(* Mutant: searches again until it finds a cluster. *)
FindClusterRetries ==
  /\ currentState = "findCluster"
  /\ \E listed \in SUBSET Regions, last \in Regions :
       /\ wf' = [wf EXCEPT !.client = last]
       /\ found' = {k \in Clusters : RegionOf[k] \in listed}
       /\ Goto(IF found' = {} THEN "findCluster" ELSE "askClusterAndRegion")
  /\ Quiet

(* findClusterAndRegionState tries every region, each with a client of its *)
(* own, and skips the ones it cannot list.                                 *)
FindCluster ==
  /\ currentState = "findCluster"
  /\ \E listed \in SUBSET Regions, last \in Regions :
       /\ wf' = [wf EXCEPT !.client = last]
       /\ found' = {k \in Clusters : RegionOf[k] \in listed}
       /\ Goto(IF found' = {} THEN "profile" ELSE "askClusterAndRegion")
  /\ Quiet

AnswerClusterAndRegion ==
  /\ currentState = "askClusterAndRegion"
  /\ \E k \in found : wf' = [wf EXCEPT !.cluster = k, !.region = RegionOf[k], !.client = RegionOf[k]]
  /\ Goto("task")
  /\ Quiet /\ UNCHANGED found

Here(k) == RegionOf[k] = wf.client

(* loadClusterFromFlag, going on to state next.  By name, an error of the  *)
(* listing is wrapped as errors.Wrap(err, ...) with the wrong err, which   *)
(* is nil: in getClusterState the workflow ends without an error, and      *)
(* fillFromFlags, which looks at the error only, goes on.                  *)
LoadCluster(next) ==
  \/ /\ Here(flags.cluster)
     /\ wf' = [wf EXCEPT !.cluster = flags.cluster] /\ Goto(next)
  \/ /\ flags.byArn \/ ~ Here(flags.cluster)
     /\ UNCHANGED wf /\ End("error")
  \/ /\ ~ flags.byArn
     /\ UNCHANGED wf
     /\ IF flags.tty THEN End("success") ELSE Goto(next)

GetCluster ==
  /\ currentState = "cluster"
  /\ IF flags.cluster # None THEN LoadCluster("task") /\ UNCHANGED found
     ELSE /\ UNCHANGED wf
          /\ \E r \in Result :
               /\ found' = {k \in Clusters : r = "ok" /\ Here(k)}
               /\ IF r = "error" THEN End("error")
                  ELSE Goto(IF r = "denied" THEN "profile"
                            ELSE IF found' = {} THEN "region" ELSE "askCluster")
  /\ Quiet

AnswerCluster ==
  /\ currentState = "askCluster"
  /\ \/ UNCHANGED wf /\ Goto("region")
     \/ \E k \in found : wf' = [wf EXCEPT !.cluster = k] /\ Goto("task")
  /\ Quiet /\ UNCHANGED found

-----------------------------------------------------------------------------
(* Task definition and service. *)

(* Mutant: the definition is not read again when the family is the same. *)
LoadDefCached(f, r) ==
  wf' = IF wf.def.family = f THEN [wf EXCEPT !.family = f, !.at = others]
        ELSE [wf EXCEPT !.family = f, !.def = [family |-> f, rev |-> r], !.at = others]

(* Revision r of f becomes the loaded one. *)
LoadDef(f, r) ==
  wf' = [wf EXCEPT !.family = f, !.def = [family |-> f, rev |-> r], !.at = others]

Agents(f) == defs[f][Latest(f)].agents

(* loadTaskFromFlag describes what the flag names, the latest revision of  *)
(* a family or one revision; it checks for bridge networking, and not      *)
(* whether the agent is there already.                                     *)
LoadTask(next) ==
  \/ /\ Here(flags.task) /\ kind[flags.task] # "bridge"
     /\ \E r \in 1..Latest(flags.task) :
          /\ r = IF flags.revision = 0 THEN Latest(flags.task) ELSE flags.revision
          /\ LoadDef(flags.task, r)
     /\ Goto(next)
  \/ UNCHANGED wf /\ End("error")

GetTask ==
  /\ currentState = "task"
  /\ IF flags.task # None THEN LoadTask("service")
     ELSE /\ UNCHANGED wf
          /\ \/ Goto("profile")
             \/ End("error")
             \/ Goto(IF \E f \in Families : Here(f) THEN "askTask" ELSE "cluster")
  /\ Quiet /\ UNCHANGED found

(* The answer is kept in wf before the definition is described; then it is *)
(* checked for bridge networking and for an installed agent.               *)
AnswerTask ==
  /\ currentState = "askTask"
  /\ \/ UNCHANGED wf /\ Goto("cluster")
     \/ \E f \in {g \in Families : Here(g)} :
          \/ wf' = [wf EXCEPT !.family = f] /\ (Goto("task") \/ End("error"))
          \/ kind[f] = "bridge" /\ wf' = [wf EXCEPT !.family = f] /\ Goto("task")
          \/ /\ kind[f] # "bridge"
             /\ LoadDef(f, Latest(f))
             /\ Goto(IF Agents(f) > 0 THEN "task" ELSE "service")
  /\ Quiet /\ UNCHANGED found

(* Services of the chosen cluster that run the chosen family. *)
Matching == {v \in Services : ClusterOf[v] = wf.cluster /\ running[v].family = wf.family}

(* loadServiceFromFlag, going on to state next; by name, a listing error   *)
(* is again wrapped from a nil err.                                        *)
LoadService(next) ==
  \/ /\ flags.service \in Matching
     /\ wf' = [wf EXCEPT !.svc = flags.service] /\ Goto(next)
  \/ UNCHANGED wf /\ End("error")
  \/ /\ ~ flags.byArn
     /\ UNCHANGED wf
     /\ IF flags.tty THEN End("success") ELSE Goto(next)

(* listECSServices skips services whose task definition it cannot read. *)
GetService ==
  /\ currentState = "service"
  /\ IF flags.service # None THEN LoadService("confirm") /\ UNCHANGED found
     ELSE /\ UNCHANGED wf
          /\ \/ Goto("cluster") /\ UNCHANGED found
             \/ End("error") /\ UNCHANGED found
             \/ /\ found' \in SUBSET Matching
                /\ Goto(IF found' = {} THEN "task" ELSE "askService")
  /\ Quiet

AnswerService ==
  /\ currentState = "askService"
  /\ \/ UNCHANGED wf /\ Goto("task")
     \/ \E v \in found : wf' = [wf EXCEPT !.svc = v] /\ Goto("confirm")
  /\ Quiet /\ UNCHANGED found

(* The prompts for a choice; Ctrl-C at one of them, or it fails. *)
Choosing == {"askProfile", "askRegion", "askClusterAndRegion", "askCluster", "askTask", "askService"}

Interrupt ==
  /\ currentState \in Choosing
  /\ End("interrupted")
  /\ Quiet /\ UNCHANGED <<wf, found>>

-----------------------------------------------------------------------------
(* Confirmation, or everything from the command line. *)

Confirm ==
  /\ currentState = "confirm"
  /\ IF flags.dryRun THEN End("success") ELSE Goto("askConfirm")
  /\ Quiet /\ UNCHANGED <<wf, found>>

AnswerConfirm ==
  /\ currentState = "askConfirm"
  /\ \E proceed \in BOOLEAN :
       /\ confirmed' = proceed
       /\ IF proceed THEN Goto("modify") ELSE End("success")
  /\ UNCHANGED <<flags, kind, awsVars, wf, found, seen, polls, said>>

(* fillFromFlags; --profile and --region are not looked at. *)
FillFromFlags ==
  /\ currentState = "fillFromFlags"
  /\ \/ /\ wf' = [wf EXCEPT !.region = DefaultRegion, !.client = DefaultRegion]
        /\ IF flags.cluster = None THEN End("error") ELSE Goto("fillCluster")
     \/ UNCHANGED wf /\ End("error")
  /\ Quiet /\ UNCHANGED found

FillCluster ==
  /\ currentState = "fillCluster"
  /\ LoadCluster(IF flags.task = None THEN "usage" ELSE "fillTask")
  /\ Quiet /\ UNCHANGED found

FillTask ==
  /\ currentState = "fillTask"
  /\ LoadTask(IF flags.service = None THEN "usage" ELSE "fillService")
  /\ Quiet /\ UNCHANGED found

FillService ==
  /\ currentState = "fillService"
  /\ LoadService("fillSecrets")
  /\ Quiet /\ UNCHANGED found

(* UsageErrorf: a mandatory flag is missing. *)
UsageError ==
  /\ currentState = "usage"
  /\ End("error")
  /\ Quiet /\ UNCHANGED <<wf, found>>

FillSecrets ==
  /\ currentState = "fillSecrets"
  /\ \/ IF flags.dryRun THEN End("success") ELSE Goto("modify")
     \/ End("error")
  /\ Quiet /\ UNCHANGED <<wf, found>>

-----------------------------------------------------------------------------
(* The changes. *)

(* modifyTaskState registers a copy of the loaded revision plus the agent. *)
ModifyTask ==
  /\ currentState = "modify"
  /\ LET f == wf.def.family
         prev == defs[f][wf.def.rev]
     IN \/ /\ defs' = [defs EXCEPT ![f] = Append(@, [prev EXCEPT !.agents = @ + 1])]
           /\ wf' = [wf EXCEPT !.def.rev = Latest(f) + 1]
           /\ Goto("update")
        \/ UNCHANGED <<defs, wf>> /\ End("error")
  /\ UNCHANGED <<flags, kind, running, rollout, others, found, seen, polls, said, confirmed>>

(* updateServiceState; tagging the service may fail without consequence. *)
UpdateService ==
  /\ currentState = "update"
  /\ \/ /\ wf.svc # None /\ wf.cluster # None
        /\ running' = [running EXCEPT ![wf.svc] = wf.def]
        /\ rollout' = "inProgress"
        /\ Goto("wait") /\ UNCHANGED said
     \/ UNCHANGED <<running, rollout>> /\ End("error") /\ said' = said \cup {"orphan"}
  /\ UNCHANGED <<flags, kind, defs, others, wf, found, seen, polls, confirmed>>

(* waitForRestartState finds the deployment of the new revision. *)
FindDeployment ==
  /\ currentState = "wait"
  /\ \/ seen' = rollout /\ Goto("poll")
     \/ UNCHANGED seen /\ End("error")
  /\ UNCHANGED <<flags, kind, awsVars, wf, found, polls, said, confirmed>>

(* Each tick reads the deployment; after an error it is the zero value. *)
PollDeployment ==
  /\ currentState = "poll" /\ seen = "inProgress"
  /\ IF polls = MaxPolls
     THEN UNCHANGED <<seen, polls>> /\ End("error")
     ELSE /\ polls' = polls + 1
          /\ seen' \in {rollout, "zero"}
          /\ Goto("poll")
  /\ UNCHANGED <<flags, kind, awsVars, wf, found, said, confirmed>>

(* Mutant: a rollout that failed is not looked at. *)
ReportAlways ==
  /\ currentState = "poll" /\ seen # "inProgress"
  /\ said' = said \cup {"deployed"} /\ End("success")
  /\ UNCHANGED <<flags, kind, awsVars, wf, found, seen, polls, confirmed>>

(* What waitForRestartState concludes: whatever did not fail succeeded. *)
Report ==
  /\ currentState = "poll" /\ seen # "inProgress"
  /\ IF seen = "failed" THEN UNCHANGED said /\ End("error")
     ELSE said' = said \cup {"deployed"} /\ End("success")
  /\ UNCHANGED <<flags, kind, awsVars, wf, found, seen, polls, confirmed>>

-----------------------------------------------------------------------------
(* AWS and other operators. *)

RolloutEnds ==
  /\ rollout = "inProgress"
  /\ rollout' \in {"completed", "failed"}
  /\ UNCHANGED <<flags, currentState, wfVars, kind, defs, running, others>>

(* Somebody deploys a new version of the application of service v. *)
OtherDeploys(v) ==
  /\ others < MaxOthers /\ currentState # "end"
  /\ others' = others + 1
  /\ LET f == running[v].family
         last == defs[f][Latest(f)]
     IN /\ defs' = [defs EXCEPT ![f] = Append(@, [last EXCEPT !.app = @ + 1])]
        /\ running' = [running EXCEPT ![v].rev = Latest(f) + 1]
  /\ UNCHANGED <<flags, currentState, wfVars, kind, rollout>>

Step ==
  \/ InitState \/ GetProfile \/ GetRegion \/ FindCluster \/ GetCluster \/ GetTask \/ GetService
  \/ Confirm \/ FillFromFlags \/ FillCluster \/ FillTask \/ FillService \/ UsageError \/ FillSecrets
  \/ ModifyTask \/ UpdateService \/ FindDeployment \/ PollDeployment \/ Report

User ==
  \/ AnswerProfile \/ AnswerRegion \/ AnswerClusterAndRegion \/ AnswerCluster
  \/ AnswerTask \/ AnswerService \/ AnswerConfirm \/ Interrupt

WorkflowNext == Step \/ User \/ RolloutEnds \/ \E v \in Services : OtherDeploys(v)

WorkflowSpec == WorkflowInit /\ [][WorkflowNext]_workflowVars

(* The program keeps running; the user may never answer. *)
FairWorkflow == WorkflowSpec /\ WF_workflowVars(Step)

-----------------------------------------------------------------------------
(* Type correctness: what has been chosen exists, and the loaded revision  *)
(* is one of its family.                                                   *)
WorkflowTypeOK ==
  /\ flags \in Flags
  /\ wf.region \in Regions \cup {None} /\ wf.client \in Regions \cup {None}
  /\ wf.cluster \in Clusters \cup {None} /\ wf.svc \in Services \cup {None}
  /\ wf.family \in Families \cup {None}
  /\ wf.def # NoDef => wf.def.family \in Families /\ wf.def.rev \in 1..Latest(wf.def.family)
  /\ seen \in {None, "inProgress", "completed", "failed", "zero"}
  /\ polls \in 0..MaxPolls
  /\ outcome \in {"running", "success", "error", "interrupted"}
  /\ (currentState = "end") = (outcome # "running")
  /\ said \in SUBSET {"deployed", "orphan"}
  /\ rollout \in {None, "inProgress", "completed", "failed"}
  /\ \A v \in Services : running[v].rev \in 1..Latest(running[v].family)

(* However often the user went back, what an interactive workflow is about *)
(* to change fits together: the revision is of the chosen family, the      *)
(* client, cluster and family are of one region, and the service is in the *)
(* cluster and runs the family.                                            *)
TargetIsConsistent ==
  flags.tty /\ currentState \in {"confirm", "askConfirm", "modify", "update"} =>
    /\ wf.def.family = wf.family
    /\ wf.region = wf.client
    /\ RegionOf[wf.cluster] = wf.client /\ RegionOf[wf.family] = wf.client
    /\ ClusterOf[wf.svc] = wf.cluster
    /\ running[wf.svc].family = wf.family

Changed == rollout # None \/ \E f \in Families : \E i \in 1..Latest(f) :
             defs[f][i].agents > FirstRevision(kind[f]).agents

(* "Perform a dry run: show what will be done, but do not modify ECS", and *)
(* an interactive workflow changes nothing without the user's consent.     *)
ChangesAreWanted == Changed => ~ flags.dryRun /\ (flags.tty => confirmed)

(* A task definition picked from the list never gets a second agent; one   *)
(* given by --task may.                                                    *)
PickedTaskHasOneAgent ==
  flags.task = None =>
    \A f \in Families : \A i \in 1..Latest(f) : defs[f][i].agents <= 1

(* modifyTaskState copies the revision that was read when the task was     *)
(* chosen, possibly long ago: the revision it registers is of an older     *)
(* version of the application only if somebody deployed in between, or if  *)
(* --task named an older revision, which is taken without a word; and      *)
(* going back to choose the task again brings it up to date.               *)
NoDeploymentUndone ==
  currentState = "update" /\ wf.at = others /\ flags.revision = 0 =>
    \A i \in 1..wf.def.rev : defs[wf.def.family][i].app <= defs[wf.def.family][wf.def.rev].app

(* loadClusterFromFlag and loadServiceFromFlag lose the error of a listing *)
(* and a workflow without a terminal goes on without a target: still it    *)
(* updates no service but the one it was given.                            *)
OtherServicesUntouched ==
  /\ rollout # None /\ flags.service # None => wf.svc = flags.service
  /\ others = 0 => \A v \in Services :
       rollout = None \/ v # wf.svc => running[v] = [family |-> FamilyOf[v], rev |-> 1]

(* updateServiceState explains what is left behind: if the workflow        *)
(* registered a revision and ends without a service running it, it says so.*)
OrphanIsReported ==
  (outcome # "running" /\ Changed /\ rollout = None) => "orphan" \in said

(* "Deployment successful!" is said of the revision with the agent, on the *)
(* service that was chosen, and never of a rollout that was read as under  *)
(* way or failed: it was read as completed, and is, or the last poll ended *)
(* in an error.  That error leaves a zero deployment behind, the loop ends *)
(* and the same words follow, so that nothing is known of the rollout      *)
(* then.                                                                   *)
AnnouncedServiceWasUpdated ==
  "deployed" \in said =>
    /\ wf.svc # None /\ running[wf.svc].family = wf.def.family
    /\ defs[wf.def.family][wf.def.rev].agents > FirstRevision(kind[wf.def.family]).agents
    /\ others = 0 => running[wf.svc] = wf.def
    /\ \/ seen = "completed" /\ rollout = "completed"
       \/ seen = "zero" /\ polls > 0 /\ rollout # None

(* A workflow that ends without an error although one was lost, or because *)
(* the user declined, has left AWS as it was, or has announced its work.   *)
SuccessIsComplete == outcome = "success" => ~ Changed \/ "deployed" \in said

Asking == currentState \in Choosing \cup {"askConfirm"}

(* When no flag answers a question in advance the workflow never runs on   *)
(* by itself: again and again it asks the user, or it has ended.  Every    *)
(* backtracking step says "Please select a different one or hit Ctrl+C to  *)
(* exit."                                                                  *)
AsksOrEnds ==
  {flags.region, flags.cluster, flags.task, flags.service} = {None}
    => []<>(Asking \/ currentState = "end")

(* Whatever way led there, the choices that are about to be acted on fit   *)
(* together, and AWS is changed only as wanted: not in a dry run, not      *)
(* without consent, without a second agent in a task that was picked,      *)
(* without undoing a deployment that could be seen (unless --task asks for *)
(* an older revision), and in no service but the chosen one (the state     *)
(* functions of add.go).                                                   *)
WorkflowInv ==
  /\ WorkflowTypeOK /\ TargetIsConsistent
  /\ ChangesAreWanted /\ PickedTaskHasOneAgent
  /\ NoDeploymentUndone /\ OtherServicesUntouched

(* What the workflow says in the end: it announces only a deployment that  *)
(* it began and that was completed when it last looked, unless that look   *)
(* failed; it mentions a revision it leaves behind; and it does not end    *)
(* without an error after a change it says nothing of.                     *)
EndIsExplained == AnnouncedServiceWasUpdated /\ OrphanIsReported /\ SuccessIsComplete
=============================================================================
