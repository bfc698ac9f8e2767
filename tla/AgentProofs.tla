---------------------------- MODULE AgentProofs ----------------------------
(***************************************************************************)
(* Proofs about Agent: the project the lookup finds, the files an install  *)
(* leaves, the events that report how a command ended, the rate-limited    *)
(* errors, and the halves the NGINX server keeps.                          *)
(*                                                                         *)
(* The parts of the agent share few variables.  For each part a lemma says *)
(* which of its own steps a step of the agent may be, and the invariants   *)
(* of the part are shown to be kept by those.                              *)
(***************************************************************************)
EXTENDS Agent, TLAPS

-----------------------------------------------------------------------------
(* The lookup *)

Owners == {"none", "others", "mine"}

LookupTypeOK ==
  /\ mapped \in Owners
  /\ lookup \in [pc : {"off", "list", "create", "relist", "hung", "found", "failed"},
                 retries : Nat, service : Owners]
  /\ trouble \in BOOLEAN

(* A conflict means that the collection is mapped, and it stays so. *)
LookupIInv ==
  /\ LookupTypeOK
  /\ lookup.pc \in {"relist", "found"} => mapped # "none"
  /\ LookupInv

(* What a step of the agent does to the lookup. *)
LookupSteps ==
  BeginLookup \/ LookupStep \/ OthersCreate \/ UNCHANGED lookupVars

-----------------------------------------------------------------------------
(* The install *)

SomeVersion == Versions \cup {NoVersion}

Early == {"version", "platform", "assets", "directory", "mkdir"}

InstallTypeOK ==
  /\ runs \in Nat
  /\ install \in [pc : Early \cup {"off", "download", "move", "hung", "unlink", "symlink", "returned",
                               "interrupted"},
                  dryRun : BOOLEAN, version : SomeVersion,
                  platform : {"none", "identified", "empty"},
                  destDir : BOOLEAN, saveDir : BOOLEAN,
                  error : {"none", "uninstalled", "unknown", "download", "unsupported", "copy",
                           "symlink"},
                  stage : Early \cup {"none", "download", "move", "hung", "unlink", "symlink"}]
  /\ nginx \in SomeVersion
  /\ temp \in {"none", "empty", "file"}
  /\ files \subseteq Versions
  /\ link \in SomeVersion
  /\ before \in (SUBSET Versions) \X SomeVersion

(* Up to Move the run has changed nothing; from then on the version is     *)
(* there to be linked, and the link is gone only at Symlink.  The          *)
(* temporary directory is as the pc says.                                  *)
InstallIInv ==
  LET i == install IN
  /\ InstallTypeOK
  /\ i.pc \in Early \cup {"download", "move", "hung"} => <<files, link>> = before
  /\ i.pc \in {"platform", "assets", "directory", "mkdir", "download", "move", "hung", "unlink",
               "symlink"} => i.version \in Versions
  /\ i.pc \in {"unlink", "symlink"} => i.version \in files
  /\ i.pc = "unlink" => link = before[2]
  /\ i.pc = "symlink" => link \in {before[2], NoVersion}
  /\ i.pc \in {"mkdir", "download", "move", "unlink", "symlink"} => ~i.dryRun
  /\ i.pc \in Early => temp = "none"
  /\ i.pc = "move" => temp = "file"
  /\ i.pc # "returned" => i.error = "none"
  /\ i.pc # "interrupted" => i.stage = "none"
  /\ i.pc = "off" => ~i.dryRun /\ (temp # "none" => runs \in excused)
  /\ InstallInv

(* A new process begins with the files of the last one. *)
Renew ==
  /\ install.pc \in {"off", "returned", "interrupted"}
  /\ install' = Ready /\ nginx' \in Versions /\ UNCHANGED <<runs, before, dirVars>>

InstallSteps ==
  \/ \E dry \in BOOLEAN : Begin(dry)
  \/ InstallStep \/ Interrupt \/ Renew \/ UNCHANGED installVars

-----------------------------------------------------------------------------
(* How a command ends *)

Exits == [error : {"none", "usage", "akita", "profile", "interrupt"}, code : {0, 1, 130}]

ExitTypeOK ==
  /\ command \in {"capture", "install", "lookup"}
  /\ main \in {"start", "init", "running", "failing", "exited"}
  /\ exit \in Exits
  /\ once \in {"fresh", "configure", "identity", "user", "failed", "hung", "derive", "done"}
  /\ client \in {"null", "amplitude"}
  /\ tracked \subseteq {"command line", "command execution"}
  /\ server \in {"off", "listening", "failed", "stopped"}

(* A command runs only when telemetry is set up and knows of it, and an    *)
(* install only as the command.  An error of the flags comes before the    *)
(* command line is tracked, any other one after it.                        *)
ExitIInv ==
  /\ ExitTypeOK
  /\ main = "start" => once = "fresh"
  /\ main = "running" => once = "done"
  /\ main = "running" \/ exit.error = "akita" =>
       (client = "amplitude" => "command line" \in tracked)
  /\ exit.error = "akita" => once = "done"
  /\ main \in {"start", "init", "running"} => exit.error = "none" /\ exit.code = 0
  /\ main = "failing" => exit.error \in {"usage", "akita"} /\ exit.code = 0
  /\ main \in {"start", "init", "failing"} \/ command # "install" => install.pc = "off"
  /\ main # "exited" => "command execution" \notin tracked
  /\ WhatIsReported

-----------------------------------------------------------------------------
(* Rate-limited errors *)

Record == [count : Nat, next : Int]
Pending(x) == {g \in Goroutines : reporter[g].context = x}

ReportTypeOK ==
  /\ clock \in Nat
  /\ limits \in [Contexts -> Record]
  /\ reporter \in [Goroutines -> [pc : {"idle", "counting", "resetting"},
                                  context : Contexts \cup {"none"}, loaded : Record, new : Record]]
  /\ made \in [Contexts -> Nat]
  /\ sends \in [Contexts -> Seq([at : Int, count : Nat])]
  /\ reported \in [Contexts -> Nat]
  /\ raced \in [Contexts -> BOOLEAN]

(* A goroutine inside RateLimitError holds a record of a context that has  *)
(* one, and its own call is not in the count it loaded.                    *)
HolderInv ==
  \A g \in Goroutines :
    LET r == reporter[g] IN
    /\ r.pc = "idle" <=> r.context = "none"
    /\ r.pc # "idle" =>
         /\ r.loaded.count + 1 < made[r.context]
         /\ r.new.count = 0
         /\ Duration <= r.loaded.next /\ r.loaded.next <= clock + Duration
         /\ Duration <= r.new.next /\ r.new.next <= clock + Duration
    /\ r.pc = "resetting" => r.loaded.next <= r.new.next - Duration

(* A context has a record once it was used. *)
RecordInv ==
  \A x \in Contexts :
    /\ made[x] = 0 => limits[x] = NoRecord /\ sends[x] = <<>>
    /\ made[x] > 0 => /\ Duration <= limits[x].next
                      /\ sends[x] # <<>> /\ sends[x][1].count = 1
                      /\ limits[x].count < made[x]
    /\ limits[x].next <= clock + Duration

(* As long as no two calls overlapped, the record loaded is the one that   *)
(* is there, and it was made when the last event was sent.                 *)
QuietInv ==
  \A x \in Contexts : ~raced[x] =>
    /\ \A g, h \in Pending(x) : g = h
    /\ \A g \in Pending(x) : reporter[g].loaded = limits[x]
    /\ made[x] > 0 => sends[x][Len(sends[x])].at = limits[x].next - Duration
    /\ \A i \in 1..(Len(sends[x]) - 1) : sends[x][i + 1].at - sends[x][i].at >= Duration
    /\ made[x] = reported[x] + limits[x].count + (IF Pending(x) = {} THEN 0 ELSE 1)

ReportIInv == ReportTypeOK /\ HolderInv /\ RecordInv /\ QuietInv

ReportSteps ==
  \/ \E g \in Goroutines : \E x \in Contexts : RateLimitError(g, x) /\ UNCHANGED clock
  \/ \E g \in Goroutines : StoreRecord(g)
  \/ ForgetReports /\ UNCHANGED clock
  \/ Tick
  \/ UNCHANGED <<clock, limitVars>>

-----------------------------------------------------------------------------
(* The NGINX server *)

Mirrors == UNION {MessagesOf[p] : p \in Profiles}
Held    == Mirrors \cup {NoMessage} \cup {Headers(m) : m \in Mirrors}
Damages == {"none", "early", "late"}
Results == {"none"} \cup UNION {ParseHTTP(m, d) : m \in Mirrors, d \in Damages}

ServerTypeOK ==
  /\ profile \in Profiles
  /\ call \in [Calls -> [pc : {"none", "process", "lookup", "store", "done"}, message : Held,
                         damage : Damages, result : Results, deserved : BOOLEAN, answer : {0, 200, 400, 404}]]
  /\ cache \subseteq Calls
  /\ uploads \subseteq SUBSET Calls
  /\ flusher \subseteq Calls
  /\ counted \subseteq Calls
  /\ crossed \subseteq SUBSET Calls

(* What a handler has done with its call so far. *)
CallInv ==
  \A c \in Calls :
    LET k == call[c] IN
    /\ k.pc # "none" => /\ k.message.kind \in {"request", "response", "other"}
                        /\ k.message.exchange # ZeroID
    /\ k.pc = "process" => k.message \in Mirrors
    /\ k.pc \in {"process", "lookup", "store"} =>
         GoesOn(k.message) /\ k.answer = FirstStatus(k.message)
    /\ c \in counted => GoesOn(k.message) /\ k.pc \in {"lookup", "store", "done"}
    /\ k.pc \in {"lookup", "store"} \/ k.result # "none" => c \in counted
    /\ k.pc = "done" /\ c \in counted =>
         k.answer = IF k.message.problem = "none" THEN 200 ELSE 400
    /\ k.pc = "done" /\ c \notin counted => k.answer \in {400, 404}

(* Counted calls that share a pair key, and those of them whose handlers   *)
(* are done.                                                               *)
SameKey(c, d) == c # d /\ Key(c) = Key(d)
Counted(c)    == c \in counted /\ call[c].pc = "done"
Waiting(c)    == c \in cache \/ call[c].pc = "store"

(* Two calls with the key of c excuse that a half is lost. *)
Excused(c) ==
  \E d, e \in Calls :
    /\ call[d].pc # "none" /\ call[e].pc # "none"
    /\ Key(d) = Key(c) /\ Key(e) = Key(c) /\ d # e
    /\ call[d].message.kind = call[e].message.kind \/ {d, e} \in crossed

KeptFor(c) == \E d \in Calls : call[d].pc # "none" /\ Key(d) = Key(c) /\ Kept(d)

(* The cache and the witnesses hold halves whose handlers are done, and    *)
(* the cache holds one per key.                                            *)
PlaceInv ==
  /\ \A c \in cache : Counted(c)
  /\ \A u \in uploads : \A c \in u : Counted(c)
  /\ \A c, d \in cache : ~SameKey(c, d)
  /\ \A q \in flusher : \E u \in uploads : q \in u

(* A handler about to store found nothing: whatever waits under its key    *)
(* now has crossed it.                                                     *)
CrossInv ==
  \A c, d \in Calls :
    call[c].pc = "store" /\ Waiting(d) /\ SameKey(c, d) => {c, d} \in crossed

(* If the half that periodicFlush is about to delete is no longer the one  *)
(* it uploaded, then a second call has taken or replaced that one, and by  *)
(* now there is an excuse for the loss of any third.                       *)
FlushInv ==
  \A q \in flusher :
    /\ q \notin cache => \E d \in Calls : Counted(d) /\ SameKey(q, d)
    /\ \A c \in Calls : Waiting(c) /\ SameKey(q, c) => Excused(q)

KeepInv ==
  \A c \in Finished : (Kept(c) \/ Excused(c)) /\ KeptFor(c)

ServerIInv ==
  ServerTypeOK /\ CallInv /\ PlaceInv /\ CrossInv /\ FlushInv /\ KeepInv /\ StrangersWereRefused

(* What a step of the agent does to the calls; the process that is ending  *)
(* forgets them.                                                           *)
Forget ==
  /\ call' = [c \in Calls |-> Fresh] /\ cache' = {} /\ flusher' = {}
  /\ uploads' = {} /\ counted' = {} /\ crossed' = {}
  /\ UNCHANGED profile

ServerSteps ==
  \/ \E c \in Calls : Receive(c) \/ Process(c) \/ Lookup(c) \/ Store(c)
  \/ FlushUpload \/ FlushDelete \/ Forget
  \/ UNCHANGED <<profile, callVars>>

-----------------------------------------------------------------------------
(* The type of the command alone decides the cases of BeginCommand. *)

CommandOK == command \in {"capture", "install", "lookup"}

(* The command of a process is one of the three and never changes.         *)
LEMMA CommandType == Spec => []CommandOK
<1>1. Init => CommandOK
  BY AgentAssumption DEF Init, CommandOK
<1>2. CommandOK /\ [Next]_vars => CommandOK'
  <2> SUFFICES ASSUME CommandOK, [Next]_vars
               PROVE  UNCHANGED command
    BY DEF CommandOK
  <2> QED
    BY DEF Next, vars, Start, InitializeTelemetry, ProfilingFails, BeginCommand, NoProject,
           CommandReturns, Fail, Time, Serve, Handle, Install, InterruptInstall, InstallAgain, LookUp, OtherAgents
<1> QED
  BY <1>1, <1>2, PTL DEF Spec

-----------------------------------------------------------------------------
(* The lookup *)

(* A step of the agent begins the lookup, is one of its steps or another   *)
(* agent's, or leaves it alone (GetOrCreateServiceIDByPostmanCollectionID).*)
LEMMA LookupProjection ==
  ASSUME CommandOK, [Next]_vars
  PROVE  LookupSteps
<1>1. CASE BeginCommand
  BY <1>1 DEF BeginCommand, LookupSteps, CommandOK
<1>2. CASE LookUp
  BY <1>2 DEF LookUp, LookupSteps
<1>3. CASE OtherAgents
  BY <1>3 DEF OtherAgents, LookupSteps
<1>4. CASE \/ Start \/ InitializeTelemetry \/ ProfilingFails \/ NoProject \/ CommandReturns \/ Fail
           \/ Time \/ Serve \/ (\E c \in Calls : Handle(c))
           \/ Install \/ InterruptInstall \/ InstallAgain \/ UNCHANGED vars
  BY <1>4 DEF LookupSteps, vars, Start, InitializeTelemetry, ProfilingFails, NoProject, CommandReturns, Fail,
              Time, Serve, Handle, Install, InterruptInstall, InstallAgain
<1> QED
  BY <1>1, <1>2, <1>3, <1>4 DEF Next

(* The project found is the one the collection is mapped to, whichever     *)
(* step of whichever agent comes next.                                     *)
LEMMA LookupKept ==
  ASSUME LookupIInv, LookupSteps
  PROVE  LookupIInv'
<1> USE LookupAssumption
<1>1. CASE BeginLookup
  BY <1>1 DEF BeginLookup, Goto, LookupIInv, LookupTypeOK, LookupInv, Owners
<1>a. ASSUME NEW pc \in {"create", "relist", "hung", "failed"}, Goto(pc), mapped' \in Owners,
             trouble' \in BOOLEAN, pc = "relist" => mapped' # "none", pc = "failed" => trouble'
      PROVE  LookupIInv'
  BY <1>a DEF Goto, LookupIInv, LookupTypeOK, LookupInv
<1>b. ASSUME NEW id \in Owners, Found(id), mapped' = id, id # "none", UNCHANGED trouble
      PROVE  LookupIInv'
  BY <1>b DEF Found, LookupIInv, LookupTypeOK, LookupInv
<1>c. ASSUME Retry, mapped' \in Owners, lookup.pc \in {"list", "create", "relist"},
             mapped # "none" => mapped' = mapped
      PROVE  LookupIInv'
  BY <1>c DEF Retry, LookupIInv, LookupTypeOK, LookupInv
<1>d. ASSUME GiveUp, mapped' \in Owners
      PROVE  LookupIInv'
  BY <1>a, <1>d DEF GiveUp
<1>f. ASSUME NoAnswer, mapped' \in Owners
      PROVE  LookupIInv'
  <2>1. trouble' \in BOOLEAN
    BY <1>f DEF NoAnswer, LookupIInv, LookupTypeOK
  <2> QED
    BY <1>a, <1>f, <2>1 DEF NoAnswer
<1>e. mapped \in Owners /\ trouble \in BOOLEAN /\ "mine" \in Owners /\ "mine" # "none"
  BY DEF LookupIInv, LookupTypeOK, Owners
<1>2. CASE ListServices
  <2>1. CASE mapped = "none" /\ Goto("create") /\ UNCHANGED <<trouble, mapped>>
    BY <2>1, <1>a, <1>e
  <2>2. CASE mapped # "none" /\ Found(mapped) /\ UNCHANGED <<trouble, mapped>>
    BY <2>2, <1>b, <1>e
  <2>3. CASE (Retry \/ GiveUp \/ NoAnswer) /\ UNCHANGED mapped
    BY <2>3, <1>2, <1>c, <1>d, <1>e, <1>f DEF ListServices
  <2> QED
    BY <1>2, <2>1, <2>2, <2>3 DEF ListServices
<1>3. CASE CreateService
  <2>1. CASE mapped = "none" /\ mapped' = "mine" /\ Found("mine") /\ UNCHANGED trouble
    BY <2>1, <1>b, <1>e
  <2>2. CASE mapped = "none" /\ mapped' = "mine" /\ (Retry \/ GiveUp \/ NoAnswer)
    BY <2>2, <1>3, <1>c, <1>d, <1>e, <1>f DEF CreateService
  <2>3. CASE mapped # "none" /\ Goto("relist") /\ UNCHANGED <<mapped, trouble>>
    BY <2>3, <1>a, <1>e
  <2>4. CASE (Retry \/ GiveUp \/ NoAnswer) /\ UNCHANGED mapped
    BY <2>4, <1>3, <1>c, <1>d, <1>e, <1>f DEF CreateService
  <2> QED
    BY <1>3, <2>1, <2>2, <2>3, <2>4 DEF CreateService
<1>4. CASE ListAgain
  <2>1. CASE Found(mapped) /\ UNCHANGED <<trouble, mapped>>
    BY <2>1, <1>4, <1>b, <1>e DEF ListAgain, LookupIInv
  <2>2. CASE (Retry \/ GiveUp \/ NoAnswer) /\ UNCHANGED mapped
    BY <2>2, <1>4, <1>c, <1>d, <1>e, <1>f DEF ListAgain
  <2> QED
    BY <1>4, <2>1, <2>2 DEF ListAgain, LookupIInv
<1>5. CASE OthersCreate
  BY <1>5 DEF OthersCreate, LookupIInv, LookupTypeOK, LookupInv, Owners
<1>6. CASE UNCHANGED lookupVars
  BY <1>6 DEF lookupVars, LookupIInv, LookupTypeOK, LookupInv, Owners
<1> QED
  BY <1>1, <1>2, <1>3, <1>4, <1>5, <1>6 DEF LookupSteps, LookupStep

(* However the creations of several agents and the retries of their        *)
(* requests interleave, an agent works with the project its collection is  *)
(* mapped to, and fails only if a request failed                           *)
(* (GetOrCreateServiceIDByPostmanCollectionID).                            *)
THEOREM LookupTheorem == Spec => [](LookupIInv /\ LookupInv)
<1>1. Init => LookupIInv
  <2>1. Init => mapped \in Owners /\ lookup.pc = "off"
    BY DEF Init, LookupInit, Owners
  <2>3. Init => trouble \in BOOLEAN
    BY Zenon DEF Init, LookupInit
  <2>2. Init => lookup \in [pc : {"off", "list", "create", "relist", "hung", "found", "failed"},
                            retries : Nat, service : Owners]
    BY DEF Init, LookupInit, Owners
  <2> QED
    BY <2>1, <2>2, <2>3 DEF LookupIInv, LookupTypeOK, LookupInv
<1>2. CommandOK /\ LookupIInv /\ [Next]_vars => LookupIInv'
  BY LookupProjection, LookupKept
<1>3. LookupIInv => LookupInv
  BY DEF LookupIInv
<1> QED
  BY <1>1, <1>2, <1>3, CommandType, PTL DEF Spec

-----------------------------------------------------------------------------
(* The install *)

(* A step of the agent begins, continues or interrupts an install, or      *)
(* starts a new process, or leaves the files alone (InstallModule).        *)
LEMMA InstallProjection ==
  ASSUME CommandOK, [Next]_vars
  PROVE  InstallSteps
<1>1. CASE BeginCommand
  BY <1>1 DEF BeginCommand, InstallSteps, CommandOK
<1>2. CASE Install
  BY <1>2 DEF Install, InstallSteps
<1>3. CASE InterruptInstall
  BY <1>3 DEF InterruptInstall, InstallSteps
<1>4. CASE InstallAgain
  BY <1>4 DEF InstallAgain, InstallSteps, Renew
<1>5. CASE \/ Start \/ InitializeTelemetry \/ ProfilingFails \/ NoProject \/ CommandReturns \/ Fail
           \/ Time \/ Serve \/ (\E c \in Calls : Handle(c))
           \/ LookUp \/ OtherAgents \/ UNCHANGED vars
  BY <1>5 DEF InstallSteps, vars, Start, InitializeTelemetry, ProfilingFails, NoProject, CommandReturns, Fail,
              Time, Serve, Handle, LookUp, OtherAgents
<1> QED
  BY <1>1, <1>2, <1>3, <1>4, <1>5 DEF Next

(* The end of a run, with the deferred removal of the directory.           *)
LEMMA ReturnKept ==
  ASSUME InstallIInv, NEW error \in {"none", "uninstalled", "unknown", "download", "unsupported",
                                     "copy", "symlink"},
         NEW save \in BOOLEAN, Return(error, save), install.pc # "interrupted",
         UNCHANGED <<runs, nginx, before, files, litter>>,
         link' \in SomeVersion,
         link' # NoVersion => link' \in files,
         install.dryRun => <<files, link'>> = before,
         ~install.dryRun /\ error = "none" => link' = install.version,
         error = "copy" <=> save,
         error = "copy" => temp = "file",
         error = "symlink" => install.version \in files,
         link' \in {before[2], install.version} \/ (link' = NoVersion /\ error = "symlink")
  PROVE  InstallIInv'
<1>1. /\ install' = [install EXCEPT !.pc = "returned", !.error = error, !.saveDir = save]
      /\ temp' = (IF save THEN temp ELSE "none")
      /\ excused' = (IF error = "copy" THEN excused \cup {runs} ELSE excused)
  BY DEF Return
<1>2. InstallTypeOK'
  BY <1>1 DEF InstallIInv, InstallTypeOK
<1>3. /\ install'.pc = "returned" /\ install'.error = error
      /\ install'.dryRun = install.dryRun /\ install'.version = install.version
      /\ install'.stage = "none"
  BY <1>1 DEF InstallIInv, InstallTypeOK
<1>4. InstallInv'
  BY <1>1, <1>3 DEF InstallIInv, InstallInv
<1> QED
  BY <1>2, <1>3, <1>4 DEF InstallIInv, Early

(* A step before the module is moved: nothing but the temporary directory  *)
(* changes.                                                                *)
LEMMA QuietKept ==
  ASSUME InstallIInv, InstallTypeOK',
         install.pc \in Early \cup {"download"},
         install'.pc \in {"platform", "assets", "directory", "mkdir", "download", "move", "hung"},
         install'.version \in Versions, install'.error = "none", install'.stage = "none",
         install'.dryRun = install.dryRun,
         install'.pc \in {"mkdir", "download", "move"} => ~install.dryRun,
         install'.pc \in Early => temp' = "none",
         install'.pc = "move" => temp' = "file",
         UNCHANGED <<runs, nginx, before, files, link, litter, excused>>
  PROVE  InstallIInv'
<1>1. <<files, link>> = before /\ link = before[2] /\ before[1] = files
  BY DEF InstallIInv, Early
<1>2. (link # NoVersion => link \in files) /\ litter \subseteq excused
  BY DEF InstallIInv, InstallInv
<1>3. InstallInv'
  BY <1>1, <1>2 DEF InstallInv
<1> QED
  BY <1>1, <1>3 DEF InstallIInv, Early

(* A step of InstallModule, whatever earlier runs left behind, and also    *)
(* the interruption of one.                                                *)
LEMMA InstallKept ==
  ASSUME InstallIInv, InstallSteps
  PROVE  InstallIInv'
<1> USE InstallAssumption
<1>0. /\ InstallTypeOK
      /\ link # NoVersion => link \in files
      /\ before[1] \subseteq files
      /\ litter \subseteq excused
  BY DEF InstallIInv, InstallInv
<1>a. ASSUME NEW e \in {"uninstalled", "unknown", "download", "unsupported"}, Return(e, FALSE),
             install.pc \in Early \cup {"download", "move"},
             UNCHANGED <<runs, nginx, before, files, link, litter>>
      PROVE  InstallIInv'
  <2>1. <<files, link>> = before /\ link = before[2] /\ link \in SomeVersion
    BY <1>a, <1>0 DEF InstallIInv, InstallTypeOK
  <2>2. install.pc # "interrupted"
    BY <1>a DEF Early
  <2> QED
    BY <1>a, <1>0, <2>1, <2>2, ReturnKept
<1>1. CASE \E dry \in BOOLEAN : Begin(dry)
  <2> PICK dry \in BOOLEAN : Begin(dry)
    BY <1>1
  <2>1. InstallTypeOK'
    <3>1. /\ install' = [pc |-> "version", dryRun |-> dry, version |-> NoVersion,
                         platform |-> "none", destDir |-> FALSE, saveDir |-> FALSE,
                         error |-> "none", stage |-> "none"]
          /\ runs' = runs + 1 /\ before' = <<files, link>> /\ temp' = "none"
          /\ UNCHANGED <<nginx, files, link>>
      BY DEF Begin, Ready
    <3>2. before' \in (SUBSET Versions) \X SomeVersion
      BY <3>1, <1>0 DEF InstallTypeOK
    <3> QED
      BY <3>1, <3>2, <1>0 DEF InstallTypeOK, SomeVersion, Early
  <2>2. install'.pc = "version" /\ install'.error = "none" /\ install'.stage = "none"
    BY <1>0 DEF Begin, Ready, InstallTypeOK
  <2>3. <<files', link'>> = before' /\ temp' = "none" /\ UNCHANGED <<files, link>>
    BY DEF Begin
  <2>4. litter' \subseteq excused'
    BY <1>0 DEF Begin, InstallIInv
  <2>5. link' \in {before'[2], install'.version} /\ before'[1] \subseteq files'
    BY <2>3
  <2> QED
    BY <2>1, <2>2, <2>3, <2>4, <2>5, <1>0 DEF InstallIInv, InstallInv, Early
<1>2. CASE Renew
  <2>1. /\ install' = Ready /\ UNCHANGED <<runs, before, temp, files, link, litter, excused>>
        /\ nginx' \in SomeVersion
    BY <1>2, <1>0 DEF Renew, dirVars, InstallTypeOK, SomeVersion
  <2>2. InstallTypeOK'
    BY <1>0, <2>1 DEF Ready, InstallTypeOK, SomeVersion, Early
  <2>3. install'.pc = "off" /\ install'.error = "none" /\ install'.stage = "none" /\ ~install'.dryRun
    BY <2>1 DEF Ready
  <2>4. temp' # "none" => runs' \in excused'
    BY <1>2, <2>1 DEF Renew, InstallIInv, InstallInv
  <2> QED
    BY <2>1, <2>2, <2>3, <2>4, <1>0 DEF InstallIInv, InstallInv, Early
<1>13. CASE Interrupt
  <2>1. /\ install.pc \notin {"off", "returned", "interrupted"}
        /\ install' = [install EXCEPT !.pc = "interrupted", !.stage = install.pc]
        /\ excused' = excused \cup {runs}
        /\ UNCHANGED <<runs, nginx, before, temp, files, link, litter>>
    BY <1>13 DEF Interrupt
  <2>2. InstallTypeOK'
    BY <1>0, <2>1 DEF InstallTypeOK
  <2>3. /\ install'.pc = "interrupted" /\ install'.error = "none"
        /\ install'.stage = install.pc /\ install'.version = install.version
        /\ install'.dryRun = install.dryRun
    BY <2>1, <1>0 DEF InstallIInv, InstallTypeOK
  <2>4. link \in {before[2], install.version} \/ (/\ link = NoVersion /\ install.version \in files
                                                 /\ install.pc = "symlink")
    BY <2>1, <1>0 DEF InstallIInv, InstallInv
  <2>5. litter' \subseteq excused' /\ runs' \in excused'
    BY <2>1, <1>0
  <2> QED
    BY <2>1, <2>2, <2>3, <2>4, <2>5, <1>0 DEF InstallIInv, InstallInv, Early
<1>3. CASE FindVersion
  <2>1. ASSUME NEW e \in {"uninstalled", "unknown"}, Return(e, FALSE)
        PROVE  InstallIInv'
    BY <1>3, <1>a, <2>1 DEF FindVersion, Step, Early
  <2>2. CASE /\ nginx # NoVersion
             /\ install' = [install EXCEPT !.pc = "platform", !.version = nginx]
             /\ UNCHANGED <<temp, excused>>
    <3>1. InstallTypeOK'
      BY <2>2, <1>3, <1>0 DEF FindVersion, InstallTypeOK, Early
    <3>2. /\ install.pc \in Early \cup {"download"} /\ install'.pc = "platform"
          /\ install'.version \in Versions /\ install'.error = "none"
          /\ install'.stage = "none" /\ install'.dryRun = install.dryRun
      BY <2>2, <1>3, <1>0 DEF FindVersion, Step, InstallIInv, InstallTypeOK, SomeVersion, Early
    <3>3. /\ UNCHANGED <<runs, nginx, before, files, link, litter, excused>>
          /\ install'.pc \in {"mkdir", "download", "move"} => ~install.dryRun
          /\ install'.pc \in Early => temp' = "none"
          /\ install'.pc = "move" => temp' = "file"
      BY <2>2, <1>3, <3>2 DEF FindVersion, Step, InstallIInv, Early
    <3> QED
      BY <3>1, <3>2, <3>3, QuietKept
  <2> QED
    BY <1>3, <2>1, <2>2 DEF FindVersion
<1>4. CASE FindPlatform
  <2>1. CASE Return("unknown", FALSE)
    BY <1>4, <1>a, <2>1 DEF FindPlatform, Step, Early
  <2>2. ASSUME NEW id \in {"identified", "empty"},
               install' = [install EXCEPT !.pc = "assets", !.platform = id],
               UNCHANGED <<temp, excused>>
        PROVE  InstallIInv'
    <3>1. InstallTypeOK'
      BY <2>2, <1>4, <1>0 DEF FindPlatform, InstallTypeOK, Early
    <3>2. /\ install.pc \in Early \cup {"download"} /\ install'.pc = "assets"
          /\ install'.version \in Versions /\ install'.error = "none"
          /\ install'.stage = "none" /\ install'.dryRun = install.dryRun
      BY <2>2, <1>4, <1>0 DEF FindPlatform, Step, InstallIInv, InstallTypeOK, SomeVersion, Early
    <3>3. /\ UNCHANGED <<runs, nginx, before, files, link, litter, excused>>
          /\ install'.pc \in {"mkdir", "download", "move"} => ~install.dryRun
          /\ install'.pc \in Early => temp' = "none"
          /\ install'.pc = "move" => temp' = "file"
      BY <2>2, <1>4, <3>2 DEF FindPlatform, Step, InstallIInv, Early
    <3> QED
      BY <3>1, <3>2, <3>3, QuietKept
  <2> QED
    BY <1>4, <2>1, <2>2 DEF FindPlatform
<1>5. CASE SelectAsset
  <2>1. ASSUME NEW e \in {"download", "unsupported"}, Return(e, FALSE)
        PROVE  InstallIInv'
    BY <1>5, <1>a, <2>1 DEF SelectAsset, Step, Early
  <2>2. CASE Continue("hung") /\ UNCHANGED <<temp, excused>>
    <3>1. InstallTypeOK'
      BY <2>2, <1>5, <1>0 DEF SelectAsset, Continue, InstallTypeOK, Early
    <3>2. /\ install.pc \in Early \cup {"download"} /\ install'.pc = "hung"
          /\ install'.version \in Versions /\ install'.error = "none"
          /\ install'.stage = "none" /\ install'.dryRun = install.dryRun
      BY <2>2, <1>5, <1>0 DEF SelectAsset, Continue, Step, InstallIInv, InstallTypeOK, SomeVersion, Early
    <3>3. /\ UNCHANGED <<runs, nginx, before, files, link, litter, excused>>
          /\ install'.pc \in {"mkdir", "download", "move"} => ~install.dryRun
          /\ install'.pc \in Early => temp' = "none"
          /\ install'.pc = "move" => temp' = "file"
      BY <2>2, <1>5, <3>2 DEF SelectAsset, Step, InstallIInv, Early
    <3> QED
      BY <3>1, <3>2, <3>3, QuietKept
  <2>3. CASE Continue("directory") /\ UNCHANGED <<temp, excused>>
    <3>1. InstallTypeOK'
      BY <2>3, <1>5, <1>0 DEF SelectAsset, Continue, InstallTypeOK, Early
    <3>2. /\ install.pc \in Early \cup {"download"} /\ install'.pc = "directory"
          /\ install'.version \in Versions /\ install'.error = "none"
          /\ install'.stage = "none" /\ install'.dryRun = install.dryRun
      BY <2>3, <1>5, <1>0 DEF SelectAsset, Continue, Step, InstallIInv, InstallTypeOK, SomeVersion, Early
    <3>3. /\ UNCHANGED <<runs, nginx, before, files, link, litter, excused>>
          /\ install'.pc \in {"mkdir", "download", "move"} => ~install.dryRun
          /\ install'.pc \in Early => temp' = "none"
          /\ install'.pc = "move" => temp' = "file"
      BY <2>3, <1>5, <3>2 DEF SelectAsset, Step, InstallIInv, Early
    <3> QED
      BY <3>1, <3>2, <3>3, QuietKept
  <2> QED
    BY <1>5, <2>1, <2>2, <2>3 DEF SelectAsset
<1>6. CASE FindModuleDir
  <2> PICK found \in BOOLEAN :
        IF install.dryRun THEN Return("none", FALSE)
        ELSE /\ install' = [install EXCEPT !.pc = "mkdir", !.destDir = found]
             /\ UNCHANGED <<temp, excused>>
    BY <1>6 DEF FindModuleDir
  <2>1. CASE install.dryRun
    <3>1. /\ Return("none", FALSE) /\ install.pc = "directory"
          /\ UNCHANGED <<runs, nginx, before, files, link, litter>>
      BY <1>6, <2>1 DEF FindModuleDir, Step
    <3>2. <<files, link>> = before /\ link = before[2] /\ link \in SomeVersion
      BY <3>1, <1>0 DEF InstallIInv, InstallTypeOK, Early
    <3> QED
      BY <3>1, <3>2, <1>0, <2>1, ReturnKept
  <2>2. CASE ~install.dryRun
    <3>1. InstallTypeOK'
      <4>1. install' = [install EXCEPT !.pc = "mkdir", !.destDir = found]
        BY <2>2
      <4>2. UNCHANGED <<runs, nginx, before, temp, files, link, litter, excused>>
        BY <2>2, <1>6 DEF FindModuleDir
      <4> QED
        BY <4>1, <4>2, <1>0 DEF InstallTypeOK, Early
    <3>2. /\ install.pc \in Early \cup {"download"} /\ install'.pc = "mkdir"
          /\ install'.version \in Versions /\ install'.error = "none"
          /\ install'.stage = "none" /\ install'.dryRun = install.dryRun
      BY <2>2, <1>6, <1>0 DEF FindModuleDir, Step, InstallIInv, InstallTypeOK, SomeVersion, Early
    <3>3. /\ UNCHANGED <<runs, nginx, before, files, link, litter, excused>>
          /\ install'.pc \in {"mkdir", "download", "move"} => ~install.dryRun
          /\ install'.pc \in Early => temp' = "none"
          /\ install'.pc = "move" => temp' = "file"
      BY <2>2, <1>6, <3>2 DEF FindModuleDir, Step, InstallIInv, Early
    <3> QED
      BY <3>1, <3>2, <3>3, QuietKept
  <2> QED
    BY <2>1, <2>2
<1>7. CASE MkdirTemp
  <2>1. CASE Return("download", FALSE)
    BY <1>7, <1>a, <2>1 DEF MkdirTemp, Step, Early
  <2>2. CASE temp' = "empty" /\ Continue("download") /\ UNCHANGED excused
    <3>1. InstallTypeOK'
      BY <2>2, <1>7, <1>0 DEF MkdirTemp, Continue, InstallTypeOK, Early
    <3>2. /\ install.pc \in Early \cup {"download"} /\ install'.pc = "download"
          /\ install'.version \in Versions /\ install'.error = "none"
          /\ install'.stage = "none" /\ install'.dryRun = install.dryRun
      BY <2>2, <1>7, <1>0 DEF MkdirTemp, Continue, Step, InstallIInv, InstallTypeOK, SomeVersion, Early
    <3>3. /\ UNCHANGED <<runs, nginx, before, files, link, litter, excused>>
          /\ install'.pc \in {"mkdir", "download", "move"} => ~install.dryRun
          /\ install'.pc \in Early => temp' = "none"
          /\ install'.pc = "move" => temp' = "file"
      BY <2>2, <1>7, <3>2 DEF MkdirTemp, Step, InstallIInv, Early
    <3> QED
      BY <3>1, <3>2, <3>3, QuietKept
  <2> QED
    BY <1>7, <2>1, <2>2 DEF MkdirTemp
<1>8. CASE Download
  <2>1. CASE Return("download", FALSE)
    BY <1>8, <1>a, <2>1 DEF Download, Step, Early
  <2>2. CASE temp' = "file" /\ Continue("move") /\ UNCHANGED excused
    <3>1. InstallTypeOK'
      BY <2>2, <1>8, <1>0 DEF Download, Continue, InstallTypeOK, Early
    <3>2. /\ install.pc \in Early \cup {"download"} /\ install'.pc = "move"
          /\ install'.version \in Versions /\ install'.error = "none"
          /\ install'.stage = "none" /\ install'.dryRun = install.dryRun
      BY <2>2, <1>8, <1>0 DEF Download, Continue, Step, InstallIInv, InstallTypeOK, SomeVersion, Early
    <3>3. /\ UNCHANGED <<runs, nginx, before, files, link, litter, excused>>
          /\ install'.pc \in {"mkdir", "download", "move"} => ~install.dryRun
          /\ install'.pc \in Early => temp' = "none"
          /\ install'.pc = "move" => temp' = "file"
      BY <2>2, <1>8, <3>2 DEF Download, Step, InstallIInv, Early
    <3> QED
      BY <3>1, <3>2, <3>3, QuietKept
  <2>3. CASE temp' = "file" /\ Continue("hung") /\ UNCHANGED excused
    <3>1. InstallTypeOK'
      BY <2>3, <1>8, <1>0 DEF Download, Continue, InstallTypeOK, Early
    <3>2. /\ install.pc \in Early \cup {"download"} /\ install'.pc = "hung"
          /\ install'.version \in Versions /\ install'.error = "none"
          /\ install'.stage = "none" /\ install'.dryRun = install.dryRun
      BY <2>3, <1>8, <1>0 DEF Download, Continue, Step, InstallIInv, InstallTypeOK, SomeVersion, Early
    <3>3. /\ UNCHANGED <<runs, nginx, before, files, link, litter, excused>>
          /\ install'.pc \in {"mkdir", "download", "move"} => ~install.dryRun
          /\ install'.pc \in Early => temp' = "none"
          /\ install'.pc = "move" => temp' = "file"
      BY <2>3, <1>8, <3>2 DEF Download, Step, InstallIInv, Early
    <3> QED
      BY <3>1, <3>2, <3>3, QuietKept
  <2> QED
    BY <1>8, <2>1, <2>2, <2>3 DEF Download
<1>9. CASE Move
  <2>1. CASE Return("copy", TRUE) /\ UNCHANGED files
    <3>1. /\ <<files, link>> = before /\ link = before[2] /\ link \in SomeVersion
          /\ temp = "file" /\ ~install.dryRun
      BY <1>9, <1>0 DEF Move, Step, InstallIInv, InstallTypeOK
    <3>2. /\ Return("copy", TRUE) /\ install.pc # "interrupted"
          /\ UNCHANGED <<runs, nginx, before, files, link, litter>>
      BY <1>9, <2>1 DEF Move, Step
    <3> QED
      BY <1>0, <3>1, <3>2, ReturnKept
  <2>2. CASE /\ files' = files \cup {install.version} /\ temp' = "empty" /\ Continue("unlink")
             /\ UNCHANGED excused
    <3>0. install.version \in Versions
      BY <1>9 DEF Move, Step, InstallIInv
    <3>1. InstallTypeOK'
      BY <2>2, <1>9, <1>0, <3>0 DEF Move, Continue, InstallTypeOK, Early
    <3>2. /\ install'.pc = "unlink" /\ install'.version = install.version
          /\ install'.error = "none" /\ install'.stage = "none" /\ ~install'.dryRun
      BY <2>2, <1>9, <1>0 DEF Move, Continue, Step, InstallIInv, InstallTypeOK
    <3>3. /\ UNCHANGED <<runs, link, before, litter, excused>>
          /\ install.version \in files' /\ files \subseteq files'
      BY <2>2, <1>9 DEF Move
    <3>4. link = before[2]
      BY <1>9 DEF Move, Step, InstallIInv
    <3>5. InstallInv'
      BY <3>2, <3>3, <3>4, <1>0 DEF InstallInv
    <3> QED
      BY <3>0, <3>1, <3>2, <3>3, <3>4, <3>5 DEF InstallIInv, Early
  <2> QED
    BY <1>9, <2>1, <2>2 DEF Move
<1>10. CASE RemoveLink
  <2>1. InstallTypeOK'
    BY <1>10, <1>0 DEF RemoveLink, Continue, InstallTypeOK, SomeVersion, Early
  <2>2. /\ install'.pc = "symlink" /\ install'.version = install.version
        /\ install'.error = "none" /\ install'.stage = "none" /\ ~install'.dryRun
    BY <1>10, <1>0 DEF RemoveLink, Continue, Step, InstallIInv, InstallTypeOK
  <2>3. /\ UNCHANGED <<runs, files, before, litter, excused>> /\ install.version \in files
        /\ install.version \in Versions /\ link' \in {link, NoVersion} /\ link = before[2]
    BY <1>10 DEF RemoveLink, Step, InstallIInv
  <2>4. InstallInv'
    BY <2>2, <2>3, <1>0 DEF InstallInv
  <2> QED
    BY <2>1, <2>2, <2>3, <2>4 DEF InstallIInv, Early
<1>11. CASE Symlink
  <2>1. /\ ~install.dryRun /\ install.version \in files /\ install.version \in Versions
        /\ link \in {before[2], NoVersion} /\ install.pc # "interrupted"
        /\ UNCHANGED <<runs, nginx, before, files, litter>>
    BY <1>11 DEF Symlink, Step, InstallIInv
  <2>2. CASE Return("symlink", FALSE) /\ UNCHANGED link
    <3>1. link' \in SomeVersion
      BY <2>2, <1>0 DEF InstallTypeOK
    <3> QED
      BY <1>0, <2>1, <2>2, <3>1, ReturnKept
  <2>3. CASE link' = install.version /\ Return("none", FALSE)
    <3>1. link' \in SomeVersion
      BY <2>3, <2>1 DEF SomeVersion
    <3> QED
      BY <1>0, <2>1, <2>3, <3>1, ReturnKept
  <2> QED
    BY <1>11, <2>2, <2>3 DEF Symlink
<1>12. CASE UNCHANGED installVars
  BY <1>12 DEF installVars, dirVars, InstallIInv, InstallTypeOK, InstallInv
<1> QED
  BY <1>1, <1>2, <1>3, <1>4, <1>5, <1>6, <1>7, <1>8, <1>9, <1>10, <1>11, <1>12, <1>13
  DEF InstallSteps, InstallStep

(* Whatever earlier runs left behind, and of interrupted runs too: the     *)
(* link never dangles, success means that the version found is linked, a   *)
(* remedy names a file that is there, and the link is lost only where      *)
(* Symlink fails or the run is interrupted just before it, with the new    *)
(* module in place; temporary directories are left only by interrupted     *)
(* runs and as a remedy (InstallModule).                                   *)
THEOREM InstallTheorem == Spec => [](InstallIInv /\ InstallInv)
<1>1. Init => InstallIInv
  <2> SUFFICES ASSUME Init
               PROVE  InstallIInv
    OBVIOUS
  <2>1. InstallInit
    BY DEF Init
  <2>2. InstallTypeOK
    BY <2>1 DEF InstallInit, Ready, InstallTypeOK, SomeVersion, Early
  <2>3. install.pc = "off" /\ install.error = "none" /\ install.stage = "none" /\ ~install.dryRun
    BY <2>1 DEF InstallInit, Ready
  <2>4. before[1] = {} /\ files = {} /\ link = NoVersion /\ temp = "none" /\ litter = {} /\ excused = {}
    BY <2>1 DEF InstallInit
  <2>5. InstallInv
    BY <2>3, <2>4 DEF InstallInv
  <2> QED
    BY <2>2, <2>3, <2>4, <2>5 DEF InstallIInv, Early
<1>2. CommandOK /\ InstallIInv /\ [Next]_vars => InstallIInv'
  BY InstallProjection, InstallKept
<1>3. InstallIInv => InstallInv
  BY DEF InstallIInv
<1> QED
  BY <1>1, <1>2, <1>3, CommandType, PTL DEF Spec

-----------------------------------------------------------------------------
(* How a command ends *)

(* The events about the command are the only ones kept.                    *)
LEMMA Tracking ==
  /\ \A names : TryTrackingEvents(names) =>
       /\ once = "done"
       /\ tracked' = IF client = "amplitude" THEN tracked \cup names ELSE tracked
  /\ TryTrackingEvents({}) => UNCHANGED tracked
  /\ ReportAPIError => UNCHANGED tracked
<1>1. tracked \cup {} = tracked
  OBVIOUS
<1> QED
  BY <1>1 DEF TryTrackingEvents, ReportAPIError

(* A step in which the command does its work leaves the process and the    *)
(* client alone.                                                           *)
LEMMA WorkKept ==
  ASSUME ExitIInv, main = "running", server' \in {"off", "listening", "failed", "stopped"},
         UNCHANGED <<once, client, tracked, command, main, exit>>,
         command # "install" => install'.pc = "off"
  PROVE  ExitIInv'
<1>1. ExitTypeOK'
  BY DEF ExitIInv, ExitTypeOK
<1>2. WhatIsReported'
  BY DEF WhatIsReported
<1> QED
  BY <1>1, <1>2 DEF ExitIInv

(* A step of main, of a command or of another agent.                       *)
LEMMA ExitKept ==
  ASSUME ExitIInv, InstallIInv, [Next]_vars
  PROVE  ExitIInv'
<1>0. /\ ExitTypeOK
      /\ install.pc # "returned" => install.error = "none"
  BY DEF ExitIInv, InstallIInv
<1>1. CASE Start
  <2>1. /\ main = "start" /\ once' = "configure" /\ main' \in {"init", "failing"}
        /\ main' = "init" => exit' = exit
        /\ main' = "failing" => exit' = [exit EXCEPT !.error = "usage"]
        /\ UNCHANGED <<client, tracked, server, install, command>>
    BY <1>1 DEF Start, serverVars, installVars
  <2>2. exit.error = "none" /\ exit.code = 0 /\ install.pc = "off"
    BY <2>1 DEF ExitIInv
  <2>3. /\ exit' \in Exits /\ exit'.code = 0
        /\ exit'.error = IF main' = "init" THEN "none" ELSE "usage"
    BY <1>0, <2>1, <2>2 DEF ExitTypeOK, Exits
  <2>4. ExitTypeOK'
    BY <1>0, <2>1, <2>3 DEF ExitTypeOK
  <2> QED
    BY <2>1, <2>2, <2>3, <2>4 DEF ExitIInv, WhatIsReported
<1>2. CASE InitializeTelemetry
  <2>1. /\ UNCHANGED <<command, main, exit, server, install, tracked>>
        /\ once \notin {"fresh", "done"}
        /\ once' \in {"identity", "user", "failed", "hung", "derive", "done"}
        /\ client' \in {"null", "amplitude"}
    <3>1. DoInit /\ UNCHANGED <<command, main, exit, server, install>>
      BY <1>2 DEF InitializeTelemetry, serverVars, installVars
    <3>2. CASE Configure
      BY <3>1, <3>2, <1>0 DEF Configure, ExitTypeOK
    <3>6. CASE GetUserIdentity
      BY <3>1, <3>6, <1>0 DEF GetUserIdentity, ExitTypeOK
    <3>3. CASE GetUser
      BY <3>1, <3>3, <1>0 DEF GetUser, ExitTypeOK
    <3>4. CASE GetUserFailed
      BY <3>1, <3>4, <1>0, Tracking DEF GetUserFailed, ExitTypeOK
    <3>5. CASE DeriveIdentity
      BY <3>1, <3>5, <1>0 DEF DeriveIdentity, ExitTypeOK
    <3> QED
      BY <3>1, <3>2, <3>3, <3>4, <3>5, <3>6 DEF DoInit
  <2>2. main \in {"init", "failing", "exited"}
    BY <2>1, <1>0 DEF ExitIInv, ExitTypeOK
  <2>3. main = "exited" => exit.error = "interrupt"
    BY <2>1 DEF ExitIInv, WhatIsReported
  <2>4. exit.error # "akita"
    BY <2>1 DEF ExitIInv
  <2>5. ExitTypeOK'
    BY <1>0, <2>1 DEF ExitTypeOK
  <2> QED
    BY <2>1, <2>2, <2>3, <2>4, <2>5 DEF ExitIInv, WhatIsReported
<1>15. CASE ProfilingFails
  <2>1. /\ main = "init" /\ main' = "exited" /\ once = "done"
        /\ exit' = [error |-> "profile", code |-> 1]
        /\ tracked' = IF client = "amplitude" THEN tracked \cup {"command line"} ELSE tracked
        /\ UNCHANGED <<once, client, server, command, install>>
    BY <1>15, Tracking DEF ProfilingFails, serverVars, installVars
  <2>2. install'.error = "none" /\ install'.pc = "off" /\ "command execution" \notin tracked'
    BY <1>0, <2>1 DEF ExitIInv
  <2>3. ExitTypeOK'
    BY <1>0, <2>1 DEF ExitTypeOK, Exits
  <2>4. exit'.error = "profile" /\ exit'.code = 1
    BY <2>1
  <2>5. client' = "amplitude" => "command line" \in tracked'
    BY <2>1
  <2>6. WhatIsReported'
    <3>1. once' = "done" /\ exit'.code = (IF exit'.error = "none" THEN 0 ELSE 1)
      BY <2>1, <2>4
    <3>2. exit'.code # 0
      BY <2>4
    <3>3. /\ "command execution" \notin tracked'
          /\ exit'.error \notin {"usage", "akita"} /\ install'.error = "none"
      BY <2>2, <2>4
    <3> QED
      BY <2>5, <3>1, <3>2, <3>3 DEF WhatIsReported
  <2> QED
    BY <2>1, <2>2, <2>3, <2>4, <2>6 DEF ExitIInv
<1>3. CASE BeginCommand
  <2>1. /\ main = "init" /\ main' = "running" /\ once = "done"
        /\ tracked' = IF client = "amplitude" THEN tracked \cup {"command line"} ELSE tracked
        /\ UNCHANGED <<once, client, server, command, exit>>
    BY <1>3, Tracking DEF BeginCommand, serverVars
  <2>2. command # "install" => UNCHANGED install
    BY <1>3, <1>0 DEF BeginCommand, installVars, ExitTypeOK
  <2>3. ExitTypeOK'
    BY <1>0, <2>1 DEF ExitTypeOK
  <2> QED
    BY <2>1, <2>2, <2>3 DEF ExitIInv, WhatIsReported
<1>4. CASE NoProject
  <2>1. /\ main = "running" /\ main' = "failing" /\ command = "capture"
        /\ exit' = [exit EXCEPT !.error = "usage"]
        /\ UNCHANGED <<once, client, tracked, server, command, install>>
    BY <1>4 DEF NoProject, telemetryVars, initVars, serverVars, installVars
  <2>2. exit' \in Exits /\ exit'.error = "usage" /\ exit'.code = 0
    BY <1>0, <2>1 DEF ExitIInv, ExitTypeOK, Exits
  <2>3. ExitTypeOK'
    BY <1>0, <2>1, <2>2 DEF ExitTypeOK
  <2> QED
    BY <2>1, <2>2, <2>3 DEF ExitIInv, WhatIsReported
<1>5. CASE CommandReturns
  <2>0. /\ main = "running" /\ once = "done" /\ exit.error = "none" /\ exit.code = 0
        /\ client = "amplitude" => "command line" \in tracked
        /\ UNCHANGED <<once, client, server, command, install>>
        /\ command # "install" => install.pc = "off"
        /\ "command execution" \notin tracked
    BY <1>5 DEF CommandReturns, ExitIInv, serverVars, installVars
  <2>1. CASE command = "capture"
    <3>1. /\ UNCHANGED tracked
          /\ \/ server = "failed" /\ main' = "exited" /\ UNCHANGED exit
             \/ server = "stopped" /\ main' = "failing" /\ exit' = [exit EXCEPT !.error = "usage"]
      BY <1>5, <2>1 DEF CommandReturns
    <3>2. /\ exit' \in Exits /\ exit'.code = 0
          /\ exit'.error = IF main' = "failing" THEN "usage" ELSE "none"
      <4>0. exit \in Exits
        BY <1>0 DEF ExitTypeOK
      <4>1. CASE main' = "exited" /\ exit' = exit
        BY <4>0, <4>1, <2>0
      <4>2. CASE main' = "failing" /\ exit' = [exit EXCEPT !.error = "usage"]
        BY <4>0, <4>2, <2>0 DEF Exits
      <4> QED
        BY <3>1, <4>1, <4>2
    <3>3. ExitTypeOK'
      BY <1>0, <2>0, <3>1, <3>2 DEF ExitTypeOK
    <3>4. WhatIsReported'
      <4>1. once' = "done" /\ client' = client /\ install'.error = "none"
        BY <1>0, <2>0, <2>1
      <4>2. client' = "amplitude" => "command line" \in tracked'
        BY <4>1, <2>0, <3>1
      <4>3. main' = "exited" => server' = "failed"
        BY <3>1, <2>0
      <4>4. exit'.code = 0 /\ (main' = "exited" => exit'.error = "none")
        BY <3>1, <3>2
      <4>5. "command execution" \notin tracked'
        BY <2>0, <3>1
      <4> QED
        BY <4>1, <4>2, <4>3, <4>4, <4>5 DEF WhatIsReported
    <3> QED
      BY <2>0, <2>1, <3>1, <3>2, <3>3, <3>4 DEF ExitIInv
  <2>2. CASE command = "install"
    <3>1. main' = "exited" /\ UNCHANGED exit
      BY <1>5, <2>2 DEF CommandReturns
    <3>2. \/ install.error = "none" /\ UNCHANGED tracked
          \/ tracked' = IF client = "amplitude" THEN tracked \cup {"command execution"} ELSE tracked
      BY <1>5, <2>2, Tracking DEF CommandReturns
    <3>3. ExitTypeOK'
      BY <1>0, <2>0, <3>1, <3>2 DEF ExitTypeOK
    <3>4. WhatIsReported'
      <4>1. once' = "done" /\ client' = client /\ install' = install /\ command' # "capture"
        BY <2>0, <2>2
      <4>2. client' = "amplitude" => "command line" \in tracked'
        BY <4>1, <2>0, <3>2
      <4>3. client' = "amplitude" => ("command execution" \in tracked' <=> install'.error # "none")
        <5>1. CASE install.error = "none"
          BY <5>1, <4>1, <3>2, <1>5, <2>2, <2>0 DEF CommandReturns
        <5>2. CASE install.error # "none"
          BY <5>2, <4>1, <3>2
        <5> QED
          BY <5>1, <5>2
      <4>4. exit'.code = 0 /\ exit'.error = "none"
        <5>1. exit' = exit
          BY <3>1
        <5>2. exit.code = 0 /\ exit.error = "none"
          BY <2>0
        <5> QED
          BY <5>1, <5>2
      <4> QED
        BY <4>1, <4>2, <4>3, <4>4 DEF WhatIsReported
    <3> QED
      BY <2>0, <2>2, <3>1, <3>2, <3>3, <3>4 DEF ExitIInv
  <2>3. CASE command = "lookup"
    <3>1. /\ UNCHANGED tracked
          /\ \/ main' = "exited" /\ UNCHANGED exit
             \/ main' = "failing" /\ exit' = [exit EXCEPT !.error = "akita"]
      BY <1>5, <2>3 DEF CommandReturns
    <3>2. /\ exit' \in Exits /\ exit'.code = 0
          /\ exit'.error = IF main' = "failing" THEN "akita" ELSE "none"
      <4>0. exit \in Exits
        BY <1>0 DEF ExitTypeOK
      <4>1. CASE main' = "exited" /\ exit' = exit
        BY <4>0, <4>1, <2>0
      <4>2. CASE main' = "failing" /\ exit' = [exit EXCEPT !.error = "akita"]
        BY <4>0, <4>2, <2>0 DEF Exits
      <4> QED
        BY <3>1, <4>1, <4>2
    <3>3. ExitTypeOK'
      BY <1>0, <2>0, <3>1, <3>2 DEF ExitTypeOK
    <3>4. WhatIsReported'
      <4>1. once' = "done" /\ client' = client /\ install'.error = "none" /\ command' # "capture"
        BY <1>0, <2>0, <2>3
      <4>2. client' = "amplitude" => "command line" \in tracked'
        BY <4>1, <2>0, <3>1
      <4>4. exit'.code = 0 /\ (main' = "exited" => exit'.error = "none")
        BY <3>1, <3>2
      <4>5. "command execution" \notin tracked'
        BY <2>0, <3>1
      <4> QED
        BY <4>1, <4>2, <4>4, <4>5 DEF WhatIsReported
    <3> QED
      BY <2>0, <2>3, <3>1, <3>2, <3>3, <3>4 DEF ExitIInv
  <2> QED
    BY <1>0, <2>1, <2>2, <2>3 DEF ExitTypeOK
<1>6. CASE Fail
  <2>1. /\ main = "failing" /\ main' = "exited" /\ exit' = [exit EXCEPT !.code = 1] /\ once = "done"
        /\ tracked' = IF client = "amplitude"
                      THEN tracked \cup ({"command execution"} \cup
                                         (IF exit.error = "akita" THEN {} ELSE {"command line"}))
                      ELSE tracked
        /\ UNCHANGED <<once, client, server, command, install>>
    BY <1>6, Tracking DEF Fail, serverVars, installVars
  <2>2. exit'.code = 1 /\ exit'.error = exit.error /\ exit.error \in {"usage", "akita"}
    BY <1>0, <2>1 DEF ExitIInv, ExitTypeOK, Exits
  <2>3. exit' \in Exits
    BY <1>0, <2>1 DEF ExitTypeOK, Exits
  <2>4. ExitTypeOK'
    BY <1>0, <2>1, <2>3 DEF ExitTypeOK
  <2>5. client = "amplitude" => {"command line", "command execution"} \subseteq tracked'
    BY <2>1 DEF ExitIInv
  <2>6. WhatIsReported'
    <3>1. once' = "done"
      BY <2>1
    <3>3. client' = client
      BY <2>1
    <3>4. exit'.code = 1 /\ exit'.error \in {"usage", "akita"}
      BY <2>2
    <3>2. client' = "amplitude" => "command line" \in tracked' /\ "command execution" \in tracked'
      BY <3>3, <2>5
    <3>5. exit'.code = (IF exit'.error = "none" THEN 0 ELSE 1) /\ exit'.code # 0
      BY <3>4
    <3> QED
      BY <3>1, <3>2, <3>4, <3>5 DEF WhatIsReported
  <2> QED
    BY <2>1, <2>2, <2>4, <2>5, <2>6 DEF ExitIInv
<1>7. CASE Time
  BY <1>0, <1>7, WorkKept
  DEF Time, Serving, Tick, initVars, serverVars, installVars, ExitIInv, ExitTypeOK
<1>8. CASE Serve
  <2>1. /\ main = "running" /\ UNCHANGED <<install, command, main, exit>>
    BY <1>8 DEF Serve, Serving, installVars
  <2>2. /\ server' \in {"off", "listening", "failed", "stopped"}
        /\ UNCHANGED <<once, client, tracked>>
    <3>1. CASE BackendFails
      BY <3>1, Tracking DEF BackendFails
    <3>2. CASE BackendStarts
      BY <3>2, Tracking DEF BackendStarts
    <3>3. CASE ListenFails
      BY <3>3, Tracking DEF ListenFails
    <3>4. CASE FlushUpload \/ FlushDelete
      BY <3>4, <1>0 DEF FlushUpload, FlushDelete, telemetryVars, initVars, ExitTypeOK
    <3>5. CASE \E c \in Calls : Receive(c)
      BY <3>5, <1>0 DEF Receive, initVars, ExitTypeOK
    <3> QED
      BY <1>8, <3>1, <3>2, <3>3, <3>4, <3>5 DEF Serve
  <2> QED
    BY <2>1, <2>2, WorkKept DEF ExitIInv
<1>9. CASE \E c \in Calls : Handle(c)
  <2> PICK c \in Calls : Handle(c)
    BY <1>9
  <2>1. /\ main = "running" /\ UNCHANGED <<install, command, main, exit>>
    BY DEF Handle, Serving, installVars
  <2>2. UNCHANGED <<server, once, client, tracked>>
    BY DEF Handle, CallStep, Process, Lookup, Store, Report, StoreRecord, telemetryVars, initVars,
           serverVars
  <2> QED
    BY <1>0, <2>1, <2>2, WorkKept DEF ExitIInv, ExitTypeOK
<1>10. CASE Install
  <2>1. /\ main = "running"
        /\ UNCHANGED <<once, client, tracked, server, command, main, exit>>
    BY <1>10 DEF Install, telemetryVars, initVars, serverVars
  <2>2. install.pc # "off"
    BY <1>10 DEF Install, InstallStep, FindVersion, FindPlatform, SelectAsset, FindModuleDir,
                 MkdirTemp, Download, Move, RemoveLink, Symlink, Step
  <2> QED
    BY <1>0, <2>1, <2>2, WorkKept DEF ExitIInv, ExitTypeOK
<1>11. CASE InterruptInstall
  <2>1. /\ main = "running" /\ main' = "exited" /\ install.pc # "off"
        /\ exit' = [error |-> "interrupt", code |-> 130]
        /\ UNCHANGED <<once, client, tracked, server, command>>
    BY <1>11 DEF InterruptInstall, Interrupt, telemetryVars, initVars, serverVars
  <2>2. command = "install" /\ exit'.error = "interrupt"
    BY <2>1 DEF ExitIInv
  <2>3. ExitTypeOK'
    BY <1>0, <2>1 DEF ExitTypeOK, Exits
  <2> QED
    BY <2>1, <2>2, <2>3 DEF ExitIInv, WhatIsReported
<1>12. CASE InstallAgain
  <2>1. /\ main' = "start" /\ exit' = [error |-> "none", code |-> 0] /\ install' = Ready
        /\ once' = "fresh" /\ client' = "null" /\ tracked' = {}
        /\ UNCHANGED <<server, command>>
    BY <1>12 DEF InstallAgain, serverVars
  <2>2. install'.pc = "off"
    BY <2>1 DEF Ready
  <2>3. ExitTypeOK'
    BY <1>0, <2>1 DEF ExitTypeOK, Exits
  <2> QED
    BY <2>1, <2>2, <2>3 DEF ExitIInv, WhatIsReported
<1>13. CASE LookUp
  <2>1. /\ main = "running"
        /\ UNCHANGED <<once, client, server, command, main, exit, install>>
    BY <1>13 DEF LookUp, serverVars, installVars
  <2>2. UNCHANGED tracked
    BY <1>13, Tracking DEF LookUp
  <2> QED
    BY <1>0, <2>1, <2>2, WorkKept DEF ExitIInv, ExitTypeOK
<1>14. CASE OtherAgents \/ UNCHANGED vars
  <2>1. UNCHANGED <<once, client, tracked, server, command, main, exit, install>>
    BY <1>14 DEF OtherAgents, vars, telemetryVars, initVars, serverVars, installVars
  <2> QED
    <3>1. ExitTypeOK'
      BY <1>0, <2>1 DEF ExitTypeOK
    <3>2. WhatIsReported'
      BY <2>1 DEF ExitIInv, WhatIsReported
    <3> QED
      BY <2>1, <3>1, <3>2 DEF ExitIInv
<1> QED
  BY <1>1, <1>2, <1>3, <1>4, <1>5, <1>6, <1>7, <1>8, <1>9, <1>10, <1>11, <1>12, <1>13, <1>14,
     <1>15
  DEF Next

(* What telemetry knows when the process has ended, other than by an       *)
(* interrupt: the command, and that it failed exactly if Execute saw an    *)
(* error or an install reported its own.  A profile that cannot be started *)
(* and a server without a back end are not reported.  And the lookup is    *)
(* right (Execute, startProfiling, RunServer,                              *)
(* GetOrCreateServiceIDByPostmanCollectionID).                             *)
THEOREM AgentTheorem == Spec => [](ExitIInv /\ AgentInv)
<1>1. Init => ExitIInv
  <2> SUFFICES ASSUME Init
               PROVE  ExitIInv
    OBVIOUS
  <2>1. /\ main = "start" /\ exit = [error |-> "none", code |-> 0] /\ server = "off"
        /\ once = "fresh" /\ client = "null" /\ tracked = {}
        /\ install = Ready /\ command \in Commands
    BY DEF Init, TelemetryInit, ServerInit, InstallInit
  <2>2. install.pc = "off"
    BY <2>1 DEF Ready
  <2>3. ExitTypeOK
    BY <2>1, AgentAssumption DEF ExitTypeOK, Exits
  <2> QED
    BY <2>1, <2>2, <2>3 DEF ExitIInv, WhatIsReported
<1>2. InstallIInv /\ ExitIInv /\ [Next]_vars => ExitIInv'
  BY ExitKept
<1>3. ExitIInv /\ LookupInv => AgentInv
  BY DEF ExitIInv, AgentInv
<1> QED
  BY <1>1, <1>2, <1>3, InstallTheorem, LookupTheorem, PTL DEF Spec

-----------------------------------------------------------------------------
(* Rate-limited errors *)

(* A step of the agent is at most one half of one RateLimitError.          *)
LEMMA ReportProjection ==
  ASSUME [Next]_vars
  PROVE  ReportSteps
<1>1. CASE Serve
  <2>1. CASE BackendFails \/ BackendStarts \/ FlushUpload \/ FlushDelete
    BY <2>1 DEF BackendFails, BackendStarts, FlushUpload, FlushDelete, telemetryVars, ReportSteps
  <2>2. CASE ListenFails
    BY <2>2 DEF ListenFails, ReportSteps
  <2>3. CASE \E c \in Calls : Receive(c)
    <3> PICK c \in Calls : Receive(c)
      BY <2>3
    <3>1. c \in Goroutines /\ UNCHANGED clock
      BY ServerAssumption DEF Receive
    <3>2. \A m : HandlerContext(m) \in Contexts
      BY ServerAssumption DEF HandlerContext
    <3>3. UNCHANGED limitVars \/ \E x \in Contexts : RateLimitError(c, x)
      BY <3>2 DEF Receive
    <3> QED
      BY <3>1, <3>3 DEF ReportSteps
  <2> QED
    BY <1>1, <2>1, <2>2, <2>3 DEF Serve
<1>2. CASE \E c \in Calls : Handle(c)
  <2> PICK c \in Calls : Handle(c)
    BY <1>2
  <2>0. c \in Goroutines
    BY ServerAssumption
  <2>1. CASE Process(c)
    <3>1. UNCHANGED clock /\ "parse HTTP" \in Contexts /\ "unparsable body" \in Contexts
      BY <2>1, ServerAssumption DEF Process
    <3>2. \/ UNCHANGED limitVars
          \/ RateLimitError(c, "parse HTTP") \/ RateLimitError(c, "unparsable body")
      BY <2>1 DEF Process
    <3> QED
      BY <2>0, <3>1, <3>2 DEF ReportSteps
  <2>2. CASE Lookup(c) \/ Store(c)
    BY <2>2 DEF Lookup, Store, telemetryVars, ReportSteps
  <2>3. CASE Report(c)
    BY <2>0, <2>3 DEF Report, ReportSteps
  <2> QED
    BY <2>1, <2>2, <2>3 DEF Handle, CallStep
<1>3. CASE InitializeTelemetry
  BY <1>3 DEF InitializeTelemetry, DoInit, Configure, GetUserIdentity, GetUser, GetUserFailed,
              DeriveIdentity, ReportSteps
<1>4. CASE Time
  BY <1>4 DEF Time, ReportSteps
<1>5. CASE \/ Start \/ ProfilingFails \/ BeginCommand \/ NoProject \/ CommandReturns \/ Fail
           \/ Install \/ InterruptInstall \/ InstallAgain \/ LookUp \/ OtherAgents
           \/ UNCHANGED vars
  BY <1>5 DEF Start, ProfilingFails, BeginCommand, NoProject, CommandReturns, Fail, Install, InterruptInstall,
              InstallAgain, LookUp, OtherAgents, vars, telemetryVars, ReportSteps
<1> QED
  BY <1>1, <1>2, <1>3, <1>4, <1>5 DEF Next

(* What holds of the goroutines and contexts of the invariant.             *)
LEMMA ReportFacts ==
  ASSUME ReportIInv
  PROVE  /\ \A x \in Contexts : /\ x # "none" /\ made[x] \in Nat /\ reported[x] \in Nat
                                /\ limits[x].count \in Nat /\ limits[x].next \in Int
                                /\ limits[x] \in Record
         /\ \A g \in Goroutines : /\ reporter[g].loaded \in Record /\ reporter[g].new \in Record
                                  /\ reporter[g].loaded.count \in Nat
                                  /\ reporter[g].loaded.next \in Int
                                  /\ reporter[g].new.next \in Int
                                  /\ reporter[g].pc # "idle" => reporter[g].context \in Contexts
         /\ \A x \in Contexts : \A g \in Pending(x) : reporter[g].pc # "idle"
  BY TelemetryAssumption DEF ReportIInv, ReportTypeOK, HolderInv, Pending, Record

(* The first call of a context: nobody is between the halves.              *)
LEMMA FirstCallKept ==
  ASSUME ReportIInv, NEW g \in Goroutines, NEW x \in Contexts,
         RateLimitError(g, x), limits[x] = NoRecord, UNCHANGED clock
  PROVE  ReportIInv'
<1> USE TelemetryAssumption
<1>0. ReportTypeOK /\ HolderInv /\ RecordInv /\ QuietInv /\ Duration \in Nat /\ clock \in Nat
  BY DEF ReportIInv, ReportTypeOK
<1>1. /\ made' = [made EXCEPT ![x] = @ + 1]
      /\ raced' = [raced EXCEPT ![x] = @ \/ \E h \in Goroutines : reporter[h].context = x]
      /\ limits' = [limits EXCEPT ![x] = [count |-> 0, next |-> clock + Duration]]
      /\ sends' = [sends EXCEPT ![x] = Append(@, [at |-> clock, count |-> 1])]
      /\ reported' = [reported EXCEPT ![x] = @ + 1]
      /\ reporter' = reporter
  BY DEF RateLimitError
<1>2. made[x] = 0 /\ sends[x] = <<>> /\ limits[x].count = 0
  <2>1. limits[x].next = -1 /\ limits[x].count = 0
    BY DEF NoRecord
  <2>2. made[x] \in Nat
    BY ReportFacts
  <2> QED
    BY <1>0, <2>1, <2>2 DEF RecordInv
<1>3. Pending(x) = {}
  BY <1>0, <1>2, ReportFacts DEF Pending, HolderInv
<1>4. /\ made'[x] = 1 /\ \A y \in Contexts : y # x => made'[y] = made[y]
      /\ reported'[x] = reported[x] + 1 /\ \A y \in Contexts : y # x => reported'[y] = reported[y]
      /\ limits'[x] = [count |-> 0, next |-> clock + Duration]
      /\ \A y \in Contexts : y # x => limits'[y] = limits[y]
  BY <1>0, <1>1, <1>2 DEF ReportTypeOK
<1>5. /\ sends'[x] = <<[at |-> clock, count |-> 1]>>
      /\ \A y \in Contexts : y # x => sends'[y] = sends[y]
  <2>1. sends'[x] = Append(<<>>, [at |-> clock, count |-> 1])
    BY <1>0, <1>1, <1>2 DEF ReportTypeOK
  <2>2. \A y \in Contexts : y # x => sends'[y] = sends[y]
    BY <1>0, <1>1 DEF ReportTypeOK
  <2> QED
    BY <2>1, <2>2
<1>6. \A y \in Contexts : raced'[y] = raced[y]
  <2>1. ~\E h \in Goroutines : reporter[h].context = x
    BY <1>3 DEF Pending
  <2>2. raced' = [raced EXCEPT ![x] = @ \/ FALSE]
    BY <1>1, <2>1
  <2> QED
    BY <1>0, <2>2 DEF ReportTypeOK
<1>7. \A y \in Contexts : Pending(y)' = Pending(y)
  BY <1>1 DEF Pending
<1>8. ReportTypeOK'
  <2>1. limits' \in [Contexts -> Record]
    BY <1>0, <1>1 DEF ReportTypeOK, Record
  <2>2. made' \in [Contexts -> Nat] /\ reported' \in [Contexts -> Nat]
    BY <1>0, <1>1 DEF ReportTypeOK
  <2>3. sends' \in [Contexts -> Seq([at : Int, count : Nat])]
    BY <1>0, <1>1 DEF ReportTypeOK
  <2>4. raced' \in [Contexts -> BOOLEAN]
    BY <1>0, <1>1 DEF ReportTypeOK
  <2> QED
    BY <1>0, <1>1, <2>1, <2>2, <2>3, <2>4 DEF ReportTypeOK
<1>9. HolderInv'
  <2> SUFFICES ASSUME NEW h \in Goroutines, reporter[h].pc # "idle"
               PROVE  made'[reporter[h].context] = made[reporter[h].context]
    BY <1>0, <1>1 DEF HolderInv
  <2>1. reporter[h].context \in Contexts /\ reporter[h].context # x
    BY <1>3, ReportFacts DEF Pending
  <2> QED
    BY <1>4, <2>1
<1>10. RecordInv'
  <2>1. ASSUME NEW y \in Contexts, y # x
        PROVE  /\ made'[y] = 0 => limits'[y] = NoRecord /\ sends'[y] = <<>>
               /\ made'[y] > 0 => /\ Duration <= limits'[y].next
                                  /\ sends'[y] # <<>> /\ sends'[y][1].count = 1
                                  /\ limits'[y].count < made'[y]
               /\ limits'[y].next <= clock' + Duration
    BY <1>0, <1>4, <1>5, <2>1 DEF RecordInv
  <2>2. /\ made'[x] # 0 /\ Duration <= limits'[x].next
        /\ sends'[x] # <<>> /\ sends'[x][1].count = 1
        /\ limits'[x].count < made'[x]
        /\ limits'[x].next <= clock' + Duration
    BY <1>0, <1>4, <1>5
  <2> QED
    BY <2>1, <2>2 DEF RecordInv
<1>11. QuietInv'
  <2> SUFFICES ASSUME NEW y \in Contexts, ~raced'[y]
               PROVE  /\ \A a, b \in Pending(y)' : a = b
                      /\ \A a \in Pending(y)' : reporter'[a].loaded = limits'[y]
                      /\ made'[y] > 0 =>
                           sends'[y][Len(sends'[y])].at = limits'[y].next - Duration
                      /\ \A i \in 1..(Len(sends'[y]) - 1) :
                           sends'[y][i + 1].at - sends'[y][i].at >= Duration
                      /\ made'[y] = reported'[y] + limits'[y].count
                                    + (IF Pending(y)' = {} THEN 0 ELSE 1)
    BY DEF QuietInv
  <2>0. ~raced[y]
    BY <1>6
  <2>1. CASE y # x
    BY <1>0, <1>1, <1>4, <1>5, <1>7, <2>0, <2>1 DEF QuietInv
  <2>2. CASE y = x
    <3>1. Pending(x)' = {}
      BY <1>3, <1>7
    <3>2. reported[x] = 0
      BY <1>0, <1>2, <1>3, <2>0, <2>2, ReportFacts DEF QuietInv
    <3>3. Len(sends'[x]) = 1 /\ sends'[x][1].at = clock
      BY <1>5
    <3>4. limits'[x].next = clock + Duration /\ limits'[x].count = 0
      BY <1>4
    <3> QED
      BY <1>0, <1>4, <2>2, <3>1, <3>2, <3>3, <3>4
  <2> QED
    BY <2>1, <2>2
<1> QED
  BY <1>8, <1>9, <1>10, <1>11 DEF ReportIInv

(* A later call loads the record; with another one under way the context   *)
(* is no longer quiet.                                                     *)
LEMMA LaterCallKept ==
  ASSUME ReportIInv, NEW g \in Goroutines, NEW x \in Contexts,
         RateLimitError(g, x), limits[x] # NoRecord, UNCHANGED clock
  PROVE  ReportIInv'
<1> USE TelemetryAssumption
<1>0. ReportTypeOK /\ HolderInv /\ RecordInv /\ QuietInv /\ Duration \in Nat /\ clock \in Nat
  BY DEF ReportIInv, ReportTypeOK
<1> DEFINE new == [count |-> 0, next |-> clock + Duration]
           entry == [pc |-> IF limits[x].next > clock THEN "counting" ELSE "resetting",
                     context |-> x, loaded |-> limits[x], new |-> new]
<1>1. /\ made' = [made EXCEPT ![x] = @ + 1]
      /\ raced' = [raced EXCEPT ![x] = @ \/ \E h \in Goroutines : reporter[h].context = x]
      /\ reporter' = [reporter EXCEPT ![g] = entry]
      /\ limits' = limits /\ sends' = sends /\ reported' = reported
      /\ reporter[g].pc = "idle"
  BY DEF RateLimitError
<1>2. /\ made[x] \in Nat /\ made[x] # 0
      /\ limits[x].count < made[x]
      /\ Duration <= limits[x].next /\ limits[x].next <= clock + Duration
      /\ limits[x].next \in Int /\ limits[x].count \in Nat /\ limits[x] \in Record
  BY <1>0, ReportFacts DEF RecordInv
<1>3. /\ made'[x] = made[x] + 1 /\ \A y \in Contexts : y # x => made'[y] = made[y]
      /\ \A h \in Goroutines : h # g => reporter'[h] = reporter[h]
  BY <1>0, <1>1 DEF ReportTypeOK
<1>4. /\ reporter'[g].pc = IF limits[x].next > clock THEN "counting" ELSE "resetting"
      /\ reporter'[g].context = x /\ reporter'[g].loaded = limits[x]
      /\ reporter'[g].new.count = 0 /\ reporter'[g].new.next = clock + Duration
  <2>1. reporter'[g] = entry
    BY <1>0, <1>1 DEF ReportTypeOK
  <2> QED
    BY <2>1
<1>5. reporter[g].context = "none" /\ x # "none"
  BY <1>0, <1>1 DEF HolderInv
<1>6. /\ Pending(x)' = Pending(x) \cup {g}
      /\ \A y \in Contexts : y # x => Pending(y)' = Pending(y)
  <2>1. \A y \in Contexts : \A h \in Goroutines :
          reporter'[h].context = y <=> IF h = g THEN y = x ELSE reporter[h].context = y
    BY <1>3, <1>4
  <2>2. \A y \in Contexts : reporter[g].context # y
    BY <1>5, TelemetryAssumption
  <2> QED
    BY <2>1, <2>2 DEF Pending
<1>7. ReportTypeOK'
  <2>1. entry \in [pc : {"idle", "counting", "resetting"}, context : Contexts \cup {"none"},
                   loaded : Record, new : Record]
    BY <1>0, <1>2 DEF Record
  <2>2. reporter' \in [Goroutines -> [pc : {"idle", "counting", "resetting"},
                                      context : Contexts \cup {"none"},
                                      loaded : Record, new : Record]]
    BY <1>0, <1>1, <2>1 DEF ReportTypeOK
  <2>3. made' \in [Contexts -> Nat]
    BY <1>0, <1>1 DEF ReportTypeOK
  <2>4. raced' \in [Contexts -> BOOLEAN]
    BY <1>0, <1>1 DEF ReportTypeOK
  <2> QED
    BY <1>0, <1>1, <2>2, <2>3, <2>4 DEF ReportTypeOK
<1> HIDE DEF new, entry
<1>8. HolderInv'
  <2> SUFFICES ASSUME NEW h \in Goroutines
               PROVE  /\ reporter'[h].pc = "idle" <=> reporter'[h].context = "none"
                      /\ reporter'[h].pc # "idle" =>
                           /\ reporter'[h].loaded.count + 1 < made'[reporter'[h].context]
                           /\ reporter'[h].new.count = 0
                           /\ Duration <= reporter'[h].loaded.next
                           /\ reporter'[h].loaded.next <= clock' + Duration
                           /\ Duration <= reporter'[h].new.next
                           /\ reporter'[h].new.next <= clock' + Duration
                      /\ reporter'[h].pc = "resetting" =>
                           reporter'[h].loaded.next <= reporter'[h].new.next - Duration
    BY DEF HolderInv
  <2>1. CASE h = g
    <3>1. reporter'[g].pc # "idle"
      BY <1>4
    <3>2. reporter'[g].pc = "resetting" => limits[x].next <= clock
      BY <1>2, <1>4, <1>0
    <3> QED
      BY <1>0, <1>2, <1>3, <1>4, <1>5, <2>1, <3>1, <3>2
  <2>2. CASE h # g
    <3>1. reporter'[h] = reporter[h]
      BY <1>3, <2>2
    <3>2. reporter[h].pc # "idle" =>
            /\ reporter[h].context \in Contexts /\ made[reporter[h].context] \in Nat
            /\ made[reporter[h].context] <= made'[reporter[h].context]
            /\ made'[reporter[h].context] \in Nat
            /\ reporter[h].loaded.count \in Nat
      BY <1>3, ReportFacts
    <3> QED
      BY <1>0, <3>1, <3>2 DEF HolderInv
  <2> QED
    BY <2>1, <2>2
<1>9. RecordInv'
  <2> SUFFICES ASSUME NEW y \in Contexts
               PROVE  /\ made'[y] # 0 => made[y] > 0
                      /\ made'[y] = 0 => made[y] = 0
                      /\ made[y] > 0 => limits[y].count < made'[y]
    BY <1>0, <1>1 DEF RecordInv
  <2>1. made[y] \in Nat /\ limits[y].count \in Nat
    BY ReportFacts
  <2> QED
    BY <1>0, <1>2, <1>3, <2>1 DEF RecordInv
<1>10. QuietInv'
  <2> SUFFICES ASSUME NEW y \in Contexts, ~raced'[y]
               PROVE  /\ \A a, b \in Pending(y)' : a = b
                      /\ \A a \in Pending(y)' : reporter'[a].loaded = limits[y]
                      /\ made'[y] > 0 =>
                           sends[y][Len(sends[y])].at = limits[y].next - Duration
                      /\ \A i \in 1..(Len(sends[y]) - 1) :
                           sends[y][i + 1].at - sends[y][i].at >= Duration
                      /\ made'[y] = reported[y] + limits[y].count
                                    + (IF Pending(y)' = {} THEN 0 ELSE 1)
    BY <1>1 DEF QuietInv
  <2>1. CASE y # x
    <3>1. ~raced[y]
      BY <1>0, <1>1, <2>1 DEF ReportTypeOK
    <3>2. \A a \in Pending(y) : a # g
      BY <1>5 DEF Pending
    <3>3. \A a \in Pending(y) : reporter'[a] = reporter[a]
      BY <3>2, <1>3 DEF Pending
    <3>4. Pending(y)' = Pending(y) /\ made'[y] = made[y]
      BY <1>3, <1>6, <2>1
    <3> QED
      BY <1>0, <3>1, <3>3, <3>4 DEF QuietInv
  <2>2. CASE y = x
    <3>1. ~raced[x] /\ ~\E h \in Goroutines : reporter[h].context = x
      <4>1. raced'[x] = (raced[x] \/ \E h \in Goroutines : reporter[h].context = x)
        BY <1>0, <1>1, Zenon DEF ReportTypeOK
      <4> QED
        BY <4>1, <2>2
    <3>2. Pending(x) = {}
      BY <3>1 DEF Pending
    <3>3. Pending(x)' = {g}
      BY <3>2, <1>6
    <3>4. /\ \A a, b \in Pending(x)' : a = b
          /\ \A a \in Pending(x)' : reporter'[a].loaded = limits[x]
      BY <3>3, <1>4
    <3>5. made[x] = reported[x] + limits[x].count
      BY <1>0, <3>1, <3>2, ReportFacts DEF QuietInv
    <3>6. made'[x] = reported[x] + limits[x].count + 1
      BY <1>2, <1>3, <3>5, ReportFacts
    <3> QED
      BY <1>0, <1>2, <2>2, <3>1, <3>3, <3>4, <3>6 DEF QuietInv
  <2> QED
    BY <2>1, <2>2
<1> QED
  BY <1>7, <1>8, <1>9, <1>10 DEF ReportIInv

(* Appending keeps what was there.                                         *)
LEMMA AppendFacts ==
  ASSUME NEW S, NEW s \in Seq(S), NEW e \in S
  PROVE  /\ Append(s, e) # <<>>
         /\ Len(s) \in Nat /\ Len(Append(s, e)) = Len(s) + 1
         /\ Append(s, e)[Len(s) + 1] = e
         /\ \A i \in 1..Len(s) : Append(s, e)[i] = s[i]
         /\ s # <<>> => 1 \in 1..Len(s)
<1>1. Len(s) \in Nat /\ Len(Append(s, e)) = Len(s) + 1
  OBVIOUS
<1>2. Append(s, e)[Len(s) + 1] = e
  OBVIOUS
<1>3. \A i \in 1..Len(s) : Append(s, e)[i] = s[i]
  OBVIOUS
<1>4. s # <<>> => Len(s) # 0
  OBVIOUS
<1>5. Append(s, e) # <<>>
  BY <1>1
<1> QED
  BY <1>1, <1>2, <1>3, <1>4, <1>5

(* The second half of a later call.                                        *)
LEMMA StoreRecordKept ==
  ASSUME ReportIInv, NEW g \in Goroutines, StoreRecord(g)
  PROVE  ReportIInv'
<1> USE TelemetryAssumption
<1>0. ReportTypeOK /\ HolderInv /\ RecordInv /\ QuietInv /\ Duration \in Nat /\ clock \in Nat
  BY DEF ReportIInv, ReportTypeOK
<1> PICK x \in Contexts : x = reporter[g].context /\ x # "none"
  BY ReportFacts DEF StoreRecord
<1> PICK n \in Nat : n = reporter[g].loaded.count + 1
  BY ReportFacts
<1> PICK rec \in Record : rec = IF reporter[g].pc = "counting"
                                THEN [reporter[g].loaded EXCEPT !.count = n]
                                ELSE reporter[g].new
  <2>1. [reporter[g].loaded EXCEPT !.count = n] \in Record /\ reporter[g].new \in Record
    BY ReportFacts DEF Record
  <2> QED
    BY <2>1
<1>1. /\ reporter[g].pc \in {"counting", "resetting"}
      /\ limits' = [limits EXCEPT ![x] = rec]
      /\ sends' = IF reporter[g].pc = "counting" THEN sends
                  ELSE [sends EXCEPT ![x] =
                          Append(@, [at |-> reporter[g].new.next - Duration, count |-> n])]
      /\ reported' = IF reporter[g].pc = "counting" THEN reported
                     ELSE [reported EXCEPT ![x] = @ + n]
      /\ reporter' = [reporter EXCEPT ![g] = Idle]
      /\ UNCHANGED <<clock, made, raced>>
  <2>1. reporter[g].pc \in {"idle", "counting", "resetting"}
    BY <1>0 DEF ReportTypeOK
  <2> QED
    BY <2>1 DEF StoreRecord
<1>2. /\ rec.count = IF reporter[g].pc = "counting" THEN n ELSE 0
      /\ rec.next = IF reporter[g].pc = "counting" THEN reporter[g].loaded.next
                    ELSE reporter[g].new.next
  <2>1. reporter[g].loaded \in Record /\ reporter[g].new.count = 0
    BY <1>0, <1>1, ReportFacts DEF HolderInv
  <2> QED
    BY <2>1 DEF Record
<1>3. /\ n < made[x] /\ made[x] \in Nat
      /\ Duration <= rec.next /\ rec.next <= clock + Duration
      /\ rec.next \in Int
      /\ reporter[g].pc = "resetting" => reporter[g].loaded.next <= rec.next - Duration
  BY <1>0, <1>1, <1>2, ReportFacts DEF HolderInv
<1>4. /\ limits'[x] = rec
      /\ \A y \in Contexts : y # x => limits'[y] = limits[y]
      /\ reporter'[g] = Idle
      /\ \A h \in Goroutines : h # g => reporter'[h] = reporter[h]
  BY <1>0, <1>1 DEF ReportTypeOK
<1>5. /\ \A y \in Contexts : y # x => sends'[y] = sends[y] /\ reported'[y] = reported[y]
      /\ reporter[g].pc = "counting" => sends'[x] = sends[x] /\ reported'[x] = reported[x]
      /\ reporter[g].pc = "resetting" =>
           /\ sends'[x] = Append(sends[x], [at |-> rec.next - Duration, count |-> n])
           /\ reported'[x] = reported[x] + n
  BY <1>0, <1>1, <1>2 DEF ReportTypeOK
<1>6. /\ Pending(x)' = Pending(x) \ {g}
      /\ \A y \in Contexts : y # x => Pending(y)' = Pending(y)
  <2>1. reporter'[g].context = "none"
    BY <1>4 DEF Idle
  <2>2. \A y \in Contexts : \A h \in Goroutines :
          reporter'[h].context = y <=> h # g /\ reporter[h].context = y
    BY <1>4, <2>1
  <2> QED
    BY <2>2 DEF Pending
<1>7. ReportTypeOK'
  <2>1. limits' \in [Contexts -> Record]
    BY <1>0, <1>1 DEF ReportTypeOK
  <2>2. reported' \in [Contexts -> Nat]
    BY <1>0, <1>1 DEF ReportTypeOK
  <2>3. reporter[g].new.next - Duration \in Int
    BY <1>0, ReportFacts
  <2>4. sends' \in [Contexts -> Seq([at : Int, count : Nat])]
    BY <1>0, <1>1, <2>3 DEF ReportTypeOK
  <2>5. reporter' \in [Goroutines -> [pc : {"idle", "counting", "resetting"},
                                      context : Contexts \cup {"none"},
                                      loaded : Record, new : Record]]
    BY <1>0, <1>1 DEF ReportTypeOK, Idle, NoRecord, Record
  <2> QED
    BY <1>0, <1>1, <2>1, <2>2, <2>4, <2>5 DEF ReportTypeOK
<1>8. HolderInv'
  <2>1. reporter'[g].pc = "idle" /\ reporter'[g].context = "none"
    BY <1>4 DEF Idle
  <2> QED
    BY <1>0, <1>1, <1>4, <2>1 DEF HolderInv
<1>9. sends[x] # <<>> /\ sends[x] \in Seq([at : Int, count : Nat]) /\ sends[x][1].count = 1
  BY <1>0, <1>3 DEF ReportTypeOK, RecordInv
<1>10. /\ sends'[x] # <<>> /\ sends'[x][1].count = 1
       /\ reporter[g].pc = "resetting" =>
            /\ Len(sends'[x]) = Len(sends[x]) + 1
            /\ sends'[x][Len(sends[x]) + 1].at = rec.next - Duration
            /\ \A i \in 1..Len(sends[x]) : sends'[x][i] = sends[x][i]
  <2>1. CASE reporter[g].pc = "counting"
    BY <1>5, <1>9, <2>1
  <2>2. CASE reporter[g].pc = "resetting"
    <3> DEFINE S == [at : Int, count : Nat]
               e == [at |-> rec.next - Duration, count |-> n]
    <3>1. e \in S /\ e.at = rec.next - Duration
      BY <1>0, <1>3
    <3>2. sends[x] \in Seq(S) /\ sends'[x] = Append(sends[x], e)
      BY <1>5, <1>9, <2>2
    <3> HIDE DEF S, e
    <3> QED
      BY <1>9, <3>1, <3>2, AppendFacts
  <2> QED
    BY <1>1, <2>1, <2>2
<1>11. RecordInv'
  <2>1. ASSUME NEW y \in Contexts, y # x
        PROVE  /\ made'[y] = 0 => limits'[y] = NoRecord /\ sends'[y] = <<>>
               /\ made'[y] > 0 => /\ Duration <= limits'[y].next
                                  /\ sends'[y] # <<>> /\ sends'[y][1].count = 1
                                  /\ limits'[y].count < made'[y]
               /\ limits'[y].next <= clock' + Duration
    BY <1>0, <1>1, <1>4, <1>5, <2>1 DEF RecordInv
  <2>2. made[x] # 0 /\ rec.count < made[x]
    BY <1>2, <1>3
  <2> QED
    BY <1>1, <1>3, <1>4, <1>10, <2>1, <2>2 DEF RecordInv
<1>12. QuietInv'
  <2> SUFFICES ASSUME NEW y \in Contexts, ~raced[y]
               PROVE  /\ \A a, b \in Pending(y)' : a = b
                      /\ \A a \in Pending(y)' : reporter'[a].loaded = limits'[y]
                      /\ made[y] > 0 =>
                           sends'[y][Len(sends'[y])].at = limits'[y].next - Duration
                      /\ \A i \in 1..(Len(sends'[y]) - 1) :
                           sends'[y][i + 1].at - sends'[y][i].at >= Duration
                      /\ made[y] = reported'[y] + limits'[y].count
                                   + (IF Pending(y)' = {} THEN 0 ELSE 1)
    BY <1>1 DEF QuietInv
  <2>1. CASE y # x
    <3>1. \A a \in Pending(y) : a # g /\ a \in Goroutines
      BY <2>1 DEF Pending
    <3>2. \A a \in Pending(y) : reporter'[a] = reporter[a]
      BY <3>1, <1>4
    <3>3. Pending(y)' = Pending(y)
      BY <1>6, <2>1
    <3> QED
      BY <1>0, <1>4, <1>5, <2>1, <3>2, <3>3 DEF QuietInv
  <2>2. CASE y = x
    <3>1. g \in Pending(x) /\ \A a \in Pending(x) : a = g
      BY <1>0, <2>2 DEF QuietInv, Pending
    <3>2. Pending(x)' = {}
      BY <3>1, <1>6
    <3>3. /\ reporter[g].loaded = limits[x]
          /\ made[x] = reported[x] + limits[x].count + 1
          /\ sends[x][Len(sends[x])].at = limits[x].next - Duration
          /\ \A i \in 1..(Len(sends[x]) - 1) : sends[x][i + 1].at - sends[x][i].at >= Duration
      <4>1. made[x] > 0
        BY <1>3
      <4>2. Pending(x) # {}
        BY <3>1
      <4> HIDE DEF Pending
      <4> QED
        BY <1>0, <4>1, <4>2, <2>2, <3>1 DEF QuietInv
    <3>4. limits[x].count \in Nat /\ limits[x].next \in Int /\ reported[x] \in Nat
      BY ReportFacts
    <3>5. CASE reporter[g].pc = "counting"
      <4>1. limits'[x].count = limits[x].count + 1 /\ limits'[x].next = limits[x].next
        BY <1>2, <1>4, <3>3, <3>5
      <4>2. made[x] = reported'[x] + limits'[x].count + 0
        BY <4>1, <1>5, <3>3, <3>4, <3>5
      <4>3. sends'[x] = sends[x]
        BY <1>5, <3>5
      <4> QED
        BY <2>2, <3>2, <3>3, <4>1, <4>2, <4>3
    <3>6. CASE reporter[g].pc = "resetting"
      <4>1. made[x] = reported'[x] + limits'[x].count + 0
        <5>1. limits'[x].count = 0 /\ n = limits[x].count + 1
          BY <1>2, <1>4, <3>3, <3>6
        <5>2. reported'[x] = reported[x] + n
          BY <1>5, <3>6
        <5> QED
          BY <5>1, <5>2, <3>3, <3>4
      <4>2. sends'[x][Len(sends'[x])].at = limits'[x].next - Duration
        BY <1>4, <1>10, <3>6
      <4>3. ASSUME NEW i \in 1..(Len(sends'[x]) - 1)
            PROVE  sends'[x][i + 1].at - sends'[x][i].at >= Duration
        <5>0. Len(sends[x]) \in Nat /\ i \in 1..Len(sends[x]) /\ sends'[x][i] = sends[x][i]
          <6>1. Len(sends[x]) \in Nat
            BY <1>9
          <6>2. i \in 1..Len(sends[x])
            BY <1>10, <3>6, <6>1
          <6> QED
            BY <1>10, <3>6, <6>1, <6>2
        <5>1. CASE i = Len(sends[x])
          <6>1. sends'[x][i + 1].at = rec.next - Duration
            BY <1>10, <3>6, <5>1
          <6>2. sends'[x][i].at = limits[x].next - Duration
            BY <3>3, <5>0, <5>1
          <6>3. limits[x].next <= rec.next - Duration
            BY <1>3, <3>3, <3>6
          <6>4. rec.next - Duration - (limits[x].next - Duration) >= Duration
            <7>1. \A a, b, d \in Int : b <= a - d => a - d - (b - d) >= d
              OBVIOUS
            <7>2. rec.next \in Int /\ limits[x].next \in Int /\ Duration \in Int
              BY <1>0, <1>3, <3>4
            <7> QED
              BY <6>3, <7>1, <7>2
          <6> QED
            BY <6>1, <6>2, <6>4
        <5>2. CASE i # Len(sends[x])
          <6>1. i + 1 \in 1..Len(sends[x]) /\ i \in 1..(Len(sends[x]) - 1)
            BY <5>0, <5>2
          <6>2. sends'[x][i + 1] = sends[x][i + 1]
            BY <1>10, <3>6, <6>1
          <6> QED
            BY <3>3, <5>0, <6>1, <6>2
        <5> QED
          BY <5>1, <5>2
      <4> QED
        BY <2>2, <3>2, <4>1, <4>2, <4>3
    <3> QED
      BY <1>1, <3>5, <3>6
  <2> QED
    BY <2>1, <2>2
<1> QED
  BY <1>7, <1>8, <1>11, <1>12 DEF ReportIInv

(* A half of a call, time, or the end of the process.                      *)
LEMMA ReportKept ==
  ASSUME ReportIInv, ReportSteps
  PROVE  ReportIInv'
<1> USE TelemetryAssumption
<1>0. ReportTypeOK /\ HolderInv /\ RecordInv /\ QuietInv /\ Duration \in Nat /\ clock \in Nat
  BY DEF ReportIInv, ReportTypeOK
<1>1. CASE \E g \in Goroutines : \E x \in Contexts : RateLimitError(g, x) /\ UNCHANGED clock
  BY <1>1, FirstCallKept, LaterCallKept
<1>2. CASE \E g \in Goroutines : StoreRecord(g)
  BY <1>2, StoreRecordKept
<1>3. CASE ForgetReports /\ UNCHANGED clock
  <2>1. /\ limits' = [x \in Contexts |-> NoRecord] /\ reporter' = [g \in Goroutines |-> Idle]
        /\ made' = [x \in Contexts |-> 0] /\ sends' = [x \in Contexts |-> <<>>]
        /\ reported' = [x \in Contexts |-> 0] /\ raced' = [x \in Contexts |-> FALSE]
        /\ clock' = clock
    BY <1>3 DEF ForgetReports
  <2>2. limits' \in [Contexts -> Record] /\ \A x \in Contexts : limits'[x] = NoRecord
    BY <2>1 DEF NoRecord, Record
  <2>3. /\ reporter' \in [Goroutines -> [pc : {"idle", "counting", "resetting"},
                                         context : Contexts \cup {"none"},
                                         loaded : Record, new : Record]]
        /\ \A g \in Goroutines : reporter'[g].pc = "idle" /\ reporter'[g].context = "none"
    BY <2>1 DEF Idle, NoRecord, Record
  <2>4. \A x \in Contexts : made'[x] = 0 /\ sends'[x] = <<>> /\ reported'[x] = 0
    BY <2>1
  <2>5. ReportTypeOK'
    BY <1>0, <2>1, <2>2, <2>3 DEF ReportTypeOK
  <2>6. HolderInv'
    BY <2>3 DEF HolderInv
  <2>7. NoRecord.count = 0 /\ NoRecord.next = -1
    BY DEF NoRecord
  <2>8. RecordInv'
    BY <1>0, <2>1, <2>2, <2>4, <2>7 DEF RecordInv
  <2>9. \A x \in Contexts : Pending(x)' = {}
    BY <2>3 DEF Pending
  <2>10. QuietInv'
    BY <2>2, <2>4, <2>7, <2>9 DEF QuietInv
  <2> QED
    BY <2>5, <2>6, <2>8, <2>10 DEF ReportIInv
<1>4. CASE Tick
  <2>1. clock' = clock + 1 /\ UNCHANGED <<limits, reporter, made, sends, reported, raced>>
    BY <1>4 DEF Tick, limitVars
  <2>2. ReportTypeOK'
    BY <1>0, <2>1 DEF ReportTypeOK
  <2>3. HolderInv'
    <3> SUFFICES ASSUME NEW h \in Goroutines, reporter[h].pc # "idle"
                 PROVE  /\ reporter[h].loaded.next <= clock' + Duration
                        /\ reporter[h].new.next <= clock' + Duration
      BY <1>0, <2>1 DEF HolderInv
    <3> QED
      BY <1>0, <2>1, ReportFacts DEF HolderInv
  <2>4. RecordInv'
    <3> SUFFICES ASSUME NEW x \in Contexts
                 PROVE  limits[x].next <= clock' + Duration
      BY <1>0, <2>1 DEF RecordInv
    <3> QED
      BY <1>0, <2>1, ReportFacts DEF RecordInv
  <2>5. QuietInv'
    BY <1>0, <2>1 DEF QuietInv, Pending
  <2> QED
    BY <2>2, <2>3, <2>4, <2>5 DEF ReportIInv
<1>5. CASE UNCHANGED <<clock, limitVars>>
  <2>1. UNCHANGED <<clock, limits, reporter, made, sends, reported, raced>>
    BY <1>5 DEF limitVars
  <2>2. ReportTypeOK'
    BY <1>0, <2>1 DEF ReportTypeOK
  <2>3. HolderInv' /\ RecordInv'
    BY <1>0, <2>1 DEF HolderInv, RecordInv
  <2>4. QuietInv'
    BY <1>0, <2>1 DEF QuietInv, Pending
  <2> QED
    BY <2>2, <2>3, <2>4 DEF ReportIInv
<1> QED
  BY <1>1, <1>2, <1>3, <1>4, <1>5 DEF ReportSteps

(* The first error of a context is sent at once and a record never counts  *)
(* more than was called; and as long as no two calls of the context        *)
(* overlapped there is at most one event per rateLimitDuration, and what   *)
(* was sent, the backlog and the call in progress add up to the calls      *)
(* (RateLimitError).                                                       *)
THEOREM ReportTheorem == Spec => [](ReportIInv /\ RateLimitInv)
<1>1. Init => ReportIInv
  <2> SUFFICES ASSUME Init
               PROVE  ReportIInv
    OBVIOUS
  <2> USE TelemetryAssumption
  <2>1. /\ limits = [x \in Contexts |-> NoRecord] /\ reporter = [g \in Goroutines |-> Idle]
        /\ made = [x \in Contexts |-> 0] /\ sends = [x \in Contexts |-> <<>>]
        /\ reported = [x \in Contexts |-> 0] /\ raced = [x \in Contexts |-> FALSE]
        /\ clock = 0
    BY DEF Init, TelemetryInit
  <2>2. limits \in [Contexts -> Record] /\ \A x \in Contexts : limits[x] = NoRecord
    BY <2>1 DEF NoRecord, Record
  <2>3. /\ reporter \in [Goroutines -> [pc : {"idle", "counting", "resetting"},
                                        context : Contexts \cup {"none"},
                                        loaded : Record, new : Record]]
        /\ \A g \in Goroutines : reporter[g].pc = "idle" /\ reporter[g].context = "none"
    BY <2>1 DEF Idle, NoRecord, Record
  <2>4. \A x \in Contexts : made[x] = 0 /\ sends[x] = <<>> /\ reported[x] = 0
    BY <2>1
  <2>5. ReportTypeOK
    BY <2>1, <2>2, <2>3 DEF ReportTypeOK
  <2>6. HolderInv
    BY <2>3 DEF HolderInv
  <2>7. NoRecord.count = 0 /\ NoRecord.next = -1
    BY DEF NoRecord
  <2>8. RecordInv
    BY <2>1, <2>2, <2>4, <2>7 DEF RecordInv
  <2>9. \A x \in Contexts : Pending(x) = {}
    BY <2>3 DEF Pending
  <2>10. QuietInv
    BY <2>2, <2>4, <2>7, <2>9 DEF QuietInv
  <2> QED
    BY <2>5, <2>6, <2>8, <2>10 DEF ReportIInv
<1>2. ReportIInv /\ [Next]_vars => ReportIInv'
  BY ReportProjection, ReportKept
<1>3. ReportIInv => RateLimitInv
  <2> SUFFICES ASSUME ReportIInv, NEW x \in Contexts
               PROVE  /\ made[x] > 0 => /\ sends[x] # <<>> /\ sends[x][1].count = 1
                                        /\ limits[x].count < made[x]
                      /\ limits[x].next <= clock + Duration
                      /\ raced[x] \/ /\ \A i \in 1..(Len(sends[x]) - 1) :
                                          sends[x][i + 1].at - sends[x][i].at >= Duration
                                     /\ made[x] = reported[x] + limits[x].count
                                                  + (IF Pending(x) = {} THEN 0 ELSE 1)
    BY DEF RateLimitInv, Pending
  <2>1. RecordInv /\ QuietInv
    BY DEF ReportIInv
  <2> HIDE DEF Pending
  <2>2. /\ made[x] > 0 => sends[x] # <<>> /\ sends[x][1].count = 1 /\ limits[x].count < made[x]
        /\ limits[x].next <= clock + Duration
    BY <2>1 DEF RecordInv
  <2> QED
    BY <2>1, <2>2 DEF QuietInv
<1> QED
  BY <1>1, <1>2, <1>3, PTL DEF Spec

-----------------------------------------------------------------------------
(* The NGINX server *)

(* A step of the agent is one of a handler, of periodicFlush or the end of *)
(* the process, or leaves the calls alone (rest.go, backend.go).           *)
LEMMA ServerProjection ==
  ASSUME [Next]_vars
  PROVE  ServerSteps
<1>1. CASE Serve
  <2>1. CASE BackendFails \/ BackendStarts
    BY <2>1 DEF BackendFails, BackendStarts, ServerSteps
  <2>2. CASE ListenFails
    BY <2>2 DEF ListenFails, Forget, ServerSteps
  <2>3. CASE FlushUpload \/ FlushDelete \/ (\E c \in Calls : Receive(c))
    BY <2>3 DEF ServerSteps
  <2> QED
    BY <1>1, <2>1, <2>2, <2>3 DEF Serve
<1>2. CASE \E c \in Calls : Handle(c)
  BY <1>2 DEF Handle, CallStep, Report, serverVars, ServerSteps
<1>3. CASE \/ Start \/ InitializeTelemetry \/ ProfilingFails \/ BeginCommand \/ NoProject
           \/ CommandReturns \/ Fail \/ Time \/ Install \/ InterruptInstall \/ InstallAgain \/ LookUp \/ OtherAgents
           \/ UNCHANGED vars
  BY <1>3 DEF Start, InitializeTelemetry, ProfilingFails, BeginCommand, NoProject, CommandReturns,
              Fail, Time, Install, InterruptInstall, InstallAgain, LookUp, OtherAgents, vars, serverVars,
              ServerSteps
<1> QED
  BY <1>1, <1>2, <1>3 DEF Next

(* What every step but the last one does: a call keeps its headers, one    *)
(* that is done keeps everything, and the histories grow.                  *)
Grows ==
  /\ \A d \in Calls : call[d].pc # "none" =>
       /\ call'[d].pc # "none"
       /\ call'[d].message.kind = call[d].message.kind
       /\ call'[d].message.problem = call[d].message.problem
       /\ call'[d].message.exchange = call[d].message.exchange
       /\ call[d].pc = "done" => call'[d] = call[d]
  /\ counted \subseteq counted' /\ uploads \subseteq uploads' /\ crossed \subseteq crossed'

(* Keys, counted calls and excuses stay.                                   *)
LEMMA GrowFacts ==
  ASSUME Grows
  PROVE  /\ \A d \in Calls : call[d].pc # "none" => Key(d)' = Key(d)
         /\ \A d \in Calls : Counted(d) => Counted(d)'
         /\ \A d \in Calls : call[d].pc # "none" /\ Excused(d) => Excused(d)'
<1>1. \A d \in Calls : call[d].pc # "none" => Key(d)' = Key(d)
  BY DEF Grows, Key
<1>2. \A d \in Calls : Counted(d) => Counted(d)'
  BY DEF Grows, Counted
<1>3. ASSUME NEW c \in Calls, call[c].pc # "none", Excused(c)
      PROVE  Excused(c)'
  <2> PICK d \in Calls, e \in Calls :
             /\ call[d].pc # "none" /\ call[e].pc # "none"
             /\ Key(d) = Key(c) /\ Key(e) = Key(c) /\ d # e
             /\ call[d].message.kind = call[e].message.kind \/ {d, e} \in crossed
    BY <1>3 DEF Excused
  <2>1. Key(d)' = Key(c)' /\ Key(e)' = Key(c)'
    BY <1>1, <1>3
  <2>2. call'[d].pc # "none" /\ call'[e].pc # "none"
    BY DEF Grows
  <2>3. call'[d].message.kind = call'[e].message.kind \/ {d, e} \in crossed'
    BY DEF Grows
  <2> QED
    BY <2>1, <2>2, <2>3 DEF Excused
<1> QED
  BY <1>1, <1>2, <1>3

(* The halves in the cache, in a witness or with the flusher are of calls  *)
(* that are done.                                                          *)
LEMMA DoneFacts ==
  ASSUME ServerTypeOK, PlaceInv
  PROVE  /\ \A p \in cache : p \in Calls /\ p \in counted /\ call[p].pc = "done"
         /\ \A u \in uploads : \A p \in u : p \in Calls /\ p \in counted /\ call[p].pc = "done"
         /\ \A q \in flusher : q \in Calls /\ q \in counted /\ call[q].pc = "done"
  BY DEF ServerTypeOK, PlaceInv, Counted

(* Counted calls are requests or responses: of three with one key two are  *)
(* of a kind.                                                              *)
LEMMA ThreeOfAKey ==
  ASSUME ServerTypeOK, CallInv, NEW c \in Calls, NEW d \in Calls, NEW e \in Calls,
         c \in counted, d \in counted, e \in counted, SameKey(c, d), SameKey(c, e), d # e
  PROVE  Excused(c)
<1>1. ASSUME NEW x \in {c, d, e}
      PROVE  call[x].message.kind \in {"request", "response"} /\ call[x].pc # "none"
  BY DEF CallInv, GoesOn
<1>2. PICK x \in {c, d, e}, y \in {c, d, e} :
        x # y /\ call[x].message.kind = call[y].message.kind
  BY <1>1 DEF SameKey
<1>3. Key(x) = Key(c) /\ Key(y) = Key(c)
  BY DEF SameKey
<1> QED
  BY <1>1, <1>2, <1>3 DEF Excused

(* No half is lost without an excuse if none is taken from the cache       *)
(* without one and new halves are looked after.                            *)
LEMMA KeepStep ==
  ASSUME ServerTypeOK, PlaceInv, KeepInv, Grows,
         \A p \in cache : (Kept(p)' \/ Excused(p)') /\ KeptFor(p)',
         \A c \in Calls : c \in Finished' => \/ c \in Finished
                                             \/ (Kept(c)' \/ Excused(c)') /\ KeptFor(c)'
  PROVE  KeepInv'
<1> SUFFICES ASSUME NEW c \in Calls, c \in Finished
             PROVE  (Kept(c)' \/ Excused(c)') /\ KeptFor(c)'
  BY DEF KeepInv, Finished
<1>0. call[c].pc # "none" /\ (Kept(c) \/ Excused(c)) /\ KeptFor(c)
  BY DEF KeepInv, Finished
<1>1. \A d : Kept(d) => d \in cache \/ Kept(d)'
  BY DEF Kept, Grows
<1>2. Kept(c)' \/ Excused(c)'
  BY <1>0, <1>1, GrowFacts
<1>3. PICK d \in Calls : call[d].pc # "none" /\ Key(d) = Key(c) /\ Kept(d)
  BY <1>0 DEF KeptFor
<1>4. Key(d)' = Key(c)' /\ call'[d].pc # "none"
  BY <1>0, <1>3, GrowFacts DEF Grows
<1>5. CASE d \in cache
  <2>1. PICK e \in Calls : call'[e].pc # "none" /\ Key(e)' = Key(d)' /\ Kept(e)'
    BY <1>5 DEF KeptFor
  <2> QED
    BY <1>2, <1>4, <2>1 DEF KeptFor
<1>6. CASE d \notin cache
  BY <1>1, <1>2, <1>3, <1>4, <1>6 DEF KeptFor
<1> QED
  BY <1>5, <1>6

(* Witnesses keep what they were made of; only new ones are to be looked   *)
(* at.                                                                     *)
LEMMA GenuineStep ==
  ASSUME ServerTypeOK, PlaceInv, StrangersWereRefused, Grows,
         \A u \in uploads' : u \in uploads \/ \A c, d \in u : c # d =>
           /\ call'[c].message.kind # call'[d].message.kind
           /\ \/ call'[c].message.exchange = call'[d].message.exchange
              \/ call'[c].answer = 400 /\ call'[d].answer = 400
  PROVE  StrangersWereRefused'
<1>1. \A u \in uploads : \A c \in u : call'[c] = call[c]
  BY DoneFacts DEF Grows
<1> QED
  BY <1>1 DEF StrangersWereRefused

(* The half with the flusher.                                              *)
LEMMA FlushStep ==
  ASSUME ServerTypeOK, PlaceInv, FlushInv, Grows, flusher' \subseteq flusher,
         \A q \in flusher : q \in cache /\ q \notin cache' =>
           \E d \in Calls : Counted(d)' /\ SameKey(q, d)',
         \A q \in flusher : \A c \in Calls :
           Waiting(c)' /\ SameKey(q, c)' => Waiting(c) \/ Excused(q)'
  PROVE  FlushInv'
<1> SUFFICES ASSUME NEW q \in flusher
             PROVE  /\ q \notin cache' => \E d \in Calls : Counted(d)' /\ SameKey(q, d)'
                    /\ \A c \in Calls : Waiting(c)' /\ SameKey(q, c)' => Excused(q)'
  BY DEF FlushInv
<1>0. q \in Calls /\ call[q].pc # "none"
  BY DoneFacts
<1>1. ASSUME NEW d \in Calls, Counted(d), SameKey(q, d)
      PROVE  Counted(d)' /\ SameKey(q, d)'
  BY <1>0, <1>1, GrowFacts DEF Counted, SameKey
<1>2. q \notin cache' => \E d \in Calls : Counted(d)' /\ SameKey(q, d)'
  BY <1>1 DEF FlushInv
<1>3. ASSUME NEW c \in Calls, Waiting(c), SameKey(q, c)'
      PROVE  Excused(q)'
  <2>1. call[c].pc # "none"
    BY <1>3, DoneFacts DEF Waiting
  <2>2. SameKey(q, c)
    BY <1>0, <1>3, <2>1, GrowFacts DEF SameKey
  <2> QED
    BY <1>0, <1>3, <2>2, GrowFacts DEF FlushInv
<1> QED
  BY <1>2, <1>3

(* A call with another pc, message, damage and answer is a call.           *)
LEMMA CallUpdate ==
  ASSUME NEW P, NEW M, NEW D, NEW R, NEW B, NEW A,
         NEW f \in [pc : P, message : M, damage : D, result : R, deserved : B, answer : A],
         NEW pc \in P, NEW m \in M, NEW d \in D, NEW a \in A
  PROVE  [f EXCEPT !.pc = pc, !.message = m, !.damage = d, !.answer = a]
           \in [pc : P, message : M, damage : D, result : R, deserved : B, answer : A]
  OBVIOUS

(* And so is one with another pc and answer.                               *)
LEMMA StepUpdate ==
  ASSUME NEW P, NEW M, NEW D, NEW R, NEW B, NEW A,
         NEW f \in [pc : P, message : M, damage : D, result : R, deserved : B, answer : A],
         NEW pc \in P, NEW a \in A
  PROVE  [f EXCEPT !.pc = pc, !.answer = a]
           \in [pc : P, message : M, damage : D, result : R, deserved : B, answer : A]
  OBVIOUS

(* A new call: neither counted nor in the cache.                           *)
LEMMA ReceiveKept ==
  ASSUME ServerIInv, NEW c \in Calls, Receive(c)
  PROVE  ServerIInv'
<1>0. /\ ServerTypeOK /\ CallInv /\ PlaceInv /\ CrossInv /\ FlushInv /\ KeepInv /\ StrangersWereRefused
      /\ call[c].pc = "none"
  BY DEF ServerIInv, Receive
<1>a. PICK m \in MessagesOf[profile] : \E damage \in Damage(m) :
        call' = [call EXCEPT ![c] = [Fresh EXCEPT !.pc = IF GoesOn(m) THEN "process" ELSE "done",
                                                  !.message = m, !.damage = damage,
                                                  !.answer = FirstStatus(m)]]
  BY DEF Receive
<1>1. PICK damage \in Damage(m) :
        call' = [call EXCEPT ![c] = [Fresh EXCEPT !.pc = IF GoesOn(m) THEN "process" ELSE "done",
                                                  !.message = m, !.damage = damage,
                                                  !.answer = FirstStatus(m)]]
  BY <1>a
<1>b. damage \in Damages
  BY <1>1 DEF Damage, Damages
<1>2. UNCHANGED <<profile, cache, uploads, flusher, counted, crossed>>
  BY DEF Receive
<1>3. m \in Mirrors /\ m.kind \in {"request", "response", "other"} /\ m.exchange # ZeroID
  <2>1. profile \in Profiles
    BY <1>0 DEF ServerTypeOK
  <2>2. m \in Mirrors
    BY <1>1, <2>1 DEF Mirrors
  <2> QED
    BY <1>1, <2>1, <2>2, ServerAssumption
<1>4. PICK k : k = [Fresh EXCEPT !.pc = IF GoesOn(m) THEN "process" ELSE "done",
                                 !.message = m, !.damage = damage, !.answer = FirstStatus(m)]
  OBVIOUS
<1>5. call' = [call EXCEPT ![c] = k]
  BY <1>1, <1>4
<1>6. call'[c] = k /\ \A d \in Calls : d # c => call'[d] = call[d]
  BY <1>0, <1>5 DEF ServerTypeOK
<1>7. /\ k.pc = (IF GoesOn(m) THEN "process" ELSE "done") /\ k.message = m /\ k.result = "none"
      /\ k.answer = FirstStatus(m)
  BY <1>4 DEF Fresh
<1>8. ServerTypeOK'
  <2>1. k \in [pc : {"none", "process", "lookup", "store", "done"}, message : Held,
               damage : Damages, result : Results, deserved : BOOLEAN, answer : {0, 200, 400, 404}]
    <3>1. m \in Held /\ "none" \in Results /\ "none" \in Damages
      BY <1>3 DEF Held, Results, Damages
    <3>2. FirstStatus(m) \in {0, 200, 400, 404}
      BY DEF FirstStatus
    <3>3. NoMessage \in Held
      BY DEF Held
    <3> HIDE DEF Held, Results, Damages
    <3>4. Fresh \in [pc : {"none", "process", "lookup", "store", "done"}, message : Held,
                     damage : Damages, result : Results, deserved : BOOLEAN, answer : {0, 200, 400, 404}]
      BY <3>1, <3>3 DEF Fresh
    <3>5. PICK pc \in {"process", "done"} : pc = IF GoesOn(m) THEN "process" ELSE "done"
      OBVIOUS
    <3>6. k = [Fresh EXCEPT !.pc = pc, !.message = m, !.damage = damage, !.answer = FirstStatus(m)]
      BY <1>4, <3>5
    <3> DEFINE P == {"none", "process", "lookup", "store", "done"}
               A == {0, 200, 400, 404}
    <3>7. /\ Fresh \in [pc : P, message : Held, damage : Damages, result : Results, deserved : BOOLEAN, answer : A]
          /\ pc \in P /\ FirstStatus(m) \in A
      BY <3>2, <3>4, <3>5
    <3> HIDE DEF P, A
    <3>8. k \in [pc : P, message : Held, damage : Damages, result : Results, deserved : BOOLEAN, answer : A]
      BY <3>1, <3>6, <3>7, <1>b, CallUpdate, Zenon
    <3> QED
      BY <3>8 DEF P, A
  <2> HIDE DEF Held, Results
  <2>2. call' \in [Calls -> [pc : {"none", "process", "lookup", "store", "done"}, message : Held,
                            damage : Damages, result : Results, deserved : BOOLEAN, answer : {0, 200, 400, 404}]]
    BY <1>0, <1>5, <2>1 DEF ServerTypeOK
  <2> QED
    BY <1>0, <1>2, <2>2 DEF ServerTypeOK
<1>9. c \notin counted
  BY <1>0 DEF CallInv
<1>10. Grows
  BY <1>0, <1>2, <1>6 DEF Grows
<1>11. c \notin cache /\ c \notin flusher /\ \A u \in uploads : c \notin u
  BY <1>0, DoneFacts
<1>12. CallInv'
  <2> SUFFICES ASSUME NEW d \in Calls
               PROVE  /\ call'[d].pc # "none" =>
                           /\ call'[d].message.kind \in {"request", "response", "other"}
                           /\ call'[d].message.exchange # ZeroID
                      /\ call'[d].pc = "process" => call'[d].message \in Mirrors
                      /\ call'[d].pc \in {"process", "lookup", "store"} =>
                           /\ GoesOn(call'[d].message)
                           /\ call'[d].answer = FirstStatus(call'[d].message)
                      /\ d \in counted => /\ GoesOn(call'[d].message)
                                          /\ call'[d].pc \in {"lookup", "store", "done"}
                      /\ call'[d].pc \in {"lookup", "store"} \/ call'[d].result # "none" =>
                           d \in counted
                      /\ call'[d].pc = "done" /\ d \in counted =>
                           call'[d].answer = IF call'[d].message.problem = "none" THEN 200 ELSE 400
                      /\ call'[d].pc = "done" /\ d \notin counted => call'[d].answer \in {400, 404}
    BY <1>2 DEF CallInv
  <2>1. CASE d # c
    BY <1>0, <1>6, <2>1 DEF CallInv
  <2>2. CASE d = c
    <3>1. ~GoesOn(m) => FirstStatus(m) \in {400, 404}
      <4>1. CASE m.kind = "other"
        BY <4>1 DEF FirstStatus
      <4>2. CASE m.kind # "other"
        BY <4>2 DEF GoesOn, FirstStatus
      <4> QED
        BY <4>1, <4>2
    <3> QED
      BY <1>3, <1>6, <1>7, <1>9, <2>2, <3>1
  <2> QED
    BY <2>1, <2>2
<1>13. PlaceInv'
  <2>1. \A d \in Calls : d # c => Key(d)' = Key(d) /\ (Counted(d)' <=> Counted(d))
    BY <1>2, <1>6 DEF Key, Counted
  <2>2. cache \subseteq Calls /\ \A u \in uploads : u \subseteq Calls
    BY <1>0 DEF ServerTypeOK
  <2> QED
    BY <1>0, <1>2, <1>11, <2>1, <2>2 DEF PlaceInv, SameKey
<1>14. \A d \in Calls : Waiting(d)' => d # c /\ Waiting(d)
  BY <1>2, <1>6, <1>7, <1>11 DEF Waiting
<1>15. CrossInv'
  <2> SUFFICES ASSUME NEW d \in Calls, NEW e \in Calls,
                      call'[d].pc = "store", Waiting(e)', SameKey(d, e)'
               PROVE  {d, e} \in crossed
    BY <1>2 DEF CrossInv
  <2>1. d # c /\ e # c /\ Waiting(e) /\ call[d].pc = "store"
    BY <1>6, <1>7, <1>14
  <2>2. SameKey(d, e)
    BY <1>6, <2>1 DEF SameKey, Key
  <2> QED
    BY <1>0, <2>1, <2>2 DEF CrossInv
<1>16. FlushInv'
  BY <1>0, <1>2, <1>10, <1>14, FlushStep
<1>17. KeepInv'
  <2>1. \A p \in cache : (Kept(p)' \/ Excused(p)') /\ KeptFor(p)'
    <3> SUFFICES ASSUME NEW p \in cache
                 PROVE  Kept(p)' /\ KeptFor(p)'
      OBVIOUS
    <3>1. p \in Calls /\ call'[p].pc # "none"
      BY <1>0, <1>10, DoneFacts DEF Grows
    <3> QED
      BY <1>2, <3>1 DEF Kept, KeptFor
  <2>2. \A d \in Calls : d \in Finished' => d \in Finished
    BY <1>6, <1>7 DEF Finished
  <2> QED
    BY <1>0, <1>10, <2>1, <2>2, KeepStep
<1>18. StrangersWereRefused'
  BY <1>0, <1>2, <1>10, GenuineStep
<1> QED
  BY <1>8, <1>12, <1>13, <1>15, <1>16, <1>17, <1>18 DEF ServerIInv

(* ParseHTTP reads a message as it came, and leaves its headers.           *)
LEMMA ProcessKept ==
  ASSUME ServerIInv, NEW c \in Calls, Process(c)
  PROVE  ServerIInv'
<1>0. /\ ServerTypeOK /\ CallInv /\ PlaceInv /\ CrossInv /\ FlushInv /\ KeepInv /\ StrangersWereRefused
      /\ call[c].pc = "process"
  BY DEF ServerIInv, Process, At
<1>1. PICK r \in ParseHTTP(call[c].message, call[c].damage) :
        call' = [call EXCEPT ![c].result = r,
                             ![c].deserved = Deserved(call[c].message, call[c].damage, r),
                             ![c].message = Headers(call[c].message), ![c].damage = "none",
                             ![c].pc = IF r = "error" THEN "done" ELSE "lookup",
                             ![c].answer = IF r = "error" THEN Answered(c) ELSE @]
  BY DEF Process
<1>2. counted' = counted \cup {c} /\ UNCHANGED <<profile, cache, uploads, flusher, crossed>>
  BY DEF Process
<1>3. PICK m \in Mirrors : m = call[c].message
  BY <1>0 DEF CallInv
<1>d. PICK damage \in Damages : damage = call[c].damage
  BY <1>0 DEF ServerTypeOK
<1>4. PICK k : k = [pc |-> IF r = "error" THEN "done" ELSE "lookup", message |-> Headers(m),
                    damage |-> "none", result |-> r, deserved |-> Deserved(m, damage, r),
                    answer |-> IF r = "error" THEN Answered(c) ELSE call[c].answer]
  OBVIOUS
<1>5. call' = [call EXCEPT ![c] = k]
  BY <1>0, <1>1, <1>3, <1>d, <1>4 DEF ServerTypeOK
<1>6. call'[c] = k /\ \A d \in Calls : d # c => call'[d] = call[d]
  BY <1>0, <1>5 DEF ServerTypeOK
<1>7. /\ k.pc = (IF r = "error" THEN "done" ELSE "lookup") /\ k.result = r
      /\ k.message.kind = m.kind /\ k.message.problem = m.problem
      /\ k.message.exchange = m.exchange
      /\ k.answer = IF r = "error" THEN Answered(c) ELSE call[c].answer
  BY <1>4 DEF Headers
<1>8. ServerTypeOK'
  <2>1. k \in [pc : {"none", "process", "lookup", "store", "done"}, message : Held,
               damage : Damages, result : Results, deserved : BOOLEAN, answer : {0, 200, 400, 404}]
    <3>1. Headers(m) \in Held /\ r \in Results /\ "none" \in Damages
      BY <1>1, <1>3, <1>d DEF Held, Results, Damages
    <3>2. call[c].answer \in {0, 200, 400, 404} /\ Answered(c) \in {0, 200, 400, 404}
      BY <1>0 DEF ServerTypeOK, Answered
    <3>3. Deserved(m, damage, r) \in BOOLEAN
      BY DEF Deserved
    <3> HIDE DEF Held, Results, Damages
    <3> QED
      BY <1>4, <3>1, <3>2, <3>3
  <2> HIDE DEF Held, Results
  <2>2. call' \in [Calls -> [pc : {"none", "process", "lookup", "store", "done"}, message : Held,
                            damage : Damages, result : Results, deserved : BOOLEAN, answer : {0, 200, 400, 404}]]
    BY <1>0, <1>5, <2>1 DEF ServerTypeOK
  <2> QED
    BY <1>0, <1>2, <2>2 DEF ServerTypeOK
<1>9. Grows
  BY <1>0, <1>2, <1>3, <1>6, <1>7 DEF Grows
<1>10. c \notin cache /\ c \notin flusher /\ \A u \in uploads : c \notin u
  BY <1>0, DoneFacts
<1>11. CallInv'
  <2> SUFFICES ASSUME NEW d \in Calls
               PROVE  /\ call'[d].pc # "none" =>
                           /\ call'[d].message.kind \in {"request", "response", "other"}
                           /\ call'[d].message.exchange # ZeroID
                      /\ call'[d].pc = "process" => call'[d].message \in Mirrors
                      /\ call'[d].pc \in {"process", "lookup", "store"} =>
                           /\ GoesOn(call'[d].message)
                           /\ call'[d].answer = FirstStatus(call'[d].message)
                      /\ d \in counted' => /\ GoesOn(call'[d].message)
                                           /\ call'[d].pc \in {"lookup", "store", "done"}
                      /\ call'[d].pc \in {"lookup", "store"} \/ call'[d].result # "none" =>
                           d \in counted'
                      /\ call'[d].pc = "done" /\ d \in counted' =>
                           call'[d].answer = IF call'[d].message.problem = "none" THEN 200 ELSE 400
                      /\ call'[d].pc = "done" /\ d \notin counted' => call'[d].answer \in {400, 404}
    BY DEF CallInv
  <2>1. CASE d # c
    <3>1. call'[d] = call[d] /\ (d \in counted' <=> d \in counted)
      BY <1>2, <1>6, <2>1
    <3> QED
      BY <1>0, <3>1 DEF CallInv
  <2>2. CASE d = c
    <3>1. /\ GoesOn(m) /\ call[c].answer = FirstStatus(m)
          /\ m.kind \in {"request", "response", "other"} /\ m.exchange # ZeroID
      BY <1>0, <1>3 DEF CallInv
    <3>2. GoesOn(k.message) /\ FirstStatus(k.message) = FirstStatus(m)
      BY <3>1, <1>7 DEF GoesOn, FirstStatus
    <3>3. Answered(c) = IF m.problem = "none" THEN 200 ELSE 400
      BY <3>1 DEF Answered, FirstStatus, GoesOn
    <3> QED
      BY <1>2, <1>6, <1>7, <2>2, <3>1, <3>2, <3>3
  <2> QED
    BY <2>1, <2>2
<1>12. PlaceInv'
  <2>1. \A d \in Calls : d # c => Key(d)' = Key(d) /\ (Counted(d)' <=> Counted(d))
    BY <1>2, <1>6 DEF Key, Counted
  <2>2. cache \subseteq Calls /\ \A u \in uploads : u \subseteq Calls
    BY <1>0 DEF ServerTypeOK
  <2> QED
    BY <1>0, <1>2, <1>10, <2>1, <2>2 DEF PlaceInv, SameKey
<1>13. \A d \in Calls : Waiting(d)' => d # c /\ Waiting(d)
  BY <1>2, <1>6, <1>7, <1>10 DEF Waiting
<1>14. CrossInv'
  <2> SUFFICES ASSUME NEW d \in Calls, NEW e \in Calls,
                      call'[d].pc = "store", Waiting(e)', SameKey(d, e)'
               PROVE  {d, e} \in crossed
    BY <1>2 DEF CrossInv
  <2>1. d # c /\ e # c /\ Waiting(e) /\ call[d].pc = "store"
    BY <1>6, <1>7, <1>13
  <2>2. SameKey(d, e)
    BY <1>6, <2>1 DEF SameKey, Key
  <2> QED
    BY <1>0, <2>1, <2>2 DEF CrossInv
<1>15. FlushInv'
  BY <1>0, <1>2, <1>9, <1>13, FlushStep
<1>16. KeepInv'
  <2>1. \A p \in cache : (Kept(p)' \/ Excused(p)') /\ KeptFor(p)'
    <3> SUFFICES ASSUME NEW p \in cache
                 PROVE  Kept(p)' /\ KeptFor(p)'
      OBVIOUS
    <3>1. p \in Calls /\ call'[p].pc # "none"
      BY <1>0, <1>9, DoneFacts DEF Grows
    <3> QED
      BY <1>2, <3>1 DEF Kept, KeptFor
  <2>2. \A d \in Calls : d \in Finished' => d \in Finished
    BY <1>6, <1>7 DEF Finished
  <2> QED
    BY <1>0, <1>9, <2>1, <2>2, KeepStep
<1>17. StrangersWereRefused'
  BY <1>0, <1>2, <1>9, GenuineStep
<1> QED
  BY <1>8, <1>11, <1>12, <1>14, <1>15, <1>16, <1>17 DEF ServerIInv

(* LoadAndDelete, and the merge on a hit.                                  *)
LEMMA LookupStepKept ==
  ASSUME ServerIInv, NEW c \in Calls, Lookup(c)
  PROVE  ServerIInv'
<1>0. /\ ServerTypeOK /\ CallInv /\ PlaceInv /\ CrossInv /\ FlushInv /\ KeepInv /\ StrangersWereRefused
      /\ call[c].pc = "lookup"
  BY DEF ServerIInv, Lookup, At
<1>1. PICK found \in SUBSET cache : found = {p \in cache : Key(p) = Key(c)}
  OBVIOUS
<1>2. /\ call' = [call EXCEPT ![c].pc = IF found = {} THEN "store" ELSE "done",
                              ![c].answer = IF found = {} THEN @ ELSE Answered(c)]
      /\ cache' = cache \ found
      /\ uploads' = uploads \cup {MergeWitness(p, c) : p \in found}
      /\ crossed' = crossed \cup
           {{c, d} : d \in {e \in Calls : found = {} /\ call[e].pc = "store" /\ Key(e) = Key(c)}}
      /\ UNCHANGED <<profile, flusher, counted>>
  BY <1>1 DEF Lookup
<1>3. /\ c \in counted /\ GoesOn(call[c].message) /\ call[c].answer = FirstStatus(call[c].message)
      /\ call[c].message.exchange # ZeroID
      /\ call[c].message.kind \in {"request", "response", "other"}
  BY <1>0 DEF CallInv
<1>a. PICK pc \in {"store", "done"} : pc = IF found = {} THEN "store" ELSE "done"
  OBVIOUS
<1>b. PICK answer : answer = IF found = {} THEN call[c].answer ELSE Answered(c)
  OBVIOUS
<1>4. PICK k : k = [call[c] EXCEPT !.pc = pc, !.answer = answer]
  OBVIOUS
<1>5. call' = [call EXCEPT ![c] = k]
  BY <1>0, <1>2, <1>4, <1>a, <1>b DEF ServerTypeOK
<1>6. call'[c] = k /\ \A d \in Calls : d # c => call'[d] = call[d]
  BY <1>0, <1>5 DEF ServerTypeOK
<1>7. /\ k.pc = (IF found = {} THEN "store" ELSE "done") /\ k.result = call[c].result
      /\ k.message = call[c].message
      /\ k.answer = IF found = {} THEN call[c].answer ELSE Answered(c)
  BY <1>0, <1>4, <1>a, <1>b DEF ServerTypeOK
<1>8. c \notin cache /\ c \notin flusher /\ \A u \in uploads : c \notin u
  BY <1>0, DoneFacts
<1>9. \A p \in found : /\ p \in cache /\ p \in Calls /\ Key(p) = Key(c) /\ p # c
                       /\ p \in counted /\ call[p].pc = "done"
  BY <1>0, <1>1, <1>8, DoneFacts
<1>10. Grows
  <2>1. counted \subseteq counted' /\ uploads \subseteq uploads' /\ crossed \subseteq crossed'
    BY <1>2
  <2>2. /\ call'[c].pc # "none" /\ call'[c].message = call[c].message
    BY <1>6, <1>7
  <2> QED
    BY <1>0, <1>6, <2>1, <2>2 DEF Grows
<1>11. \A d \in Calls : Key(d)' = Key(d)
  BY <1>6, <1>7 DEF Key
<1>12. ASSUME NEW p \in found
       PROVE  /\ MergeWitness(p, c) \in uploads' /\ p \in MergeWitness(p, c)
              /\ MergeWitness(p, c) \subseteq {p, c}
  BY <1>2 DEF MergeWitness
<1>13. ServerTypeOK'
  <2>1. k \in [pc : {"none", "process", "lookup", "store", "done"}, message : Held,
               damage : Damages, result : Results, deserved : BOOLEAN, answer : {0, 200, 400, 404}]
    <3> DEFINE P == {"none", "process", "lookup", "store", "done"}
               A == {0, 200, 400, 404}
    <3>1. call[c].answer \in A /\ Answered(c) \in A
      BY <1>0 DEF ServerTypeOK, Answered
    <3>2. pc \in P /\ answer \in A
      BY <1>a, <1>b, <3>1
    <3>3. call[c] \in [pc : P, message : Held, damage : Damages, result : Results, deserved : BOOLEAN, answer : A]
      BY <1>0 DEF ServerTypeOK
    <3> HIDE DEF Held, Results, P, A
    <3>4. k \in [pc : P, message : Held, damage : Damages, result : Results, deserved : BOOLEAN, answer : A]
      BY <1>4, <3>2, <3>3, StepUpdate, Zenon
    <3> QED
      BY <3>4 DEF P, A
  <2> HIDE DEF Held, Results
  <2>2. call' \in [Calls -> [pc : {"none", "process", "lookup", "store", "done"}, message : Held,
                            damage : Damages, result : Results, deserved : BOOLEAN, answer : {0, 200, 400, 404}]]
    BY <1>0, <1>5, <2>1 DEF ServerTypeOK
  <2>3. cache' \subseteq Calls
    BY <1>0, <1>2 DEF ServerTypeOK
  <2>4. uploads' \subseteq SUBSET Calls
    <3>1. \A p \in found : MergeWitness(p, c) \subseteq Calls
      BY <1>9, <1>12
    <3> HIDE DEF MergeWitness
    <3> QED
      BY <1>0, <1>2, <3>1 DEF ServerTypeOK
  <2>5. crossed' \subseteq SUBSET Calls
    BY <1>0, <1>2 DEF ServerTypeOK
  <2> QED
    BY <1>0, <1>2, <2>2, <2>3, <2>4, <2>5 DEF ServerTypeOK
<1>14. CallInv'
  <2> SUFFICES ASSUME NEW d \in Calls
               PROVE  /\ call'[d].pc # "none" =>
                           /\ call'[d].message.kind \in {"request", "response", "other"}
                           /\ call'[d].message.exchange # ZeroID
                      /\ call'[d].pc = "process" => call'[d].message \in Mirrors
                      /\ call'[d].pc \in {"process", "lookup", "store"} =>
                           /\ GoesOn(call'[d].message)
                           /\ call'[d].answer = FirstStatus(call'[d].message)
                      /\ d \in counted => /\ GoesOn(call'[d].message)
                                          /\ call'[d].pc \in {"lookup", "store", "done"}
                      /\ call'[d].pc \in {"lookup", "store"} \/ call'[d].result # "none" =>
                           d \in counted
                      /\ call'[d].pc = "done" /\ d \in counted =>
                           call'[d].answer = IF call'[d].message.problem = "none" THEN 200 ELSE 400
                      /\ call'[d].pc = "done" /\ d \notin counted => call'[d].answer \in {400, 404}
    BY <1>2 DEF CallInv
  <2>1. CASE d # c
    BY <1>0, <1>6, <2>1 DEF CallInv
  <2>2. CASE d = c
    <3>1. Answered(c) = IF call[c].message.problem = "none" THEN 200 ELSE 400
      BY <1>3 DEF Answered, FirstStatus, GoesOn
    <3> QED
      BY <1>3, <1>6, <1>7, <2>2, <3>1
  <2> QED
    BY <2>1, <2>2
<1>15. found # {} => Counted(c)'
  BY <1>2, <1>3, <1>6, <1>7 DEF Counted
<1>16. PlaceInv'
  <2>1. \A d \in Calls : Counted(d) => Counted(d)'
    BY <1>10, GrowFacts
  <2>2. cache \subseteq Calls /\ \A u \in uploads : u \subseteq Calls
    BY <1>0 DEF ServerTypeOK
  <2>3. \A d \in cache' : Counted(d)'
    BY <1>0, <1>2, <2>1, <2>2 DEF PlaceInv
  <2>4. ASSUME NEW u \in uploads', NEW d \in u
        PROVE  Counted(d)'
    <3>1. CASE u \in uploads
      BY <1>0, <3>1, <2>1, <2>2, <2>4 DEF PlaceInv
    <3>2. CASE \E p \in found : u = MergeWitness(p, c)
      <4> PICK p \in found : u = MergeWitness(p, c)
        BY <3>2
      <4>1. Counted(p)
        BY <1>9 DEF Counted
      <4> QED
        BY <1>9, <1>12, <1>15, <2>1, <2>4, <4>1
    <3> QED
      BY <1>2, <3>1, <3>2
  <2>5. \A a, b \in cache' : ~SameKey(a, b)'
    BY <1>0, <1>2, <1>11, <2>2 DEF PlaceInv, SameKey
  <2>6. \A q \in flusher' : \E u \in uploads' : q \in u
    BY <1>0, <1>2 DEF PlaceInv
  <2> QED
    BY <2>3, <2>4, <2>5, <2>6 DEF PlaceInv
<1>17. \A d \in Calls : Waiting(d)' => Waiting(d) \/ (d = c /\ found = {})
  <2> SUFFICES ASSUME NEW d \in Calls, Waiting(d)'
               PROVE  Waiting(d) \/ (d = c /\ found = {})
    OBVIOUS
  <2>1. CASE d \in cache'
    BY <1>2, <2>1 DEF Waiting
  <2>2. CASE call'[d].pc = "store"
    BY <1>6, <1>7, <2>2 DEF Waiting
  <2> QED
    BY <2>1, <2>2 DEF Waiting
<1>18. CrossInv'
  <2> SUFFICES ASSUME NEW d \in Calls, NEW e \in Calls,
                      call'[d].pc = "store", Waiting(e)', SameKey(d, e)'
               PROVE  {d, e} \in crossed'
    BY DEF CrossInv
  <2>1. SameKey(d, e) /\ SameKey(e, d)
    BY <1>11 DEF SameKey
  <2>2. CASE d # c /\ e # c
    <3>1. call[d].pc = "store" /\ Waiting(e)
      BY <1>6, <1>17, <2>2
    <3> QED
      BY <1>0, <1>2, <2>1, <3>1 DEF CrossInv
  <2>3. ASSUME NEW y \in Calls, SameKey(c, y), found = {}, call[y].pc = "store"
        PROVE  {c, y} \in crossed'
    BY <1>2, <2>3 DEF SameKey
  <2>4. CASE d = c
    <3>1. found = {} /\ e # c /\ Waiting(e)
      BY <1>6, <1>7, <1>17, <2>1, <2>4 DEF SameKey
    <3>2. e \notin cache
      BY <1>1, <2>1, <2>4, <3>1 DEF SameKey
    <3> QED
      BY <2>1, <2>3, <2>4, <3>1, <3>2 DEF Waiting
  <2>5. CASE e = c
    <3>1. d # c /\ found = {} /\ call[d].pc = "store"
      BY <1>6, <1>8, <1>17, <1>0, <2>1, <2>5 DEF SameKey, Waiting
    <3>2. {c, d} \in crossed'
      BY <2>1, <2>3, <2>5, <3>1
    <3>3. {c, d} = {d, c}
      OBVIOUS
    <3> QED
      BY <2>5, <3>2, <3>3
  <2> QED
    BY <2>2, <2>4, <2>5
<1>19. FlushInv'
  <2>1. ASSUME NEW q \in flusher, q \in cache, q \notin cache'
        PROVE  \E d \in Calls : Counted(d)' /\ SameKey(q, d)'
    <3>1. q \in found
      BY <1>2, <2>1
    <3>2. SameKey(q, c)'
      BY <1>9, <1>11, <3>1 DEF SameKey
    <3> QED
      BY <1>15, <3>1, <3>2
  <2>2. ASSUME NEW q \in flusher, NEW d \in Calls, Waiting(d)', SameKey(q, d)'
        PROVE  Waiting(d) \/ Excused(q)'
    <3> SUFFICES ASSUME d = c, found = {}
                 PROVE  Excused(q)'
      BY <1>17, <2>2
    <3>1. q \in Calls /\ q \in counted /\ call[q].pc = "done"
      BY <1>0, DoneFacts
    <3>2. SameKey(q, c)
      BY <1>11, <2>2, <3>1 DEF SameKey
    <3>3. q \notin cache
      BY <1>1, <3>2 DEF SameKey
    <3>4. PICK e \in Calls : Counted(e) /\ SameKey(q, e)
      BY <1>0, <3>3 DEF FlushInv
    <3>5. e \in counted /\ e # c
      BY <1>0, <3>4 DEF Counted
    <3>6. Excused(q)
      BY <1>0, <1>3, <3>1, <3>2, <3>4, <3>5, ThreeOfAKey
    <3> QED
      BY <1>10, <3>1, <3>6, GrowFacts
  <2> QED
    BY <1>0, <1>2, <1>10, <2>1, <2>2, FlushStep
<1>20. KeepInv'
  <2>1. ASSUME NEW p \in cache
        PROVE  Kept(p)' /\ KeptFor(p)'
    <3>1. p \in Calls /\ call'[p].pc # "none"
      BY <1>0, <1>10, DoneFacts DEF Grows
    <3>2. p \in cache' \/ p \in found
      BY <1>2
    <3>3. Kept(p)'
      BY <1>12, <3>2 DEF Kept
    <3> QED
      BY <3>1, <3>3 DEF KeptFor
  <2>2. ASSUME NEW d \in Calls, d \in Finished', d \notin Finished
        PROVE  (Kept(d)' \/ Excused(d)') /\ KeptFor(d)'
    <3>1. d = c /\ found # {}
      BY <1>6, <1>7, <2>2 DEF Finished
    <3> PICK p \in found : TRUE
      BY <3>1
    <3>2. KeptFor(p)' /\ Key(p)' = Key(c)' /\ p \in Calls /\ p # c
      BY <1>9, <1>11, <2>1
    <3>3. KeptFor(c)'
      BY <3>2 DEF KeptFor
    <3>4. CASE call[p].message.kind # call[c].message.kind
      <4>1. c \in MergeWitness(p, c) /\ MergeWitness(p, c) \in uploads'
        BY <1>12, <3>4 DEF MergeWitness
      <4> QED
        BY <3>1, <3>3, <4>1 DEF Kept
    <3>5. CASE call[p].message.kind = call[c].message.kind
      <4>1. call'[p].message.kind = call'[c].message.kind
        BY <1>6, <1>7, <3>2, <3>5
      <4>2. call'[p].pc # "none" /\ call'[c].pc # "none"
        BY <1>0, <1>9, <1>10 DEF Grows
      <4>3. Excused(c)'
        BY <3>2, <4>1, <4>2 DEF Excused
      <4> QED
        BY <3>1, <3>3, <4>3
    <3> QED
      BY <3>4, <3>5
  <2> QED
    BY <1>0, <1>10, <2>1, <2>2, KeepStep
<1>21. StrangersWereRefused'
  <2> SUFFICES ASSUME NEW u \in uploads', u \notin uploads, NEW a \in u, NEW b \in u, a # b
               PROVE  /\ call'[a].message.kind # call'[b].message.kind
                      /\ \/ call'[a].message.exchange = call'[b].message.exchange
                         \/ call'[a].answer = 400 /\ call'[b].answer = 400
    BY <1>0, <1>10, GenuineStep
  <2>1. PICK p \in found : u = MergeWitness(p, c)
    BY <1>2
  <2>2. {a, b} = {p, c} /\ call[p].message.kind # call[c].message.kind
    BY <2>1 DEF MergeWitness
  <2>3. p # c /\ p \in Calls /\ call'[p] = call[p] /\ call'[c].message = call[c].message
    BY <1>6, <1>7, <1>9
  <2>4. call'[p].message.kind # call'[c].message.kind
    BY <2>2, <2>3
  <2>5. \/ call[p].message.exchange = call[c].message.exchange
        \/ call[p].message.problem = "id" /\ call[c].message.problem = "id"
    <3>1. call[p].message.exchange # ZeroID /\ call[c].message.exchange # ZeroID
      BY <1>0, <1>3, <1>9 DEF CallInv
    <3> QED
      BY <1>9, <3>1 DEF Key
  <2>6. call[p].message.problem = "id" => call'[p].answer = 400
    BY <1>0, <1>9, <2>3 DEF CallInv
  <2>7. call[c].message.problem = "id" => call'[c].answer = 400
    <3>1. Answered(c) = IF call[c].message.problem = "none" THEN 200 ELSE 400
      BY <1>3 DEF Answered, FirstStatus, GoesOn
    <3>2. found # {}
      OBVIOUS
    <3> QED
      BY <1>6, <1>7, <3>1, <3>2
  <2>8. \/ call'[p].message.exchange = call'[c].message.exchange
        \/ call'[p].answer = 400 /\ call'[c].answer = 400
    BY <2>3, <2>5, <2>6, <2>7
  <2>9. (a = p /\ b = c) \/ (a = c /\ b = p)
    BY <2>2
  <2> QED
    BY <2>4, <2>8, <2>9
<1> QED
  BY <1>13, <1>14, <1>16, <1>18, <1>19, <1>20, <1>21 DEF ServerIInv

(* Store, whatever the key held by then.                                   *)
LEMMA StoreKept ==
  ASSUME ServerIInv, NEW c \in Calls, Store(c)
  PROVE  ServerIInv'
<1>0. /\ ServerTypeOK /\ CallInv /\ PlaceInv /\ CrossInv /\ FlushInv /\ KeepInv /\ StrangersWereRefused
      /\ call[c].pc = "store"
  BY DEF ServerIInv, Store, At
<1>2. /\ call' = [call EXCEPT ![c].pc = "done", ![c].answer = Answered(c)]
      /\ cache' = {p \in cache : Key(p) # Key(c)} \cup {c}
      /\ UNCHANGED <<profile, uploads, flusher, counted, crossed>>
  BY DEF Store
<1>3. /\ c \in counted /\ GoesOn(call[c].message) /\ call[c].answer = FirstStatus(call[c].message)
      /\ call[c].message.exchange # ZeroID
      /\ call[c].message.kind \in {"request", "response", "other"}
  BY <1>0 DEF CallInv
<1>a. PICK pc \in {"store", "done"} : pc = "done"
  OBVIOUS
<1>b. PICK answer : answer = Answered(c)
  OBVIOUS
<1>4. PICK k : k = [call[c] EXCEPT !.pc = pc, !.answer = answer]
  OBVIOUS
<1>5. call' = [call EXCEPT ![c] = k]
  BY <1>0, <1>2, <1>4, <1>a, <1>b DEF ServerTypeOK
<1>6. call'[c] = k /\ \A d \in Calls : d # c => call'[d] = call[d]
  BY <1>0, <1>5 DEF ServerTypeOK
<1>7. /\ k.pc = "done" /\ k.result = call[c].result /\ k.message = call[c].message
      /\ k.answer = Answered(c)
  BY <1>0, <1>4, <1>a, <1>b DEF ServerTypeOK
<1>8. c \notin cache /\ c \notin flusher /\ \A u \in uploads : c \notin u
  BY <1>0, DoneFacts
<1>10. Grows
  BY <1>0, <1>2, <1>6, <1>7 DEF Grows
<1>11. \A d \in Calls : Key(d)' = Key(d)
  BY <1>6, <1>7 DEF Key
<1>13. ServerTypeOK'
  <2>1. k \in [pc : {"none", "process", "lookup", "store", "done"}, message : Held,
               damage : Damages, result : Results, deserved : BOOLEAN, answer : {0, 200, 400, 404}]
    <3> DEFINE P == {"none", "process", "lookup", "store", "done"}
               A == {0, 200, 400, 404}
    <3>1. call[c].answer \in A /\ Answered(c) \in A
      BY <1>0 DEF ServerTypeOK, Answered
    <3>2. pc \in P /\ answer \in A
      BY <1>a, <1>b, <3>1
    <3>3. call[c] \in [pc : P, message : Held, damage : Damages, result : Results, deserved : BOOLEAN, answer : A]
      BY <1>0 DEF ServerTypeOK
    <3> HIDE DEF Held, Results, P, A
    <3>4. k \in [pc : P, message : Held, damage : Damages, result : Results, deserved : BOOLEAN, answer : A]
      BY <1>4, <3>2, <3>3, StepUpdate, Zenon
    <3> QED
      BY <3>4 DEF P, A
  <2> HIDE DEF Held, Results
  <2>2. call' \in [Calls -> [pc : {"none", "process", "lookup", "store", "done"}, message : Held,
                            damage : Damages, result : Results, deserved : BOOLEAN, answer : {0, 200, 400, 404}]]
    BY <1>0, <1>5, <2>1 DEF ServerTypeOK
  <2>3. cache' \subseteq Calls
    BY <1>0, <1>2 DEF ServerTypeOK
  <2> QED
    BY <1>0, <1>2, <2>2, <2>3 DEF ServerTypeOK
<1>14. CallInv'
  <2> SUFFICES ASSUME NEW d \in Calls
               PROVE  /\ call'[d].pc # "none" =>
                           /\ call'[d].message.kind \in {"request", "response", "other"}
                           /\ call'[d].message.exchange # ZeroID
                      /\ call'[d].pc = "process" => call'[d].message \in Mirrors
                      /\ call'[d].pc \in {"process", "lookup", "store"} =>
                           /\ GoesOn(call'[d].message)
                           /\ call'[d].answer = FirstStatus(call'[d].message)
                      /\ d \in counted => /\ GoesOn(call'[d].message)
                                          /\ call'[d].pc \in {"lookup", "store", "done"}
                      /\ call'[d].pc \in {"lookup", "store"} \/ call'[d].result # "none" =>
                           d \in counted
                      /\ call'[d].pc = "done" /\ d \in counted =>
                           call'[d].answer = IF call'[d].message.problem = "none" THEN 200 ELSE 400
                      /\ call'[d].pc = "done" /\ d \notin counted => call'[d].answer \in {400, 404}
    BY <1>2 DEF CallInv
  <2>1. CASE d # c
    BY <1>0, <1>6, <2>1 DEF CallInv
  <2>2. CASE d = c
    <3>1. Answered(c) = IF call[c].message.problem = "none" THEN 200 ELSE 400
      BY <1>3 DEF Answered, FirstStatus, GoesOn
    <3> QED
      BY <1>3, <1>6, <1>7, <2>2, <3>1
  <2> QED
    BY <2>1, <2>2
<1>15. Counted(c)'
  BY <1>2, <1>3, <1>6, <1>7 DEF Counted
<1>16. PlaceInv'
  <2>1. \A d \in Calls : Counted(d) => Counted(d)'
    BY <1>10, GrowFacts
  <2>2. cache \subseteq Calls /\ \A u \in uploads : u \subseteq Calls
    BY <1>0 DEF ServerTypeOK
  <2>3. \A d \in cache' : Counted(d)'
    BY <1>0, <1>2, <1>15, <2>1, <2>2 DEF PlaceInv
  <2>4. \A u \in uploads' : \A d \in u : Counted(d)'
    BY <1>0, <1>2, <2>1, <2>2 DEF PlaceInv
  <2>5. \A a, b \in cache' : ~SameKey(a, b)'
    BY <1>0, <1>2, <1>11, <2>2 DEF PlaceInv, SameKey
  <2>6. \A q \in flusher' : \E u \in uploads' : q \in u
    BY <1>0, <1>2 DEF PlaceInv
  <2> QED
    BY <2>3, <2>4, <2>5, <2>6 DEF PlaceInv
<1>17. \A d \in Calls : Waiting(d)' => Waiting(d)
  BY <1>0, <1>2, <1>6, <1>7 DEF Waiting
<1>18. CrossInv'
  <2> SUFFICES ASSUME NEW d \in Calls, NEW e \in Calls,
                      call'[d].pc = "store", Waiting(e)', SameKey(d, e)'
               PROVE  {d, e} \in crossed
    BY <1>2 DEF CrossInv
  <2>1. SameKey(d, e) /\ Waiting(e) /\ call[d].pc = "store"
    BY <1>6, <1>7, <1>11, <1>17 DEF SameKey
  <2> QED
    BY <1>0, <2>1 DEF CrossInv
<1>19. FlushInv'
  <2>1. ASSUME NEW q \in flusher, q \in cache, q \notin cache'
        PROVE  \E d \in Calls : Counted(d)' /\ SameKey(q, d)'
    <3>1. q \in Calls /\ q # c /\ Key(q) = Key(c)
      BY <1>0, <1>2, <1>8, <2>1, DoneFacts
    <3>2. SameKey(q, c)'
      BY <1>11, <3>1 DEF SameKey
    <3> QED
      BY <1>15, <3>2
  <2> QED
    BY <1>0, <1>2, <1>10, <1>17, <2>1, FlushStep
<1>20. KeepInv'
  <2>0. Kept(c)' /\ call'[c].pc # "none"
    BY <1>2, <1>6, <1>7 DEF Kept
  <2>1. ASSUME NEW p \in cache
        PROVE  (Kept(p)' \/ Excused(p)') /\ KeptFor(p)'
    <3>1. p \in Calls /\ call[p].pc # "none" /\ call'[p].pc # "none" /\ p # c
      BY <1>0, <1>8, <1>10, DoneFacts DEF Grows
    <3>2. CASE Key(p) # Key(c)
      <4>1. Kept(p)'
        BY <1>2, <3>2 DEF Kept
      <4> QED
        BY <3>1, <4>1 DEF KeptFor
    <3>3. CASE Key(p) = Key(c)
      <4>1. {c, p} \in crossed
        BY <1>0, <3>1, <3>3 DEF CrossInv, Waiting, SameKey
      <4>2. Excused(p)
        BY <1>0, <3>1, <3>3, <4>1 DEF Excused
      <4>3. Excused(p)'
        BY <1>10, <3>1, <4>2, GrowFacts
      <4>4. KeptFor(p)'
        BY <1>11, <2>0, <3>1, <3>3 DEF KeptFor
      <4> QED
        BY <4>3, <4>4
    <3> QED
      BY <3>2, <3>3
  <2>2. ASSUME NEW d \in Calls, d \in Finished', d \notin Finished
        PROVE  (Kept(d)' \/ Excused(d)') /\ KeptFor(d)'
    <3>1. d = c
      BY <1>6, <2>2 DEF Finished
    <3> QED
      BY <2>0, <3>1 DEF KeptFor
  <2> QED
    BY <1>0, <1>10, <2>1, <2>2, KeepStep
<1>21. StrangersWereRefused'
  BY <1>0, <1>2, <1>10, GenuineStep
<1> QED
  BY <1>13, <1>14, <1>16, <1>18, <1>19, <1>20, <1>21 DEF ServerIInv

(* periodicFlush uploads a half; whoever is about to store has crossed it. *)
LEMMA FlushUploadKept ==
  ASSUME ServerIInv, FlushUpload
  PROVE  ServerIInv'
<1>0. ServerTypeOK /\ CallInv /\ PlaceInv /\ CrossInv /\ FlushInv /\ KeepInv /\ StrangersWereRefused
  BY DEF ServerIInv
<1>1. PICK p \in cache : flusher' = {p} /\ uploads' = uploads \cup {{p}}
  BY DEF FlushUpload
<1>2. UNCHANGED <<profile, call, cache, counted, crossed>>
  BY DEF FlushUpload
<1>3. p \in Calls /\ p \in counted /\ call[p].pc = "done"
  BY <1>0, DoneFacts
<1>4. ServerTypeOK'
  BY <1>0, <1>1, <1>2, <1>3 DEF ServerTypeOK
<1>5. CallInv' /\ CrossInv'
  BY <1>0, <1>2 DEF CallInv, CrossInv, Waiting, SameKey, Key
<1>6. Grows
  BY <1>1, <1>2 DEF Grows
<1>7. \A d \in Calls : Key(d)' = Key(d) /\ (Counted(d)' <=> Counted(d))
  BY <1>2 DEF Key, Counted
<1>8. PlaceInv'
  <2>1. cache \subseteq Calls /\ \A u \in uploads : u \subseteq Calls
    BY <1>0 DEF ServerTypeOK
  <2>2. \A d \in cache' : Counted(d)'
    BY <1>0, <1>2, <1>7, <2>1 DEF PlaceInv
  <2>3. \A u \in uploads' : \A d \in u : Counted(d)'
    BY <1>0, <1>1, <1>7, <2>1 DEF PlaceInv
  <2>4. \A a, b \in cache' : ~SameKey(a, b)'
    BY <1>0, <1>2, <1>7, <2>1 DEF PlaceInv, SameKey
  <2>5. \A q \in flusher' : \E u \in uploads' : q \in u
    BY <1>1
  <2> QED
    BY <2>2, <2>3, <2>4, <2>5 DEF PlaceInv
<1>9. FlushInv'
  <2> SUFFICES ASSUME NEW c \in Calls, Waiting(c)', SameKey(p, c)'
               PROVE  Excused(p)'
    BY <1>1, <1>2 DEF FlushInv
  <2>1. Waiting(c) /\ SameKey(p, c) /\ SameKey(c, p)
    BY <1>2, <1>3, <1>7 DEF Waiting, SameKey
  <2>2. call[c].pc = "store"
    BY <1>0, <1>1, <2>1 DEF PlaceInv, Waiting
  <2>3. {c, p} \in crossed
    BY <1>0, <1>1, <1>3, <2>1, <2>2 DEF CrossInv, Waiting
  <2>4. Excused(p)
    BY <1>3, <2>1, <2>2, <2>3 DEF Excused, SameKey
  <2> QED
    BY <1>3, <1>6, <2>4, GrowFacts
<1>10. KeepInv'
  <2>1. ASSUME NEW d \in cache
        PROVE  Kept(d)' /\ KeptFor(d)'
    <3>1. d \in Calls /\ call'[d].pc # "none"
      BY <1>0, <1>6, DoneFacts DEF Grows
    <3> QED
      BY <1>2, <3>1 DEF Kept, KeptFor
  <2>2. \A d \in Calls : d \in Finished' => d \in Finished
    BY <1>2 DEF Finished
  <2> QED
    BY <1>0, <1>6, <2>1, <2>2, KeepStep
<1>11. StrangersWereRefused'
  BY <1>0, <1>1, <1>6, GenuineStep
<1> QED
  BY <1>4, <1>5, <1>8, <1>9, <1>10, <1>11 DEF ServerIInv

(* It deletes by the key: what it did not upload has an excuse.            *)
LEMMA FlushDeleteKept ==
  ASSUME ServerIInv, FlushDelete
  PROVE  ServerIInv'
<1>0. ServerTypeOK /\ CallInv /\ PlaceInv /\ CrossInv /\ FlushInv /\ KeepInv /\ StrangersWereRefused
  BY DEF ServerIInv
<1>2. /\ cache' = {p \in cache : \A q \in flusher : Key(p) # Key(q)} /\ flusher' = {}
      /\ UNCHANGED <<profile, call, uploads, counted, crossed>>
  BY DEF FlushDelete
<1>3. ServerTypeOK'
  BY <1>0, <1>2 DEF ServerTypeOK
<1>4. \A d \in Calls : Key(d)' = Key(d) /\ (Counted(d)' <=> Counted(d))
  BY <1>2 DEF Key, Counted
<1>5. CallInv'
  BY <1>0, <1>2 DEF CallInv
<1>6. CrossInv'
  BY <1>0, <1>2, <1>4 DEF CrossInv, Waiting, SameKey
<1>7. Grows
  BY <1>2 DEF Grows
<1>8. PlaceInv'
  <2>1. cache \subseteq Calls /\ \A u \in uploads : u \subseteq Calls
    BY <1>0 DEF ServerTypeOK
  <2> QED
    BY <1>0, <1>2, <1>4, <2>1 DEF PlaceInv, SameKey
<1>9. FlushInv'
  BY <1>2 DEF FlushInv
<1>10. KeepInv'
  <2>1. ASSUME NEW p \in cache
        PROVE  (Kept(p)' \/ Excused(p)') /\ KeptFor(p)'
    <3>1. p \in Calls /\ call[p].pc # "none" /\ call'[p].pc # "none"
      BY <1>0, <1>7, DoneFacts DEF Grows
    <3>2. CASE p \in cache'
      BY <3>1, <3>2 DEF Kept, KeptFor
    <3>3. CASE p \notin cache'
      <4>1. PICK q \in flusher : Key(p) = Key(q)
        BY <1>2, <3>3
      <4>2. q \in Calls /\ call[q].pc # "none" /\ call'[q].pc # "none"
        BY <1>0, <1>7, DoneFacts DEF Grows
      <4>3. Kept(q)'
        BY <1>0, <1>2 DEF PlaceInv, Kept
      <4>4. KeptFor(p)'
        BY <1>4, <3>1, <4>1, <4>2, <4>3 DEF KeptFor
      <4>5. CASE p = q
        BY <4>3, <4>4, <4>5
      <4>6. CASE p # q
        <5>1. Excused(q)
          BY <1>0, <3>1, <4>1, <4>6 DEF FlushInv, Waiting, SameKey
        <5>2. Excused(p)
          BY <4>1, <5>1 DEF Excused
        <5> QED
          BY <1>7, <3>1, <4>4, <5>2, GrowFacts
      <4> QED
        BY <4>5, <4>6
    <3> QED
      BY <3>2, <3>3
  <2>2. \A d \in Calls : d \in Finished' => d \in Finished
    BY <1>2 DEF Finished
  <2> QED
    BY <1>0, <1>7, <2>1, <2>2, KeepStep
<1>11. StrangersWereRefused'
  BY <1>0, <1>2, <1>7, GenuineStep
<1> QED
  BY <1>3, <1>5, <1>6, <1>8, <1>9, <1>10, <1>11 DEF ServerIInv

(* Without calls there is nothing to keep.                                 *)
LEMMA NothingYet ==
  ASSUME profile \in Profiles, call = [c \in Calls |-> Fresh], cache = {}, flusher = {},
         uploads = {}, counted = {}, crossed = {}
  PROVE  ServerIInv
<1>1. \A c \in Calls : call[c].pc = "none" /\ call[c].result = "none"
  BY DEF Fresh
<1>2. Fresh \in [pc : {"none", "process", "lookup", "store", "done"}, message : Held,
                 damage : Damages, result : Results, deserved : BOOLEAN, answer : {0, 200, 400, 404}]
  <2>1. NoMessage \in Held /\ "none" \in Results /\ "none" \in Damages
    BY DEF Held, Results, Damages
  <2> HIDE DEF Held, Results
  <2> QED
    BY <2>1 DEF Fresh
<1>3. ServerTypeOK
  BY <1>2 DEF ServerTypeOK
<1>4. CallInv /\ CrossInv
  BY <1>1 DEF CallInv, CrossInv
<1>5. PlaceInv /\ FlushInv /\ StrangersWereRefused
  BY DEF PlaceInv, FlushInv, StrangersWereRefused
<1>6. KeepInv
  BY <1>1 DEF KeepInv, Finished
<1> QED
  BY <1>3, <1>4, <1>5, <1>6 DEF ServerIInv

(* A step of a handler, of periodicFlush, or the end.                      *)
LEMMA ServerKept ==
  ASSUME ServerIInv, ServerSteps
  PROVE  ServerIInv'
<1>1. CASE Forget
  <2>1. profile' \in Profiles
    BY <1>1 DEF Forget, ServerIInv, ServerTypeOK
  <2>2. \A c \in Calls : call'[c].pc = "none" /\ call'[c].result = "none"
    BY <1>1 DEF Forget, Fresh
  <2>3. Fresh \in [pc : {"none", "process", "lookup", "store", "done"}, message : Held,
                   damage : Damages, result : Results, deserved : BOOLEAN, answer : {0, 200, 400, 404}]
    <3>1. NoMessage \in Held /\ "none" \in Results /\ "none" \in Damages
      BY DEF Held, Results, Damages
    <3> HIDE DEF Held, Results, Damages
    <3> QED
      BY <3>1 DEF Fresh
  <2>4. ServerTypeOK'
    BY <1>1, <2>1, <2>3 DEF Forget, ServerTypeOK
  <2>5. CallInv' /\ CrossInv'
    BY <1>1, <2>2 DEF Forget, CallInv, CrossInv
  <2>6. PlaceInv' /\ FlushInv' /\ StrangersWereRefused'
    BY <1>1 DEF Forget, PlaceInv, FlushInv, StrangersWereRefused
  <2>7. KeepInv'
    BY <2>2 DEF KeepInv, Finished
  <2> QED
    BY <2>4, <2>5, <2>6, <2>7 DEF ServerIInv
<1>2. CASE UNCHANGED <<profile, callVars>>
  <2>1. UNCHANGED <<profile, call, cache, uploads, flusher, counted, crossed>>
    BY <1>2 DEF callVars
  <2>2. Grows
    BY <2>1 DEF Grows
  <2>3. ServerTypeOK'
    BY <2>1 DEF ServerIInv, ServerTypeOK
  <2>4. CallInv' /\ PlaceInv' /\ CrossInv' /\ StrangersWereRefused'
    BY <2>1 DEF ServerIInv, CallInv, PlaceInv, CrossInv, StrangersWereRefused, Counted, Waiting, SameKey,
                Key
  <2>5. FlushInv'
    <3>1. \A c \in Calls : Waiting(c)' => Waiting(c)
      BY <2>1 DEF Waiting
    <3> QED
      BY <2>1, <2>2, <3>1, FlushStep DEF ServerIInv
  <2>6. KeepInv'
    <3>1. ASSUME NEW p \in cache
          PROVE  Kept(p)' /\ KeptFor(p)'
      <4>1. p \in Calls /\ call'[p].pc # "none"
        BY <2>1, DoneFacts DEF ServerIInv
      <4> QED
        BY <2>1, <4>1 DEF Kept, KeptFor
    <3>2. \A c \in Calls : c \in Finished' => c \in Finished
      BY <2>1 DEF Finished
    <3> QED
      BY <2>2, <3>1, <3>2, KeepStep DEF ServerIInv
  <2> QED
    BY <2>3, <2>4, <2>5, <2>6 DEF ServerIInv
<1> QED
  BY <1>1, <1>2, ReceiveKept, ProcessKept, LookupStepKept, StoreKept, FlushUploadKept,
     FlushDeleteKept DEF ServerSteps

(* For any number of concurrent calls: a parsed half is lost only if its   *)
(* key came twice with one kind or two of its calls crossed, and never all *)
(* halves of a key; a request is paired with a stranger's response only if *)
(* both had bad IDs and were answered 400; and every call is answered      *)
(* rightly (handleRequest, Process, flushPairCache).  That the losses do   *)
(* not happen is not claimed: the code allows them.                        *)
THEOREM MirrorTheorem == Spec => [](ServerIInv /\ MirrorInv)
<1>1. Init => ServerIInv
  BY NothingYet DEF Init, ServerInit
<1>2. ServerIInv /\ [Next]_vars => ServerIInv'
  BY ServerProjection, ServerKept
<1>3. ServerIInv => MirrorInv
  <2> SUFFICES ASSUME ServerIInv
               PROVE  MirrorInv
    OBVIOUS
  <2>0. ServerTypeOK /\ CallInv /\ KeepInv /\ StrangersWereRefused
    BY DEF ServerIInv
  <2>1. LossHasCause
    <3> SUFFICES ASSUME NEW c \in Finished,
                        NEW same, same = {d \in Calls : call[d].pc # "none" /\ Key(d) = Key(c)}
                 PROVE  /\ Kept(c) \/ \E d, e \in same :
                                        /\ d # e
                                        /\ \/ call[d].message.kind = call[e].message.kind
                                           \/ {d, e} \in crossed
                        /\ \E d \in same : Kept(d)
      BY DEF LossHasCause
    <3>1. (Kept(c) \/ Excused(c)) /\ KeptFor(c)
      BY <2>0 DEF KeepInv
    <3>2. \E d \in same : Kept(d)
      BY <3>1 DEF KeptFor
    <3>3. Excused(c) => \E d, e \in same :
                          /\ d # e
                          /\ \/ call[d].message.kind = call[e].message.kind
                             \/ {d, e} \in crossed
      BY DEF Excused
    <3> QED
      BY <3>1, <3>2, <3>3
  <2>2. AnswerIsRight
    <3> SUFFICES ASSUME NEW c \in Calls, call[c].pc = "done"
                 PROVE  /\ call[c].answer # 0
                        /\ call[c].answer = 200 <=> c \in counted /\ call[c].message.problem = "none"
      BY DEF AnswerIsRight
    <3>1. CASE c \in counted
      BY <2>0, <3>1 DEF CallInv
    <3>2. CASE c \notin counted
      BY <2>0, <3>2 DEF CallInv
    <3> QED
      BY <3>1, <3>2
  <2> QED
    BY <2>0, <2>1, <2>2 DEF MirrorInv
<1> QED
  BY <1>1, <1>2, <1>3, PTL DEF Spec
=============================================================================
