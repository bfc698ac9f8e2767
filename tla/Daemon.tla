------------------------------- MODULE Daemon -------------------------------
(***************************************************************************)
(* The daemon: daemon/run.go and daemon/internal/cloud_client.             *)
(*                                                                         *)
(* One main goroutine takes events off eventChannel and is the only one to *)
(* touch the tables of services and traces.  Around it run the HTTP        *)
(* handlers, one goroutine per service that long-polls the cloud, the      *)
(* heartbeat, one goroutine per trace-event request (uploadTraceEvents)    *)
(* and one collector per trace (collectTraces).  All of them send on       *)
(* eventChannel, and so does the main goroutine itself.                    *)
(*                                                                         *)
(* The cloud and the clients (middleware) are not part of this repository. *)
(* A client has one poll in flight at a time and any number of trace-event *)
(* requests (run.go starts a handler for each), opens a stream when it is  *)
(* told that a trace was activated and sends nothing new after the request *)
(* that says no_more_events.  A sender that finds eventChannel full is a   *)
(* sender that has not taken its step yet.                                 *)
(***************************************************************************)
EXTENDS Integers, Sequences, FiniteSets

CONSTANTS
  Services, Clients, Traces,
  Requests,        \* trace-event requests in flight, of whichever clients (bound)
  ServiceOf,       \* the service of each client and of each trace
  Capacity,        \* MAIN_GOROUTINE_BUFFER_SIZE
  TraceBuffer,     \* TRACE_BUFFER_SIZE
  MaxEvents,       \* trace events in one request (bound)
  MaxActivations,  \* times the cloud activates each trace (bound)
  MaxRestarts      \* times the daemon is restarted (bound)

NoClient == "no client"

ASSUME DaemonAssumption ==
  /\ Services # {} /\ Traces # {} /\ Clients # {}
  /\ ServiceOf \in [Clients \cup Traces -> Services]
  /\ Capacity \in Nat \ {0} /\ TraceBuffer \in Nat \ {0}
  /\ MaxEvents \in Nat /\ MaxActivations \in Nat /\ MaxRestarts \in Nat
  /\ NoClient \notin Clients

NoInfo   == [known |-> FALSE, active |-> FALSE, clients |-> {}]
NewInfo  == [known |-> TRUE, active |-> TRUE, clients |-> {}]

(* Events of eventChannel. *)
Heartbeat        == [type |-> "heartbeat"]
LongPoll(s)      == [type |-> "longPoll", svc |-> s]
Changed(s, A, D) == [type |-> "changed", svc |-> s, act |-> A, deact |-> D]
Register(c)      == [type |-> "register", client |-> c]
Events(r)        == [type |-> "events", req |-> r]
Unregister(c, t) == [type |-> "unregister", client |-> c, trace |-> t]

Event ==
  {Heartbeat} \cup {LongPoll(s) : s \in Services}
  \cup {Changed(s, A, D) : s \in Services, A \in SUBSET Traces, D \in SUBSET Traces}
  \cup {Register(c) : c \in Clients} \cup {Events(r) : r \in Requests}
  \cup {Unregister(c, t) : c \in Clients, t \in Traces}

VARIABLES
  queue,       \* eventChannel
  main,        \* main goroutine: idle, or sending a longPoll event to itself
               \* on behalf of a service, with the registration to resume
  away,        \* the heartbeat goroutine is at work or asleep
  registered,  \* services in serviceInfoByID
  info,        \* traceInfo of each trace: known, active, clientNames
  chans,       \* traceEventChannel of each incarnation of a trace
  polling,     \* services whose long poll is outstanding at the cloud
  poll,        \* each client's registration request
  req,         \* trace-event requests in flight, with their uploads
  unreg,       \* unregister events that upload goroutines have yet to send
  told,        \* traces each client believes active
  streams,     \* traces each client still has events for
  finished,    \* history: traces each client has said no_more_events for
  acts,        \* activations by the cloud so far
  restarts     \* restarts so far

daemonVars == <<main, registered, info, chans>>
clientVars == <<poll, req, told, streams, finished>>
vars == <<queue, main, away, registered, info, chans, polling, poll, req, unreg, told, streams,
          finished, acts, restarts>>

Idle   == [pc |-> "idle", svc |-> CHOOSE s \in Services : TRUE, client |-> NoClient]
NoReq  == [pc |-> "idle", client |-> CHOOSE c \in Clients : TRUE, trace |-> CHOOSE t \in Traces : TRUE,
           n |-> 0, last |-> FALSE, chan |-> 0]

Active(i, s)    == {t \in Traces : ServiceOf[t] = s /\ i[t].active}
Responders(s)   == {c \in Clients : ServiceOf[c] = s /\ poll[c] = "waiting"}

(* What a freshly started process holds: Run has queued the heartbeat. *)
Fresh(queue_, main_, away_, registered_, info_, chans_, polling_, unreg_) ==
  /\ queue_ = <<Heartbeat>>
  /\ main_ = Idle /\ away_ = FALSE
  /\ registered_ = {}
  /\ info_ = [t \in Traces |-> NoInfo]
  /\ chans_ = [t \in Traces |-> <<>>]
  /\ polling_ = {}
  /\ unreg_ = [c \in Clients |-> [t \in Traces |-> 0]]

Init ==
  /\ Fresh(queue, main, away, registered, info, chans, polling, unreg)
  /\ poll = [c \in Clients |-> "idle"]
  /\ req = [r \in Requests |-> NoReq]
  /\ told = [c \in Clients |-> {}]
  /\ streams = [c \in Clients |-> {}] /\ finished = [c \in Clients |-> {}]
  /\ acts = [t \in Traces |-> 0]
  /\ restarts = 0

(* A send on eventChannel, which blocks while the channel is full. *)
Send(e) == Len(queue) < Capacity /\ queue' = Append(queue, e)

-----------------------------------------------------------------------------
(* Clients: the HTTP endpoints. *)

(* handleMiddlewareRegistration: hands a registration to the main          *)
(* goroutine and waits for the answer.                                     *)
ClientPolls(c) ==
  /\ poll[c] = "idle"
  /\ Send(Register(c))
  /\ poll' = [poll EXCEPT ![c] = "queued"]
  /\ UNCHANGED <<daemonVars, away, polling, req, unreg, told, streams, finished, acts, restarts>>

(* addEvents: events for a trace of a client, maybe its last ones.  Other  *)
(* requests of the same client may be on their way.                        *)
ClientSends(r) ==
  /\ req[r].pc = "idle"
  /\ Send(Events(r))
  /\ \E c \in Clients : \E t \in streams[c], n \in 0..MaxEvents, last \in BOOLEAN :
       /\ req' = [req EXCEPT ![r] = [pc |-> "queued", client |-> c, trace |-> t, n |-> n,
                                     last |-> last, chan |-> 0]]
       /\ streams' = IF last THEN [streams EXCEPT ![c] = @ \ {t}] ELSE streams
       /\ finished' = IF last THEN [finished EXCEPT ![c] = @ \cup {t}] ELSE finished
  /\ UNCHANGED <<daemonVars, away, polling, poll, unreg, told, acts, restarts>>

-----------------------------------------------------------------------------
(* Goroutines around the main one. *)

(* The heartbeat goroutine has reported and slept. *)
HeartbeatReturns ==
  /\ away
  /\ Send(Heartbeat)
  /\ away' = FALSE
  /\ UNCHANGED <<daemonVars, polling, clientVars, unreg, acts, restarts>>

(* The cloud answers a long poll with traces to start and to stop. *)
CloudAnswers(s) ==
  /\ s \in polling
  /\ \E A \in SUBSET {t \in Traces : ServiceOf[t] = s /\ acts[t] < MaxActivations /\ ~ info[t].active} :
       \E D \in SUBSET (Active(info, s) \cup A) :
         /\ Send(Changed(s, A, D))
         /\ acts' = [t \in Traces |-> IF t \in A THEN acts[t] + 1 ELSE acts[t]]
  /\ polling' = polling \ {s}
  /\ UNCHANGED <<daemonVars, away, clientVars, unreg, restarts>>

(* The long poll fails: sleep, then try again. *)
CloudFails(s) ==
  /\ s \in polling
  /\ Send(LongPoll(s))
  /\ polling' = polling \ {s}
  /\ UNCHANGED <<daemonVars, away, clientVars, unreg, acts, restarts>>

Channel(r) == chans[req[r].trace][req[r].chan]

(* uploadTraceEvents hands one event to the collector, or drops it when    *)
(* the buffer is full.                                                     *)
UploadEvent(r) ==
  /\ req[r].pc = "uploading" /\ req[r].n > 0
  /\ ~ Channel(r).closed
  /\ req' = [req EXCEPT ![r].n = @ - 1]
  /\ chans' = IF Channel(r).buf < TraceBuffer
              THEN [chans EXCEPT ![req[r].trace][req[r].chan].buf = @ + 1] ELSE chans
  /\ UNCHANGED <<queue, main, away, registered, info, polling, poll, unreg, told, streams,
                 finished, acts, restarts>>

(* The rest of uploadTraceEvents: the reply, and for the last request of a *)
(* stream an unregister event, which the goroutine has yet to send.        *)
UploadReplies(r) ==
  /\ req[r].pc = "uploading" /\ req[r].n = 0
  /\ req' = [req EXCEPT ![r] = NoReq]
  /\ unreg' = IF req[r].last THEN [unreg EXCEPT ![req[r].client][req[r].trace] = @ + 1] ELSE unreg
  /\ UNCHANGED <<queue, daemonVars, away, polling, poll, told, streams, finished, acts, restarts>>

SendUnregister(c, t) ==
  /\ unreg[c][t] > 0
  /\ Send(Unregister(c, t))
  /\ unreg' = [unreg EXCEPT ![c][t] = @ - 1]
  /\ UNCHANGED <<daemonVars, away, polling, clientVars, acts, restarts>>


(* collectTraces: passes an event to its collector; closes the collector   *)
(* when the channel is closed and drained.                                 *)
CollectTraces(t, g) ==
  /\ \/ /\ chans[t][g].buf > 0
        /\ chans' = [chans EXCEPT ![t][g].buf = @ - 1]
     \/ /\ chans[t][g].buf = 0 /\ chans[t][g].closed /\ ~ chans[t][g].done
        /\ chans' = [chans EXCEPT ![t][g].done = TRUE]
  /\ UNCHANGED <<queue, main, away, registered, info, polling, clientVars, unreg, acts, restarts>>

-----------------------------------------------------------------------------
(* The main goroutine. *)

Receives(type) ==
  /\ main.pc = "idle"
  /\ queue # <<>> /\ Head(queue).type = type
  /\ queue' = Tail(queue)

(* heartbeatEvent.handle *)
HandleHeartbeat ==
  /\ Receives("heartbeat")
  /\ away' = TRUE
  /\ UNCHANGED <<daemonVars, polling, clientVars, unreg, acts, restarts>>

(* longPollServiceEvent.handle *)
HandleLongPoll ==
  /\ Receives("longPoll")
  /\ polling' = polling \cup {Head(queue).svc}
  /\ UNCHANGED <<daemonVars, away, clientVars, unreg, acts, restarts>>

(* Mutant: clients that still send are not asked about. *)
UnregisterTraceInUse(i) == IF ~ i.active THEN NoInfo ELSE i

(* unregisterTrace forgets a trace that is inactive and has no clients... *)
UnregisterTrace(i) == IF ~ i.active /\ i.clients = {} THEN NoInfo ELSE i

(* ...and closes its channel, the newest of the trace. *)
CloseForgotten(old, new, ch) ==
  [t \in Traces |-> IF old[t].known /\ ~ new[t].known
                    THEN [ch[t] EXCEPT ![Len(ch[t])].closed = TRUE] ELSE ch[t]]

(* startTraceEventCollector for the activated traces. *)
Start(i) == IF i.known THEN [i EXCEPT !.active = TRUE] ELSE NewInfo
Activate(A) == [t \in Traces |-> IF t \in A THEN Start(info[t]) ELSE info[t]]
OpenChannels(A) ==
  [t \in Traces |-> IF t \in A /\ ~ info[t].known
                    THEN Append(chans[t], [buf |-> 0, closed |-> FALSE, done |-> FALSE])
                    ELSE chans[t]]

(* Deactivation, which unregisters a trace no client is registered for. *)
Deactivate(i, D) ==
  [t \in Traces |-> IF t \in D /\ i[t].known
                    THEN UnregisterTrace([i[t] EXCEPT !.active = FALSE]) ELSE i[t]]

AddClients(i, C, A) ==
  [t \in Traces |-> IF t \in A /\ i[t].known THEN [i[t] EXCEPT !.clients = @ \cup C] ELSE i[t]]

(* Mutant: the answer leaves out the traces to stop. *)
AnswerStartsOnly(C, A, D) ==
  /\ poll' = [c \in Clients |-> IF c \in C THEN "idle" ELSE poll[c]]
  /\ told' = [c \in Clients |-> IF c \in C THEN told[c] \cup A ELSE told[c]]
  /\ streams' = [c \in Clients |-> IF c \in C THEN streams[c] \cup A ELSE streams[c]]

(* The clients C receive a diff. *)
Answer(C, A, D) ==
  /\ poll' = [c \in Clients |-> IF c \in C THEN "idle" ELSE poll[c]]
  /\ told' = [c \in Clients |-> IF c \in C THEN (told[c] \cup A) \ D ELSE told[c]]
  /\ streams' = [c \in Clients |-> IF c \in C THEN streams[c] \cup A ELSE streams[c]]

(* Mutant: a diff that only stops traces is not passed on. *)
HandleChangedStartsOnly ==
  /\ Receives("changed")
  /\ LET s == Head(queue).svc
         A == Head(queue).act
         D == Head(queue).deact
         started == Activate(A)
         left == Deactivate(started, D)
         C == IF A = {} THEN {} ELSE Responders(s)
     IN /\ info' = AddClients(left, C, A)
        /\ chans' = CloseForgotten(started, left, OpenChannels(A))
        /\ Answer(C, A, D)
        /\ main' = [pc |-> "sending", svc |-> s, client |-> NoClient]
  /\ UNCHANGED <<away, registered, polling, req, unreg, finished, acts, restarts>>

(* changedActiveTracesEvent.handle, up to its last send. *)
HandleChanged ==
  /\ Receives("changed")
  /\ LET s == Head(queue).svc
         A == Head(queue).act
         D == Head(queue).deact
         started == Activate(A)
         left == Deactivate(started, D)
     IN /\ info' = AddClients(left, Responders(s), A)
        /\ chans' = CloseForgotten(started, left, OpenChannels(A))
        /\ Answer(Responders(s), A, D)
        /\ main' = [pc |-> "sending", svc |-> s, client |-> NoClient]
  /\ UNCHANGED <<away, registered, polling, req, unreg, finished, acts, restarts>>

(* Mutant: the traces the client should stop are left out of the diff. *)
FinishRegistrationNoStop(c) ==
  LET A == Active(info, ServiceOf[c]) \ told[c]
  IN IF A # {}
     THEN /\ Answer({c}, A, {})
          /\ info' = AddClients(info, {c}, A)
     ELSE /\ poll' = [poll EXCEPT ![c] = "waiting"]
          /\ UNCHANGED <<info, told, streams>>

(* registrationRequest.handle after ensureServiceRegistered: answers at    *)
(* once when the client's traces differ from the active ones               *)
(* (getActiveTraceDiff), else keeps the response channel.                  *)
FinishRegistration(c) ==
  LET now == Active(info, ServiceOf[c])
  IN IF now # told[c]
     THEN /\ Answer({c}, now \ told[c], told[c] \ now)
          /\ info' = AddClients(info, {c}, now \ told[c])
     ELSE /\ poll' = [poll EXCEPT ![c] = "waiting"]
          /\ UNCHANGED <<info, told, streams>>

HandleRegistration ==
  /\ Receives("register")
  /\ LET c == Head(queue).client
     IN /\ ServiceOf[c] \in registered
        /\ FinishRegistration(c)
  /\ UNCHANGED <<main, away, registered, chans, polling, req, unreg, finished, acts, restarts>>

(* Mutant: every registration schedules a long poll. *)
HandleFirstRegistrationAlways ==
  /\ Receives("register")
  /\ LET c == Head(queue).client
     IN /\ registered' = registered \cup {ServiceOf[c]}
        /\ main' = [pc |-> "sending", svc |-> ServiceOf[c], client |-> c]
  /\ UNCHANGED <<info, chans, away, polling, clientVars, unreg, acts, restarts>>

(* ensureServiceRegistered on a new service: the main goroutine is about   *)
(* to send a longPoll event to itself.                                     *)
HandleFirstRegistration ==
  /\ Receives("register")
  /\ LET c == Head(queue).client
     IN /\ ServiceOf[c] \notin registered
        /\ registered' = registered \cup {ServiceOf[c]}
        /\ main' = [pc |-> "sending", svc |-> ServiceOf[c], client |-> c]
  /\ UNCHANGED <<info, chans, away, polling, clientVars, unreg, acts, restarts>>

(* The send of the main goroutine on its own channel goes through, and the *)
(* handler ends.  Nobody else receives, so on a full channel it never does.*)
MainSends ==
  /\ main.pc = "sending"
  /\ Send(LongPoll(main.svc))
  /\ IF main.client = NoClient THEN UNCHANGED <<info, poll, told, streams>>
     ELSE FinishRegistration(main.client)
  /\ main' = Idle
  /\ UNCHANGED <<away, registered, chans, polling, req, unreg, finished, acts, restarts>>

(* traceEventRequest.handle: rejected when the trace is not known, else    *)
(* the client is registered and an upload goroutine starts.                *)
HandleEvents ==
  /\ Receives("events")
  /\ LET r == Head(queue).req
         c == req[r].client
         t == req[r].trace
     IN IF info[t].known
        THEN /\ info' = [info EXCEPT ![t].clients = @ \cup {c}]
             /\ req' = [req EXCEPT ![r].pc = "uploading", ![r].chan = Len(chans[t])]
        ELSE /\ req' = [req EXCEPT ![r] = NoReq]
             /\ info' = info
  /\ UNCHANGED <<main, away, registered, chans, polling, poll, unreg, told, streams, finished,
                 acts, restarts>>

(* unregisterClientFromTrace.handle *)
HandleUnregister ==
  /\ Receives("unregister")
  /\ LET c == Head(queue).client
         t == Head(queue).trace
     IN info' = IF info[t].known
                THEN [info EXCEPT ![t] = UnregisterTrace([info[t] EXCEPT !.clients = @ \ {c}])]
                ELSE info
  /\ chans' = CloseForgotten(info, info', chans)
  /\ UNCHANGED <<main, away, registered, polling, clientVars, unreg, acts, restarts>>

-----------------------------------------------------------------------------
(* The process dies and is started again; what it held in memory is gone   *)
(* and the requests in flight fail.                                        *)
ProcessRestarts ==
  /\ restarts < MaxRestarts
  /\ restarts' = restarts + 1
  /\ Fresh(queue', main', away', registered', info', chans', polling', unreg')
  /\ poll' = [c \in Clients |-> "idle"]
  /\ req' = [r \in Requests |-> NoReq]
  /\ UNCHANGED <<told, streams, finished, acts>>

SendsOnClosed(r) == req[r].pc = "uploading" /\ req[r].n > 0 /\ Channel(r).closed

(* uploadTraceEvents sends on a closed channel: the Go runtime panics. *)
UploadPanics(r) == SendsOnClosed(r) /\ ProcessRestarts

Incarnations(t) == 1..Len(chans[t])

Main ==
  \/ HandleHeartbeat \/ HandleLongPoll \/ HandleChanged \/ HandleRegistration
  \/ HandleFirstRegistration \/ MainSends \/ HandleEvents \/ HandleUnregister

Next ==
  \/ Main
  \/ \E c \in Clients : ClientPolls(c) \/ \E t \in Traces : SendUnregister(c, t)
  \/ \E r \in Requests : ClientSends(r) \/ UploadEvent(r) \/ UploadReplies(r) \/ UploadPanics(r)
  \/ HeartbeatReturns
  \/ \E s \in Services : CloudAnswers(s) \/ CloudFails(s)
  \/ \E t \in Traces : \E g \in Incarnations(t) : CollectTraces(t, g)
  \/ ProcessRestarts

Spec == Init /\ [][Next]_vars

(* Goroutines run.  Senders on a channel with room get through: Go queues  *)
(* blocked senders in order, so each that keeps waiting gets its turn.     *)
(* Nothing is assumed of clients, nor of calls to the cloud: their context *)
(* is not attached to the HTTP request, so a long poll or a heartbeat may  *)
(* last for ever.                                                          *)
Fairness ==
  /\ WF_vars(Main)
  /\ \A r \in Requests : WF_vars(UploadEvent(r)) /\ WF_vars(UploadReplies(r))
  /\ \A c \in Clients, t \in Traces : SF_vars(SendUnregister(c, t))
  /\ \A t \in Traces : \A g \in 1..MaxActivations :
       WF_vars(g \in Incarnations(t) /\ CollectTraces(t, g))

FairSpec == Spec /\ Fairness

-----------------------------------------------------------------------------
(* Type correctness: both channels stay within their capacity. *)
TypeOK ==
  /\ queue \in Seq(Event) /\ Len(queue) <= Capacity
  /\ main \in [pc : {"idle", "sending"}, svc : Services, client : Clients \cup {NoClient}]
  /\ away \in BOOLEAN
  /\ registered \in SUBSET Services /\ polling \in SUBSET Services
  /\ info \in [Traces -> [known : BOOLEAN, active : BOOLEAN, clients : SUBSET Clients]]
  /\ chans \in [Traces -> Seq([buf : 0..TraceBuffer, closed : BOOLEAN, done : BOOLEAN])]
  /\ poll \in [Clients -> {"idle", "queued", "waiting"}]
  /\ req \in [Requests -> [pc : {"idle", "queued", "uploading"}, client : Clients, trace : Traces,
                           n : 0..MaxEvents, last : BOOLEAN, chan : Nat]]
  /\ unreg \in [Clients -> [Traces -> Nat]]
  /\ told \in [Clients -> SUBSET Traces] /\ streams \in [Clients -> SUBSET Traces]
  /\ finished \in [Clients -> SUBSET Traces]
  /\ acts \in [Traces -> 0..MaxActivations] /\ restarts \in 0..MaxRestarts

InQueue(type, s) == Cardinality({i \in 1..Len(queue) : queue[i].type = type /\ queue[i].svc = s})

(* Every registered service is polled by exactly one long poll at a time:  *)
(* it is about to be sent, queued, at the cloud, or answered.  The handler *)
(* of each answer "is responsible for resuming long-polling"; a lost one   *)
(* would end the service's updates, a second would double them forever.    *)
OnePollerPerService ==
  \A s \in Services :
    InQueue("longPoll", s) + InQueue("changed", s)
      + (IF s \in polling THEN 1 ELSE 0)
      + (IF main.pc = "sending" /\ main.svc = s THEN 1 ELSE 0)
    = (IF s \in registered THEN 1 ELSE 0)

(* A client parked in responseChannels knows exactly the active traces:    *)
(* any difference must have been answered at once (registrationRequest) or *)
(* by the change that caused it (changedActiveTracesEvent).                *)
ParkedClientIsCurrent ==
  \A c \in Clients : poll[c] = "waiting" => told[c] = Active(info, ServiceOf[c])

(* serviceInfo.traces "contains an entry for each trace ID that is active  *)
(* or for which we are collecting events": an inactive trace is kept only  *)
(* while a client is registered with it, and its channel is open exactly   *)
(* while it is known.                                                      *)
OnlyUsefulTraces ==
  \A t \in Traces :
    /\ info[t].known /\ ~ info[t].active => info[t].clients # {}
    /\ info[t].known => ServiceOf[t] \in registered
    /\ \A g \in Incarnations(t) : chans[t][g].closed = ~ (info[t].known /\ g = Len(chans[t]))

(* In Go a send on a closed channel panics and ends the daemon.  A client  *)
(* stays in clientNames until an unregister event, so that unregisterTrace *)
(* closes a channel under one of its uploads only after a request of that  *)
(* client has said no_more_events for the trace.  That request may overtake*)
(* others of the client, and a trace may be activated again, so the panic  *)
(* itself (UploadPanics) is possible.                                      *)
ClosedOnlyBehindTheLast ==
  \A r \in Requests :
    req[r].pc = "uploading" /\ Channel(r).closed => req[r].trace \in finished[req[r].client]

(* An answer brings the client up to date: applied to the traces it knew   *)
(* it gives the active ones, however the diff was found.                   *)
AnswerIsCurrent ==
  [][\A c \in Clients :
       poll[c] # "idle" /\ poll'[c] = "idle" /\ restarts' = restarts
         => told'[c] = Active(info', ServiceOf[c])]_vars

(* The main goroutine waits for room in the channel that only it empties:  *)
(* the daemon serves nobody any more.                                      *)
Stuck == main.pc = "sending" /\ Len(queue) = Capacity

(* Every trace-event request is answered, unless the main goroutine is     *)
(* stuck or the upload ends the daemon with a send on a closed channel.    *)
EventsAnswered ==
  \A r \in Requests : req[r].pc # "idle" ~> (req[r].pc = "idle" \/ Stuck \/ SendsOnClosed(r))

(* A change found by the long poll reaches every client then parked, if    *)
(* the main goroutine does not get stuck first.                            *)
ChangeReachesClients ==
  \A c \in Clients :
    poll[c] = "waiting" /\ InQueue("changed", ServiceOf[c]) > 0 ~> (poll[c] = "idle" \/ Stuck)

(* A collector whose trace is unregistered uploads what it has and closes. *)
CollectorFinishes ==
  \A t \in Traces, g \in 1..MaxActivations :
    (g \in Incarnations(t) /\ chans[t][g].closed)
      ~> (g \in Incarnations(t) => chans[t][g].done)

(* "The handler for this event is responsible for resuming long polling    *)
(* for further changes": it gets to it.  It does not when other senders    *)
(* fill eventChannel while it runs, for only the main goroutine receives.  *)
LongPollingResumes == main.pc = "sending" ~> main.pc = "idle"

(* The main goroutine's tables fit the other goroutines: the traces kept   *)
(* are the useful ones, their channels are open, and no channel is closed  *)
(* under a client that has yet to end its stream (unregisterTrace).        *)
TableInv == TypeOK /\ OnlyUsefulTraces /\ ClosedOnlyBehindTheLast

=============================================================================
