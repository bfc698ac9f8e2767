--------------------------- MODULE ServiceLookup ---------------------------
(***************************************************************************)
(* util.GetOrCreateServiceIDByPostmanCollectionID: an agent that is given  *)
(* a Postman collection finds the project it is mapped to, or creates one, *)
(* while other agents do the same.                                         *)
(*                                                                         *)
(* Requests go through rest's retrying client: a request whose answer is   *)
(* lost is sent again, up to MaxRetries times, although the cloud may have *)
(* carried it out.  One whose answer never comes is waited for: there is   *)
(* no timeout.  The cloud maps a collection to at most one project.        *)
(***************************************************************************)
EXTENDS Integers

CONSTANT MaxRetries   \* RetryMax

ASSUME LookupAssumption == MaxRetries \in Nat

VARIABLES
  mapped,    \* the cloud: none, or who created the collection's project
  lookup,    \* the agent: pc, retries of the request, service found
  trouble    \* history: a request of the agent failed or was forbidden

lookupVars == <<mapped, lookup, trouble>>

LookupInit ==
  /\ mapped \in {"none", "others"}
  /\ lookup = [pc |-> "off", retries |-> 0, service |-> "none"]
  /\ trouble = FALSE

Goto(pc) == lookup' = [lookup EXCEPT !.pc = pc, !.retries = 0]

Found(id) == lookup' = [pc |-> "found", retries |-> 0, service |-> id]

(* Another agent creates the project. *)
OthersCreate ==
  /\ mapped = "none"
  /\ mapped' = "others"
  /\ UNCHANGED <<lookup, trouble>>

BeginLookup ==
  /\ lookup.pc = "off"
  /\ Goto("list")
  /\ UNCHANGED <<mapped, trouble>>

(* The request failed for good. *)
GiveUp == Goto("failed") /\ trouble' = TRUE

(* The connection broke, or the answer was a server error: another try. *)
Retry ==
  /\ lookup.retries < MaxRetries
  /\ lookup' = [lookup EXCEPT !.retries = @ + 1]
  /\ UNCHANGED trouble

(* No answer at all. *)
NoAnswer == Goto("hung") /\ UNCHANGED trouble

(* GetServiceIDByPostmanCollectionID, the first time. *)
ListServices ==
  /\ lookup.pc = "list"
  /\ \/ /\ IF mapped = "none" THEN Goto("create") ELSE Found(mapped)
        /\ UNCHANGED trouble
     \/ Retry \/ GiveUp \/ NoAnswer
  /\ UNCHANGED mapped

(* Mutant: a conflict is treated like any other error. *)
CreateServiceNoConflict ==
  /\ lookup.pc = "create"
  /\ \/ /\ mapped = "none" /\ mapped' = "mine"
        /\ \/ Found("mine") /\ UNCHANGED trouble
           \/ Retry \/ GiveUp \/ NoAnswer
     \/ /\ mapped # "none" /\ Goto("failed")
        /\ UNCHANGED <<mapped, trouble>>
     \/ /\ Retry \/ GiveUp \/ NoAnswer
        /\ UNCHANGED mapped

(* CreateService: created, and the answer arrives, is lost, is lost for    *)
(* good or never comes; a conflict, because the collection has been mapped *)
(* since; or never carried out.                                            *)
CreateService ==
  /\ lookup.pc = "create"
  /\ \/ /\ mapped = "none" /\ mapped' = "mine"
        /\ \/ Found("mine") /\ UNCHANGED trouble
           \/ Retry \/ GiveUp \/ NoAnswer
     \/ /\ mapped # "none" /\ Goto("relist")
        /\ UNCHANGED <<mapped, trouble>>
     \/ /\ Retry \/ GiveUp \/ NoAnswer
        /\ UNCHANGED mapped

(* collection_already_mapped: the list again. *)
ListAgain ==
  /\ lookup.pc = "relist"
  /\ \/ /\ IF mapped = "none" THEN Goto("failed") ELSE Found(mapped)
        /\ UNCHANGED trouble
     \/ Retry \/ GiveUp \/ NoAnswer
  /\ UNCHANGED mapped

LookupStep == ListServices \/ CreateService \/ ListAgain

-----------------------------------------------------------------------------
(* Properties *)

(* The service an agent works with is the one the cloud maps the           *)
(* collection to, however the creations of several agents and the retries  *)
(* of their requests interleave; and without a failed request the agent    *)
(* gets one, so that a lost race is no error                               *)
(* (GetOrCreateServiceIDByPostmanCollectionID).                            *)
LookupInv ==
  /\ lookup.pc = "found" => lookup.service = mapped
  /\ lookup.pc = "failed" => trouble
=============================================================================
