---------------------------- MODULE CollectorLife ---------------------------
(***************************************************************************)
(* What apidump.Run can rely on when it calls pcap.Collect in a goroutine  *)
(* and waits for it: the call ends with or without an error, without one   *)
(* only when every packet that was read has been settled (processed, or    *)
(* given up as unusable or after a panic); once stop is closed it does     *)
(* end.  The capture handle is released when Collect ends without an error *)
(* and when the interface could not be opened; a Collect that gives up     *)
(* while capturing promises nothing of the handle, and packets may be read *)
(* behind its back.  ApiDump takes a collector to be this; Capture, with   *)
(* its goroutines and channels, implements it.                             *)
(***************************************************************************)
EXTENDS Naturals

CONSTANT Packets

VARIABLES
  phase,   \* Collect: running, done or failed
  stop,    \* stop is closed
  owed,    \* packets read and not yet settled
  handle   \* the capture handle is not yet released

vars == <<phase, stop, owed, handle>>

Init == phase = "running" /\ stop = FALSE /\ owed = {} /\ handle = TRUE

Stop == ~ stop /\ stop' = TRUE /\ UNCHANGED <<phase, owed, handle>>

(* After Abandon the goroutines behind Collect may go on for a while. *)
Read(p) == phase # "done" /\ handle /\ owed' = owed \cup {p} /\ UNCHANGED <<phase, stop, handle>>

Settle == phase # "done" /\ owed' \in SUBSET owed /\ UNCHANGED <<phase, stop, handle>>

Return == phase = "running" /\ owed = {} /\ phase' = "done" /\ UNCHANGED <<stop, owed, handle>>

(* The interface could not be opened. *)
CannotOpen ==
  /\ phase = "running" /\ phase' = "failed"
  /\ owed = {} /\ handle' = FALSE
  /\ UNCHANGED <<stop, owed>>

(* The collector behind Collect failed on what it was given last. *)
Abandon ==
  /\ phase = "running" /\ phase' = "failed"
  /\ owed' \in SUBSET owed
  /\ UNCHANGED <<stop, handle>>

Release == handle /\ handle' = FALSE /\ UNCHANGED <<phase, stop, owed>>

Next == Stop \/ Settle \/ Return \/ CannotOpen \/ Abandon \/ Release \/ \E p \in Packets : Read(p)

Spec == Init /\ [][Next]_vars

FairSpec ==
  /\ Spec
  /\ WF_vars(stop /\ (Return \/ CannotOpen \/ Abandon))
  /\ WF_vars(stop /\ phase # "failed" /\ Release)
=============================================================================
