--------------------------- MODULE StreamContract ---------------------------
(***************************************************************************)
(* What the API promises the two sides of a stream, without saying how:    *)
(* a source is only told of events that are stored, every delivery to an   *)
(* open run is audited under that run, a closed run takes no more of       *)
(* either, and an event has its effect once, for certain if the source was *)
(* told of it.                                                             *)
(***************************************************************************)
CONSTANTS Run, Event, NoRun,
          Delivery      \* the identities deliveries are audited under

VARIABLES phase,        \* where each run is in its life
          origin,       \* the run that took each event, or NoRun
          audited,      \* the identities of the deliveries each run has audited
          acknowledged, \* events a source may have been told of
          effected      \* events whose effect exists

vars == <<phase, origin, audited, acknowledged, effected>>

Taken == {e \in Event : origin[e] # NoRun}

Init ==
  /\ phase = [r \in Run |-> "absent"]
  /\ origin = [e \in Event |-> NoRun]
  /\ audited = [r \in Run |-> {}]
  /\ acknowledged = {}
  /\ effected = {}

Open(r) ==
  /\ phase[r] = "absent"
  /\ phase' = [phase EXCEPT ![r] = "running"]
  /\ UNCHANGED <<origin, audited, acknowledged, effected>>

Close(r) ==
  /\ phase[r] = "running"
  /\ phase' = [phase EXCEPT ![r] = "completed"]
  /\ UNCHANGED <<origin, audited, acknowledged, effected>>

\* A delivery has an identity no other delivery of any run has.
Record(r) ==
  \E i \in Delivery :
     /\ \A s \in Run : i \notin audited[s]
     /\ audited' = [audited EXCEPT ![r] = @ \cup {i}]

Deliver(r) ==
  /\ phase[r] = "running"
  /\ Record(r)
  /\ \/ UNCHANGED origin
     \/ \E e \in Event \ Taken : origin' = [origin EXCEPT ![e] = r]
  /\ UNCHANGED <<phase, acknowledged, effected>>

\* Several replies can leave at once: a crash may cut off any number of them.
Acknowledge ==
  /\ acknowledged' \in SUBSET Taken
  /\ acknowledged \subseteq acknowledged'
  /\ UNCHANGED <<phase, origin, audited, effected>>

Effect(e) ==
  /\ e \in Taken \ effected
  /\ effected' = effected \cup {e}
  /\ UNCHANGED <<phase, origin, audited, acknowledged>>

Next ==
  \/ \E r \in Run : Open(r) \/ Close(r) \/ Deliver(r)
  \/ Acknowledge
  \/ \E e \in Event : Effect(e)

Spec == Init /\ [][Next]_vars

\* Only an acknowledged event is owed its effect.
FairSpec == Spec /\ \A e \in Event : WF_vars(e \in acknowledged /\ Effect(e))

=============================================================================
