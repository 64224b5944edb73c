------------------------- MODULE IngestionRefinement -------------------------
(***************************************************************************)
(* Ingestion implements StreamContract, for every set of runs, events and  *)
(* sockets: initial states map to initial states, and each kind of step    *)
(* (IngestionSafety) maps to a step of the contract or to a stutter.       *)
(***************************************************************************)
EXTENDS IngestionSafety

\* The state of the contract.
Origin       == [e \in Event |-> events[e].run]
DeliveriesOf == [r \in Run |-> AttemptsOf(r)]
WithEffect   == Stored \ Unprocessed

\* The events the contract calls taken are the canonical rows.
LEMMA TakenIsStored ==
  ASSUME TypeOK
  PROVE  Contract!Taken = Stored
<1>1. ASSUME NEW e \in Event
      PROVE  events[e].run # NoRun <=> e \in Stored
  <2>1. CASE e \in Stored
    BY <2>1, StoredRows, NullAssumption DEF Rows
  <2>2. CASE e \notin Stored
    BY <2>2 DEF Stored, Persisted, NoRow
  <2> QED
    BY <2>1, <2>2
<1> QED
  BY <1>1 DEF Contract!Taken, Stored

\* Only stored events are acknowledged to a source.
LEMMA AcknowledgedIsStored ==
  ASSUME RepliesAreDurable
  PROVE  Acknowledged \subseteq Stored
BY DEF RepliesAreDurable, Durable, Acknowledged

\* An empty database is the contract's initial state.
LEMMA InitMaps == Init => Contract!Init
<1> SUFFICES ASSUME Init PROVE Contract!Init
  OBVIOUS
<1>1. Stored = {} /\ Positions = {} /\ sent = {}
  BY DEF Init, Stored, Persisted, Positions
<1>2. \A e \in Event : events[e].run = NoRun
  BY DEF Init, NoRow
<1> QED
  BY <1>1, <1>2 DEF Init, Contract!Init, AttemptsOf, Acknowledged

\* Runs are opened and completed by steps that do nothing else.
LEMMA RunSteps ==
  ASSUME BaseInv, [Next]_vars, runs' # runs
  PROVE  \E r \in Run : Contract!Open(r) \/ Contract!Close(r)
<1>1. ASSUME NEW c \in Conn, Handler(c)
      PROVE  runs' = runs
  BY <1>1 DEF Handler, OpenSocket, AcceptSocket, AbortHandshake, CloseSocket, EndHandler,
     Ingest, RecordRejected, RecordConflicted, PersistDuplicate, PersistAccepted,
     RefuseDelivery, IngestFails, SendReply, ReplyFails, MarkReplySent, MarkFails,
     ProcessEvent, ProcessFails, BroadcastEnds, database
<1>2. ASSUME NEW e \in Event, Recovery(e)
      PROVE  runs' = runs
  BY <1>2 DEF Recovery, RecoverEvent, RecoverFails
<1>3. PICK r \in Run :
        CreateRun(r) \/ \E acked \in 0 .. Cardinality(Manifest[r]) : CompleteRun(r, acked)
  BY <1>1, <1>2 DEF Next, Crash, Start, Serve, vars, database
<1>4. UNCHANGED <<attempts, events, sent>>
  BY <1>3 DEF CreateRun, CompleteRun
<1>5. UNCHANGED <<Origin, DeliveriesOf, Acknowledged, WithEffect>>
  BY <1>4 DEF Origin, DeliveriesOf, AttemptsOf, Positions, Acknowledged, WithEffect, Stored,
     Unprocessed, Persisted
<1>6. CASE CreateRun(r)
  BY <1>5, <1>6 DEF CreateRun, Contract!Open, Origin, DeliveriesOf, WithEffect
<1>7. CASE \E acked \in 0 .. Cardinality(Manifest[r]) : CompleteRun(r, acked)
  BY <1>5, <1>7 DEF CompleteRun, Contract!Close, Origin, DeliveriesOf, WithEffect
<1> QED
  BY <1>3, <1>6, <1>7

\* A step that stores nothing may acknowledge events.
LEMMA QuietMaps ==
  ASSUME SafetyInv, SafetyInv', [Next]_vars, Quiet, runs' = runs
  PROVE  Contract!Acknowledge
<1>1. UNCHANGED <<Origin, DeliveriesOf, WithEffect>>
  BY DEF Quiet, Origin, DeliveriesOf, AttemptsOf, Positions, WithEffect, Stored, Unprocessed,
     Persisted
<1>2. Stored' = Stored
  BY DEF Quiet, Stored, Persisted
<1>3. Acknowledged \subseteq Acknowledged'
  BY SentRepliesAreTrue DEF Acknowledged, SafetyInv
<1>4. Acknowledged' \subseteq Stored'
  BY DEF RepliesAreDurable, Durable, Acknowledged, SafetyInv
<1>5. Contract!Taken = Stored
  BY TakenIsStored DEF SafetyInv, BaseInv
<1> QED
  BY <1>1, <1>2, <1>3, <1>4, <1>5 DEF Contract!Acknowledge, Origin, DeliveriesOf, WithEffect

\* A stored attempt is a delivery of the contract under a new identity.
LEMMA DeliveryMaps ==
  ASSUME BaseInv, NEW c \in Conn, NEW r \in Run, r = bound[c], Audited(c), [Next]_vars,
         \/ UNCHANGED events
         \/ \E e \in Event : Accepted(c, e)
  PROVE  Contract!Deliver(r)
<1> DEFINE new == Len(attempts) + 1
<1>1. TypeOK
  BY DEF BaseInv
<1>2. r \in Run /\ runs[r] = "running"
  BY DEF Audited, AcceptingDeliveries
<1>3. new \in 1 .. MaxAttempts
  BY <1>1, BoundAssumption DEF Audited, TypeOK
<1>4. \A i \in Positions : attempts'[i].run = attempts[i].run
  BY DEF Audited
<1>5. \A s \in Run : new \notin AttemptsOf(s)
  BY DEF Audited, AttemptsOf
<1>6. \A s \in Run : AttemptsOf(s)' = IF s = r THEN AttemptsOf(s) \cup {new} ELSE AttemptsOf(s)
  BY <1>4 DEF Audited, AttemptsOf
<1>7. DeliveriesOf' = [DeliveriesOf EXCEPT ![r] = @ \cup {new}]
  BY <1>2, <1>6 DEF DeliveriesOf
<1>8. Contract!Record(r)
  <2> HIDE DEF new
  <2>1. \A s \in Run : new \notin DeliveriesOf[s]
    BY <1>5 DEF DeliveriesOf
  <2> QED
    BY <1>3, <1>7, <2>1 DEF Contract!Record, DeliveriesOf
<1>9. /\ Acknowledged' = Acknowledged
      /\ WithEffect' = WithEffect
      /\ \/ UNCHANGED Origin
         \/ \E e \in Event \ Contract!Taken : Origin' = [Origin EXCEPT ![e] = r]
  <2>1. Acknowledged' = Acknowledged
    BY DEF Audited, Acknowledged
  <2>2. CASE UNCHANGED events
    BY <2>1, <2>2 DEF Origin, WithEffect, Stored, Unprocessed, Persisted
  <2>3. CASE \E e \in Event : Accepted(c, e)
    <3>1. PICK e \in Event : Accepted(c, e)
      BY <2>3
    <3>2. e \in Event \ Contract!Taken
      BY <1>1, <3>1, TakenIsStored DEF Accepted
    <3>3. \A d \in Event : events'[d].run = IF d = e THEN r ELSE events[d].run
      BY <3>1 DEF Accepted
    <3>4. Origin' = [Origin EXCEPT ![e] = r]
      BY <3>3 DEF Origin
    <3>5. WithEffect' = WithEffect
      <4>1. /\ Stored' = Stored \cup {e} /\ e \notin Stored /\ ~events'[e].processed
            /\ \A d \in Stored : events'[d] = events[d]
        BY <3>1 DEF Accepted, Stored
      <4> QED
        BY <4>1 DEF WithEffect, Unprocessed
    <3> QED
      BY <2>1, <3>2, <3>4, <3>5
  <2> QED
    BY <2>2, <2>3
<1>10. UNCHANGED runs
  BY DEF Audited
<1> QED
  BY <1>2, <1>8, <1>9, <1>10 DEF Contract!Deliver, Origin, WithEffect

\* Marks are invisible to the contract.
LEMMA MarkMaps ==
  ASSUME BaseInv, NEW rep \in sent, Marked(rep)
  PROVE  UNCHANGED Contract!vars
<1>1. TypeOK
  BY DEF BaseInv
<1>2. \A i \in Positions : attempts'[i].run = attempts[i].run
  <2> SUFFICES ASSUME NEW i \in Positions PROVE attempts'[i].run = attempts[i].run
    OBVIOUS
  <2>1. attempts[i] \in Attempts
    BY <1>1, AttemptRows
  <2> QED
    BY <2>1 DEF Marked, Attempts
<1>3. ASSUME NEW e \in Stored
      PROVE  events'[e].run = events[e].run /\ events'[e].processed = events[e].processed
  BY <1>1, FlagsOfRows DEF Marked
<1>4. Stored' = Stored /\ Positions' = Positions /\ UNCHANGED <<runs, sent>>
  BY DEF Marked
<1>5. \A e \in Event : events'[e].run = events[e].run
  BY <1>3, <1>4 DEF Stored, Persisted
<1>6. Origin' = Origin /\ WithEffect' = WithEffect
  BY <1>3, <1>4, <1>5 DEF Origin, WithEffect, Unprocessed
<1>7. DeliveriesOf' = DeliveriesOf
  BY <1>2, <1>4 DEF DeliveriesOf, AttemptsOf
<1>8. Acknowledged' = Acknowledged
  BY <1>4 DEF Acknowledged
<1> QED
  BY <1>4, <1>6, <1>7, <1>8 DEF Contract!vars, Origin, WithEffect, DeliveriesOf

\* The first effect of a row is the contract's effect of a taken event.
LEMMA EffectMaps ==
  ASSUME BaseInv, NEW e \in Event, Effected(e)
  PROVE  Contract!Effect(e)
<1>1. TypeOK /\ e \in Stored /\ ~events[e].processed
  BY DEF BaseInv, Effected, Unprocessed
<1>2. ASSUME NEW d \in Stored
      PROVE  /\ events'[d].run = events[d].run
             /\ events'[d].processed <=> (d = e \/ events[d].processed)
  <2>1. events[d] \in Rows
    BY <1>1, FlagsOfRows
  <2> QED
    BY <2>1 DEF Effected, Rows
<1>3. Stored' = Stored /\ UNCHANGED <<runs, attempts, sent>>
  BY DEF Effected
<1>4. \A d \in Event : events'[d].run = events[d].run
  BY <1>2, <1>3 DEF Stored, Persisted
<1>5. WithEffect' = WithEffect \cup {e}
  BY <1>1, <1>2, <1>3 DEF WithEffect, Unprocessed
<1>6. UNCHANGED <<Origin, DeliveriesOf, Acknowledged>>
  BY <1>3, <1>4 DEF Origin, DeliveriesOf, AttemptsOf, Positions, Acknowledged
<1>7. e \in Contract!Taken /\ e \notin WithEffect
  BY <1>1, TakenIsStored DEF WithEffect, Unprocessed
<1> QED
  BY <1>3, <1>5, <1>6, <1>7 DEF Contract!Effect, WithEffect, Origin, DeliveriesOf

\* Every step is a step of the contract or invisible to it.
LEMMA StepMaps == SafetyInv /\ SafetyInv' /\ [Next]_vars => [Contract!Next]_(Contract!vars)
<1> SUFFICES ASSUME SafetyInv, SafetyInv', [Next]_vars
             PROVE  Contract!Next \/ UNCHANGED Contract!vars
  OBVIOUS
<1>1. BaseInv
  BY DEF SafetyInv
<1>2. CASE runs' # runs
  BY <1>1, <1>2, RunSteps DEF Contract!Next
<1>3. CASE Quiet /\ runs' = runs
  BY <1>3, QuietMaps DEF Contract!Next
<1>4. ASSUME NEW c \in Conn, Unaccepted(c) \/ \E e \in Event : Accepted(c, e)
      PROVE  Contract!Next
  <2>1. Audited(c) /\ bound[c] \in Run
    BY <1>4 DEF Unaccepted, Accepted, Audited
  <2>2. PICK r \in Run : r = bound[c]
    BY <2>1
  <2>3. Contract!Deliver(r)
    BY <1>1, <1>4, <2>1, <2>2, DeliveryMaps DEF Unaccepted
  <2> QED
    BY <2>3 DEF Contract!Next
<1>5. CASE \E rep \in sent : Marked(rep)
  BY <1>1, <1>5, MarkMaps
<1>6. CASE \E e \in Event : Effected(e)
  BY <1>1, <1>6, EffectMaps DEF Contract!Next
<1> QED
  BY <1>1, <1>2, <1>3, <1>4, <1>5, <1>6, StepKinds

\* The API keeps its contract with both sides of a stream: whatever the interleaving,
\* the crashes and the failing transactions, its tables and replies change as
\* StreamContract allows.
THEOREM ContractIsKept == Spec => ImplementsContract
BY InitMaps, StepMaps, SafetyInvariant, PTL DEF Spec, ImplementsContract, Contract!Spec

=============================================================================
