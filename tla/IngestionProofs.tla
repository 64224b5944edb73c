--------------------------- MODULE IngestionProofs ---------------------------
(***************************************************************************)
(* Theorems about Ingestion, for every set of runs, events and sockets.    *)
(***************************************************************************)
EXTENDS Ingestion, FiniteSetTheorems, WellFoundedInduction, TLAPS

\* A handler past its status check is bound to a run that exists, and only a socket
\* that was opened has left attempts.
Binding ==
  /\ \A c \in Conn : pc[c] \notin {"idle", "closed"} =>
       bound[c] \in Run /\ runs[bound[c]] # "absent"
  /\ \A i \in Positions : pc[attempts[i].conn] # "idle"

\* No handler outlives the process, and recovery works on stored events.
Phases ==
  /\ server # "up" => \A c \in Conn : pc[c] \in {"idle", "closed"}
  /\ backlog \subseteq Stored

\* A reply is true from the moment it is prepared until its handler is done with it.
PendingReplies ==
  \A c \in Conn :
    /\ pc[c] \in {"replying", "marking", "processing"} => Durable(reply[c])
    /\ pc[c] \in {"marking", "processing"} => reply[c] \in sent
    /\ pc[c] = "processing" => MayProcess(reply[c].status)

\* What the type invariant needs to be inductive.
BaseInv ==
  /\ TypeOK
  /\ Binding
  /\ Phases
  /\ PendingReplies
  /\ CanonicalFromManifest

-----------------------------------------------------------------------------
(* Arithmetic of the arrival evidence *)

\* A bounded, non-empty set of naturals has a greatest element, and Max is it.
LEMMA MaxOfBounded ==
  ASSUME NEW S \in SUBSET Nat, S # {}, NEW n \in Nat, \A s \in S : s <= n
  PROVE  Max(S) \in S /\ \A s \in S : s <= Max(S)
<1> DEFINE Slack == {n - s : s \in S}
<1> DEFINE Less == OpToRel(<, Nat)
<1>1. IsWellFoundedOn(Less, Nat)
  BY NatLessThanWellFounded
<1>2. Slack \subseteq Nat /\ Slack # {}
  OBVIOUS
<1>3. PICK x \in Slack : \A y \in Slack : ~ (<<y, x>> \in Less)
  <2> HIDE DEF Slack, Less
  <2> QED BY <1>1, <1>2, WFMin
<1>4. ASSUME NEW y \in Slack
      PROVE  x <= y
  <2>1. x \in Nat /\ y \in Nat
    BY <1>2
  <2>2. y < x => <<y, x>> \in Less
    BY <2>1 DEF OpToRel
  <2>3. <<y, x>> \notin Less
    BY <1>3
  <2> HIDE DEF Slack, Less
  <2> QED BY <2>1, <2>2, <2>3
<1>5. PICK t \in S : x = n - t
  BY DEF Slack
<1>6. ASSUME NEW s \in S
      PROVE  s <= t
  <2>1. n - t <= n - s
    BY <1>4, <1>5
  <2> QED BY <2>1
<1>7. \E m \in S : \A s \in S : m >= s
  BY <1>6
<1> QED
  BY <1>7 DEF Max

\* Every table is finite.
LEMMA FiniteTables ==
  /\ IsFiniteSet(Stored) /\ Cardinality(Stored) \in Nat
  /\ \A r : IsFiniteSet(EventsOf(r)) /\ Cardinality(EventsOf(r)) \in Nat
  /\ \A r \in Run : IsFiniteSet(Manifest[r]) /\ Cardinality(Manifest[r]) \in Nat
<1>1. ASSUME NEW S \in SUBSET Event
      PROVE  IsFiniteSet(S) /\ Cardinality(S) \in Nat
  BY FiniteAssumption, FS_Subset, FS_CardinalityType
<1>2. Stored \in SUBSET Event /\ \A r : EventsOf(r) \in SUBSET Event
  BY DEF Stored, EventsOf
<1>3. \A r \in Run : Manifest[r] \in SUBSET Event
  BY ManifestAssumption
<1> QED
  BY <1>1, <1>2, <1>3

\* The previous maximum persist_valid_delivery reads is a natural number that bounds
\* the sequences stored for the run, and is one of them or 0.
LEMMA PreviousMaxIsMax ==
  ASSUME CanonicalFromManifest, NEW r \in Run
  PROVE  /\ PreviousMax(r) \in Nat
         /\ \A e \in EventsOf(r) : SourceSequence[e] <= PreviousMax(r)
<1> DEFINE Sequences == {SourceSequence[e] : e \in EventsOf(r)} \cup {0}
<1>1. EventsOf(r) \subseteq Manifest[r]
  BY DEF CanonicalFromManifest, EventsOf, Registered
<1>2. Cardinality(Manifest[r]) \in Nat
  BY FiniteTables
<1>3. ASSUME NEW e \in EventsOf(r)
      PROVE  SourceSequence[e] \in 1 .. Cardinality(Manifest[r])
  BY <1>1, ManifestAssumption
<1>4. /\ Sequences \in SUBSET Nat
      /\ Sequences # {}
      /\ \A s \in Sequences : s <= Cardinality(Manifest[r])
  BY <1>2, <1>3
<1>5. Max(Sequences) \in Sequences /\ \A s \in Sequences : s <= Max(Sequences)
  <2> HIDE DEF Sequences
  <2> QED BY <1>2, <1>4, MaxOfBounded
<1> QED
  BY <1>4, <1>5 DEF PreviousMax

\* max(0, sequence - previous - 1) is a natural number.
LEMMA GapType ==
  ASSUME NEW x \in Int
  PROVE  Max({0, x}) \in Nat
BY DEF Max

-----------------------------------------------------------------------------
(* Type correctness *)

\* A stored event has a complete row.
LEMMA StoredRows ==
  ASSUME TypeOK
  PROVE  /\ \A e \in Stored : e \in Event /\ events[e] \in Rows
         /\ \A e \in Event : events[e] \in Rows => e \in Stored
BY NullAssumption DEF TypeOK, Stored, Persisted, Rows, NoRow

\* The attempts table is a sequence of attempt rows.
LEMMA AttemptRows ==
  ASSUME TypeOK
  PROVE  \A i \in Positions : attempts[i] \in Attempts /\ attempts[i].conn \in Conn
<1>1. attempts \in Seq(Attempts)
  BY DEF TypeOK
<1>2. \A i \in Positions : attempts[i] \in Attempts
  BY <1>1 DEF Positions
<1> QED
  BY <1>2 DEF Attempts

\* The state before any run exists satisfies the invariant.
LEMMA BaseInit == Init => BaseInv
<1> SUFFICES ASSUME Init PROVE BaseInv
  OBVIOUS
<1>1. TypeOK
  BY DEF Init, TypeOK, States, Replies, NoReply, Outcomes
<1>2. Binding /\ PendingReplies
  BY DEF Init, Binding, PendingReplies, Positions
<1>3. Phases /\ CanonicalFromManifest
  BY DEF Init, Phases, CanonicalFromManifest, Stored, Persisted
<1> QED
  BY <1>1, <1>2, <1>3 DEF BaseInv

\* A step that leaves the database alone keeps what it says.
LEMMA DatabaseUnchanged ==
  ASSUME UNCHANGED <<runs, attempts, events>>
  PROVE  /\ Stored' = Stored
         /\ Positions' = Positions
         /\ \A rep : Durable(rep)' <=> Durable(rep)
         /\ CanonicalFromManifest' <=> CanonicalFromManifest
BY DEF Stored, Persisted, Positions, Durable, CanonicalFromManifest, Registered

\* Creating a run registers its manifest and touches no delivery.
LEMMA CreateRunKeepsBase ==
  ASSUME BaseInv, NEW r \in Run, CreateRun(r)
  PROVE  BaseInv'
<1> USE DEF BaseInv, CreateRun
<1>1. TypeOK'
  BY DEF TypeOK, handlers, bounds
<1>2. Stored' = Stored /\ Positions' = Positions /\ \A rep : Durable(rep)' <=> Durable(rep)
  BY DEF Stored, Persisted, Positions, Durable
<1>3. Binding'
  BY <1>2 DEF Binding, TypeOK, handlers
<1>4. Phases' /\ PendingReplies'
  BY <1>2 DEF Phases, PendingReplies, handlers
<1>5. CanonicalFromManifest'
  BY <1>2, StoredRows DEF CanonicalFromManifest, Registered, TypeOK, Rows
<1> QED
  BY <1>1, <1>3, <1>4, <1>5

\* Completing a run changes its row and its report only.
LEMMA CompleteRunKeepsBase ==
  ASSUME BaseInv, NEW r \in Run, NEW acked \in Nat, CompleteRun(r, acked)
  PROVE  BaseInv'
<1> USE DEF BaseInv, CompleteRun
<1>1. TypeOK'
  BY DEF TypeOK, handlers, bounds
<1>2. Stored' = Stored /\ Positions' = Positions /\ \A rep : Durable(rep)' <=> Durable(rep)
  BY DEF Stored, Persisted, Positions, Durable
<1>3. Binding'
  BY <1>2 DEF Binding, TypeOK, handlers
<1>4. Phases' /\ PendingReplies'
  BY <1>2 DEF Phases, PendingReplies, handlers
<1>5. CanonicalFromManifest'
  BY <1>2, StoredRows DEF CanonicalFromManifest, Registered, TypeOK, Rows
<1> QED
  BY <1>1, <1>3, <1>4, <1>5

-----------------------------------------------------------------------------
(* Handler steps that store neither an attempt nor an event *)

\* A source opens a socket for a run that exists.
LEMMA OpenSocketKeepsBase ==
  ASSUME BaseInv, NEW c \in Conn, NEW r \in Run, OpenSocket(c, r)
  PROVE  BaseInv'
<1> USE DEF BaseInv, OpenSocket, database, handlers, bounds
<1>1. TypeOK'
  BY DEF TypeOK, States, Replies, NoReply, Outcomes
<1>2. Binding'
  BY DatabaseUnchanged DEF Binding, TypeOK, LoopFree
<1>3. Phases'
  BY DatabaseUnchanged DEF Phases, LoopFree, TypeOK
<1>4. PendingReplies'
  BY DatabaseUnchanged DEF PendingReplies, LoopFree, TypeOK
<1>5. CanonicalFromManifest'
  BY DatabaseUnchanged
<1> QED
  BY <1>1, <1>2, <1>3, <1>4, <1>5

\* The handler accepts the socket and stores its connect row.
LEMMA AcceptSocketKeepsBase ==
  ASSUME BaseInv, NEW c \in Conn, AcceptSocket(c)
  PROVE  BaseInv'
<1> USE DEF BaseInv, AcceptSocket, database, handlers, bounds
<1>1. TypeOK'
  BY DEF TypeOK, States, Replies, NoReply, Outcomes
<1>2. Binding'
  BY DatabaseUnchanged DEF Binding, TypeOK, LoopFree
<1>3. Phases'
  BY DatabaseUnchanged DEF Phases, LoopFree, TypeOK
<1>4. PendingReplies'
  BY DatabaseUnchanged DEF PendingReplies, LoopFree, TypeOK
<1>5. CanonicalFromManifest'
  BY DatabaseUnchanged
<1> QED
  BY <1>1, <1>2, <1>3, <1>4, <1>5

\* A handshake that ends early leaves no binding behind.
LEMMA AbortHandshakeKeepsBase ==
  ASSUME BaseInv, NEW c \in Conn, AbortHandshake(c)
  PROVE  BaseInv'
<1> USE DEF BaseInv, AbortHandshake, database, handlers, bounds
<1>1. TypeOK'
  BY DEF TypeOK, States, Replies, NoReply, Outcomes
<1>2. Binding'
  BY DatabaseUnchanged DEF Binding, TypeOK, LoopFree
<1>3. Phases'
  BY DatabaseUnchanged DEF Phases, LoopFree, TypeOK
<1>4. PendingReplies'
  BY DatabaseUnchanged DEF PendingReplies, LoopFree, TypeOK
<1>5. CanonicalFromManifest'
  BY DatabaseUnchanged
<1> QED
  BY <1>1, <1>2, <1>3, <1>4, <1>5

\* A handler that ends between two messages.
LEMMA CloseSocketKeepsBase ==
  ASSUME BaseInv, NEW c \in Conn, CloseSocket(c)
  PROVE  BaseInv'
<1> USE DEF BaseInv, CloseSocket, EndHandler, Fault, database, handlers, bounds
<1>1. TypeOK'
  <2>1. evidence' \in [Conn -> Seq({"connected", "disconnected"})]
    <3>1. evidence \in [Conn -> Seq({"connected", "disconnected"})]
      BY DEF TypeOK
    <3>2. Append(evidence[c], "disconnected") \in Seq({"connected", "disconnected"})
      BY <3>1
    <3>3. \/ evidence' = evidence
          \/ evidence' = [evidence EXCEPT ![c] = Append(evidence[c], "disconnected")]
      OBVIOUS
    <3> QED
      BY <3>1, <3>2, <3>3
  <2>2. pc' \in [Conn -> States] /\ reply' \in [Conn -> Replies] /\ faults' \in Nat
    BY DEF TypeOK, States, Replies, NoReply, Outcomes
  <2> QED
    BY <2>1, <2>2 DEF TypeOK
<1>2. Binding'
  BY DatabaseUnchanged DEF Binding, TypeOK, LoopFree
<1>3. Phases'
  BY DatabaseUnchanged DEF Phases, LoopFree, TypeOK
<1>4. PendingReplies'
  BY DatabaseUnchanged DEF PendingReplies, LoopFree, TypeOK
<1>5. CanonicalFromManifest'
  BY DatabaseUnchanged
<1> QED
  BY <1>1, <1>2, <1>3, <1>4, <1>5

\* A reply that cannot be sent ends the handler and marks nothing.
LEMMA ReplyFailsKeepsBase ==
  ASSUME BaseInv, NEW c \in Conn, ReplyFails(c)
  PROVE  BaseInv'
<1> USE DEF BaseInv, ReplyFails, EndHandler, Fault, database, handlers, bounds
<1>1. TypeOK'
  <2>1. evidence' \in [Conn -> Seq({"connected", "disconnected"})]
    <3>1. evidence \in [Conn -> Seq({"connected", "disconnected"})]
      BY DEF TypeOK
    <3>2. Append(evidence[c], "disconnected") \in Seq({"connected", "disconnected"})
      BY <3>1
    <3>3. \/ evidence' = evidence
          \/ evidence' = [evidence EXCEPT ![c] = Append(evidence[c], "disconnected")]
      OBVIOUS
    <3> QED
      BY <3>1, <3>2, <3>3
  <2>2. pc' \in [Conn -> States] /\ reply' \in [Conn -> Replies] /\ faults' \in Nat
    BY DEF TypeOK, States, Replies, NoReply, Outcomes
  <2> QED
    BY <2>1, <2>2 DEF TypeOK
<1>2. Binding'
  BY DatabaseUnchanged DEF Binding, TypeOK, LoopFree
<1>3. Phases'
  BY DatabaseUnchanged DEF Phases, LoopFree, TypeOK
<1>4. PendingReplies'
  BY DatabaseUnchanged DEF PendingReplies, LoopFree, TypeOK
<1>5. CanonicalFromManifest'
  BY DatabaseUnchanged
<1> QED
  BY <1>1, <1>2, <1>3, <1>4, <1>5

\* A delivery to a completed run is refused and stores nothing.
LEMMA RefuseDeliveryKeepsBase ==
  ASSUME BaseInv, NEW c \in Conn, RefuseDelivery(c)
  PROVE  BaseInv'
<1> USE DEF BaseInv, RefuseDelivery, database, handlers, bounds
<1>1. TypeOK'
  BY DEF TypeOK, States, Replies, NoReply, Outcomes
<1>2. Binding'
  BY DatabaseUnchanged DEF Binding, TypeOK, LoopFree
<1>3. Phases'
  BY DatabaseUnchanged DEF Phases, LoopFree, TypeOK
<1>4. PendingReplies'
  BY DatabaseUnchanged DEF PendingReplies, LoopFree, TypeOK
<1>5. CanonicalFromManifest'
  BY DatabaseUnchanged
<1> QED
  BY <1>1, <1>2, <1>3, <1>4, <1>5

\* A reply that is sent moves its handler on to the mark.
LEMMA SendReplyKeepsBase ==
  ASSUME BaseInv, NEW c \in Conn, SendReply(c)
  PROVE  BaseInv'
<1> USE DEF BaseInv, SendReply, database, handlers, bounds
<1>1. TypeOK'
  BY DEF TypeOK, States, Replies, NoReply, Outcomes
<1>2. Binding'
  BY DatabaseUnchanged DEF Binding, TypeOK, LoopFree
<1>3. Phases'
  BY DatabaseUnchanged DEF Phases, LoopFree, TypeOK
<1>4. PendingReplies'
  BY DatabaseUnchanged DEF PendingReplies, LoopFree, TypeOK
<1>5. CanonicalFromManifest'
  BY DatabaseUnchanged
<1> QED
  BY <1>1, <1>2, <1>3, <1>4, <1>5

\* A mark that fails leaves the tables as they were.
LEMMA MarkFailsKeepsBase ==
  ASSUME BaseInv, NEW c \in Conn, MarkFails(c)
  PROVE  BaseInv'
<1> USE DEF BaseInv, MarkFails, Resume, Fault, database, handlers, bounds
<1>1. TypeOK'
  BY DEF TypeOK, States, Replies, NoReply, Outcomes
<1>2. Binding'
  BY DatabaseUnchanged DEF Binding, TypeOK, LoopFree
<1>3. Phases'
  BY DatabaseUnchanged DEF Phases, LoopFree, TypeOK
<1>4. PendingReplies'
  BY DatabaseUnchanged DEF PendingReplies, LoopFree, TypeOK
<1>5. CanonicalFromManifest'
  BY DatabaseUnchanged
<1> QED
  BY <1>1, <1>2, <1>3, <1>4, <1>5

\* A processing step that fails leaves at most failure evidence.
LEMMA ProcessFailsKeepsBase ==
  ASSUME BaseInv, NEW c \in Conn, ProcessFails(c)
  PROVE  BaseInv'
<1> USE DEF BaseInv, ProcessFails, Resume, ProcessingFailure, Fault, database, handlers, bounds
<1>1. TypeOK'
  <2>1. reply[c].event \in Event
    BY StoredRows DEF PendingReplies, Durable
  <2>2. effects' \in [Event -> [success : Nat, failure : Nat]]
    <3>1. effects \in [Event -> [success : Nat, failure : Nat]]
      BY DEF TypeOK
    <3>2. \/ effects' = effects
          \/ effects' = [effects EXCEPT ![reply[c].event].failure = @ + 1]
      OBVIOUS
    <3> QED
      BY <2>1, <3>1, <3>2
  <2>3. pc' \in [Conn -> States] /\ reply' \in [Conn -> Replies] /\ faults' \in Nat
    BY DEF TypeOK, States, Replies, NoReply, Outcomes
  <2> QED
    BY <2>2, <2>3 DEF TypeOK
<1>2. Binding'
  BY DatabaseUnchanged DEF Binding, TypeOK, LoopFree
<1>3. Phases'
  BY DatabaseUnchanged DEF Phases, LoopFree, TypeOK
<1>4. PendingReplies'
  BY DatabaseUnchanged DEF PendingReplies, LoopFree, TypeOK
<1>5. CanonicalFromManifest'
  BY DatabaseUnchanged
<1> QED
  BY <1>1, <1>2, <1>3, <1>4, <1>5

\* The broadcast is over and the handler reads its next message.
LEMMA BroadcastEndsKeepsBase ==
  ASSUME BaseInv, NEW c \in Conn, BroadcastEnds(c)
  PROVE  BaseInv'
<1> USE DEF BaseInv, BroadcastEnds, Resume, database, handlers, bounds
<1>1. TypeOK'
  BY DEF TypeOK, States, Replies, NoReply, Outcomes
<1>2. Binding'
  BY DatabaseUnchanged DEF Binding, TypeOK, LoopFree
<1>3. Phases'
  BY DatabaseUnchanged DEF Phases, LoopFree, TypeOK
<1>4. PendingReplies'
  BY DatabaseUnchanged DEF PendingReplies, LoopFree, TypeOK
<1>5. CanonicalFromManifest'
  BY DatabaseUnchanged
<1> QED
  BY <1>1, <1>2, <1>3, <1>4, <1>5

-----------------------------------------------------------------------------
(* Handler steps that store an attempt *)

\* What storing an attempt does to the table.
LEMMA AuditAppends ==
  ASSUME TypeOK, NEW c \in Conn, NEW r \in Run, NEW e \in Event \cup {NoEvent},
         NEW outcome \in Outcomes, NEW category \in Categories,
         Audit(c, r, e, outcome, category)
  PROVE  /\ attempts' \in Seq(Attempts)
         /\ Positions' = Positions \cup {Len(attempts) + 1}
         /\ Len(attempts) + 1 \notin Positions
         /\ \A i \in Positions : attempts'[i] = attempts[i]
         /\ attempts'[Len(attempts) + 1] =
              [conn |-> c, run |-> r, event |-> e, outcome |-> outcome,
               category |-> category, replied |-> FALSE]
<1> DEFINE row == [conn |-> c, run |-> r, event |-> e, outcome |-> outcome,
                   category |-> category, replied |-> FALSE]
<1>1. attempts \in Seq(Attempts) /\ row \in Attempts
  BY DEF TypeOK, Attempts
<1>2. attempts' = Append(attempts, row)
  BY DEF Audit
<1> HIDE DEF row
<1>3. /\ attempts' \in Seq(Attempts)
      /\ Len(attempts') = Len(attempts) + 1
      /\ \A i \in Positions : attempts'[i] = attempts[i]
      /\ attempts'[Len(attempts) + 1] = row
  BY <1>1, <1>2 DEF Positions
<1>4. Len(attempts) \in Nat
  BY <1>1
<1> QED
  BY <1>3, <1>4 DEF Positions, row

\* A reply stays true while attempts are appended and events are added.
LEMMA DurableStays ==
  ASSUME NEW rep, Durable(rep), Positions \subseteq Positions', Stored \subseteq Stored',
         \A i \in Positions : attempts'[i].event = attempts[i].event
                           /\ attempts'[i].outcome = attempts[i].outcome
  PROVE  Durable(rep)'
BY DEF Durable

\* The category of a message is one of the categories; a message of category "none"
\* or "event_id_conflict" is a registered event sent under its own run.
LEMMA CategoryFacts ==
  ASSUME NEW m \in Message, NEW hint \in Run
  PROVE  /\ Category(m, hint) \in Categories
         /\ ClaimedEvent(m) \in Event \cup {NoEvent}
         /\ m.content \in Contents
         /\ Category(m, hint) \in {"none", "event_id_conflict"} =>
              m.run = hint /\ m.event \in Event /\ m.event \in Registered(hint)
         /\ Category(m, hint) = "none" => m.content = "manifest"
<1>1. m \in Messages /\ (m.shape = "valid" => m.event \in Event /\ m.run \in Run)
  BY MessageAssumption
<1>2. m.shape \notin {"oversized", "malformed", "invalid"} => m.shape = "valid"
  BY <1>1 DEF Messages, Shapes
<1>3. Category(m, hint) \in Categories
  BY DEF Category, Categories
<1>4. ClaimedEvent(m) \in Event \cup {NoEvent} /\ m.content \in Contents
  BY <1>1 DEF ClaimedEvent, Messages
<1>5. ASSUME Category(m, hint) \in {"none", "event_id_conflict"}
      PROVE  m.run = hint /\ m.event \in Event /\ m.event \in Registered(hint)
  BY <1>1, <1>2, <1>5, NullAssumption DEF Category
<1>6. Category(m, hint) = "none" => m.content = "manifest"
  BY DEF Category
<1> QED
  BY <1>3, <1>4, <1>5, <1>6

\* An attempt that stores no event keeps the base invariant.
LEMMA AttemptKeepsBase ==
  ASSUME BaseInv, NEW c \in Conn, NEW e \in Event \cup {NoEvent},
         NEW outcome \in Outcomes, NEW category \in Categories,
         pc[c] = "receiving", MayProcess(outcome) => e \in Stored,
         Audit(c, bound[c], e, outcome, category),
         PrepareReply(c, e, outcome),
         UNCHANGED <<runs, report, events, effects, evidence, server, backlog,
                     bound, sent, crashes>>,
         faults' \in Nat
  PROVE  BaseInv'
<1> USE DEF BaseInv, PrepareReply
<1>1. bound[c] \in Run
  BY DEF Binding
<1>2. /\ attempts' \in Seq(Attempts)
      /\ Positions' = Positions \cup {Len(attempts) + 1}
      /\ Len(attempts) + 1 \notin Positions
      /\ \A i \in Positions : attempts'[i] = attempts[i]
      /\ attempts'[Len(attempts) + 1] =
           [conn |-> c, run |-> bound[c], event |-> e, outcome |-> outcome,
            category |-> category, replied |-> FALSE]
  BY <1>1, AuditAppends
<1>3. Len(attempts) \in Nat
  BY DEF TypeOK
<1>4. Stored' = Stored
  BY DEF Stored, Persisted
<1>5. TypeOK'
  BY <1>2, <1>3 DEF TypeOK, States, Replies
<1>6. Binding'
  <2>1. \A d \in Conn : pc'[d] \notin {"idle", "closed"} =>
          bound'[d] \in Run /\ runs'[bound'[d]] # "absent"
    BY <1>1 DEF Binding, TypeOK
  <2>2. ASSUME NEW i \in Positions
        PROVE  pc'[attempts'[i].conn] # "idle"
    <3>1. attempts'[i].conn = attempts[i].conn /\ pc[attempts[i].conn] # "idle"
      BY <1>2 DEF Binding
    <3>2. attempts[i].conn \in Conn
      BY AttemptRows
    <3> QED
      BY <3>1, <3>2 DEF TypeOK
  <2>3. ASSUME NEW i \in Positions' \ Positions
        PROVE  pc'[attempts'[i].conn] # "idle"
    BY <1>2 DEF TypeOK
  <2> QED
    BY <2>1, <2>2, <2>3 DEF Binding
<1>7. Phases'
  BY <1>4 DEF Phases, TypeOK
<1>8. \A rep : Durable(rep) => Durable(rep)'
  BY <1>2, <1>4, DurableStays
<1>9. Durable(reply[c])'
  BY <1>2, <1>4 DEF Durable, TypeOK
<1>10. PendingReplies'
  BY <1>8, <1>9 DEF PendingReplies, TypeOK
<1>11. CanonicalFromManifest'
  BY <1>4 DEF CanonicalFromManifest, Registered
<1> QED
  BY <1>5, <1>6, <1>7, <1>10, <1>11

\* The transaction of a rejected delivery.
LEMMA RecordRejectedKeepsBase ==
  ASSUME BaseInv, NEW c \in Conn, NEW m \in Message, RecordRejected(c, m)
  PROVE  BaseInv'
<1>1. bound[c] \in Run /\ pc[c] = "receiving" /\ faults \in Nat
  BY DEF BaseInv, Binding, TypeOK, RecordRejected, Receiving
<1>2. Category(m, bound[c]) \in Categories /\ ClaimedEvent(m) \in Event \cup {NoEvent}
  BY <1>1, CategoryFacts
<1>3. "rejected" \in Outcomes /\ ~MayProcess("rejected")
  BY DEF Outcomes, MayProcess
<1> QED
  BY <1>1, <1>2, <1>3, AttemptKeepsBase DEF RecordRejected, bounds

\* The transaction of a conflicting delivery.
LEMMA RecordConflictedKeepsBase ==
  ASSUME BaseInv, NEW c \in Conn, NEW m \in Message, RecordConflicted(c, m)
  PROVE  BaseInv'
<1>1. bound[c] \in Run /\ pc[c] = "receiving" /\ faults \in Nat
  BY DEF BaseInv, Binding, TypeOK, RecordConflicted, Receiving
<1>2. m.run = bound[c] /\ m.event \in Event \cup {NoEvent}
  BY <1>1, CategoryFacts DEF RecordConflicted
<1>3. /\ "conflict" \in Outcomes /\ ~MayProcess("conflict")
      /\ "event_id_conflict" \in Categories
  BY DEF Outcomes, MayProcess, Categories
<1> QED
  BY <1>1, <1>2, <1>3, AttemptKeepsBase DEF RecordConflicted, bounds

\* The transaction of a duplicate delivery.
LEMMA PersistDuplicateKeepsBase ==
  ASSUME BaseInv, NEW c \in Conn, NEW m \in Message, PersistDuplicate(c, m)
  PROVE  BaseInv'
<1>1. bound[c] \in Run /\ pc[c] = "receiving" /\ faults \in Nat
  BY DEF BaseInv, Binding, TypeOK, PersistDuplicate, Receiving
<1>2. m.run = bound[c] /\ m.event \in Event
  BY <1>1, CategoryFacts DEF PersistDuplicate
<1>3. m.event \in Stored
  BY <1>2 DEF PersistDuplicate, Stored
<1>4. "duplicate" \in Outcomes /\ "none" \in Categories
  BY DEF Outcomes, Categories
<1> QED
  BY <1>1, <1>2, <1>3, <1>4, AttemptKeepsBase DEF PersistDuplicate, bounds

\* A delivery whose transaction fails leaves nothing but its handler.
LEMMA IngestFailsKeepsBase ==
  ASSUME BaseInv, NEW c \in Conn, IngestFails(c)
  PROVE  BaseInv'
<1> USE DEF BaseInv
<1>1. bound[c] \in Run /\ pc[c] = "receiving" /\ faults' \in Nat
  <2>1. pc[c] = "receiving" /\ faults' = faults + 1
    BY DEF IngestFails, Receiving, Fault
  <2>2. bound[c] \in Run
    BY <2>1 DEF Binding
  <2>3. faults \in Nat
    BY DEF TypeOK
  <2> QED
    BY <2>1, <2>2, <2>3
<1>2. /\ attempts' \in Seq(Attempts)
      /\ Positions \subseteq Positions'
      /\ \A i \in Positions : attempts'[i] = attempts[i]
      /\ \A i \in Positions' \ Positions : attempts'[i].conn = c
  <2>1. CASE UNCHANGED attempts
    BY <2>1 DEF Positions, TypeOK
  <2>2. CASE Audit(c, bound[c], NoEvent, "rejected", "internal_error")
    <3>1. "rejected" \in Outcomes /\ "internal_error" \in Categories
      BY DEF Outcomes, Categories
    <3>2. NoEvent \in Event \cup {NoEvent} /\ bound[c] \in Run /\ TypeOK
      BY <1>1
    <3>3. /\ attempts' \in Seq(Attempts)
          /\ Positions' = Positions \cup {Len(attempts) + 1}
          /\ \A i \in Positions : attempts'[i] = attempts[i]
          /\ attempts'[Len(attempts) + 1] =
               [conn |-> c, run |-> bound[c], event |-> NoEvent, outcome |-> "rejected",
                category |-> "internal_error", replied |-> FALSE]
      <4> HIDE DEF BaseInv
      <4> QED
        BY <2>2, <3>1, <3>2, AuditAppends
    <3> QED
      BY <3>3
  <2> QED
    BY <2>1, <2>2 DEF IngestFails
<1>3. Stored' = Stored
  BY DEF IngestFails, Stored, Persisted
<1>4. TypeOK'
  BY <1>1, <1>2 DEF IngestFails, TypeOK, States
<1>5. Binding'
  <2>1. \A d \in Conn : pc'[d] \notin {"idle", "closed"} =>
          bound'[d] \in Run /\ runs'[bound'[d]] # "absent"
    BY <1>1 DEF Binding, TypeOK, IngestFails
  <2>2. ASSUME NEW i \in Positions
        PROVE  pc'[attempts'[i].conn] # "idle"
    <3>1. attempts'[i].conn = attempts[i].conn /\ pc[attempts[i].conn] # "idle"
      BY <1>2 DEF Binding
    <3>2. attempts[i].conn \in Conn
      BY AttemptRows
    <3> QED
      BY <3>1, <3>2 DEF TypeOK, IngestFails
  <2>3. ASSUME NEW i \in Positions' \ Positions
        PROVE  pc'[attempts'[i].conn] # "idle"
    BY <1>2 DEF TypeOK, IngestFails
  <2> QED
    BY <2>1, <2>2, <2>3 DEF Binding
<1>6. Phases'
  BY <1>1, <1>3 DEF IngestFails, Phases, TypeOK
<1>7. \A rep : Durable(rep) => Durable(rep)'
  BY <1>2, <1>3, DurableStays
<1>8. PendingReplies'
  BY <1>7 DEF IngestFails, PendingReplies, TypeOK
<1>9. CanonicalFromManifest'
  BY <1>3 DEF IngestFails, CanonicalFromManifest, Registered
<1> QED
  BY <1>4, <1>5, <1>6, <1>8, <1>9

\* The canonical row persist_valid_delivery builds is well formed.
LEMMA CanonicalRowType ==
  ASSUME CanonicalFromManifest, NEW m \in Message, m.run \in Run, m.event \in Event
  PROVE  /\ CanonicalRow(m) \in Rows
         /\ CanonicalRow(m).run = m.run
         /\ CanonicalRow(m).content = m.content
<1> DEFINE previous == PreviousMax(m.run)
           sequence == SourceSequence[m.event]
           distance == sequence - previous - 1
<1>1. previous \in Nat
  BY PreviousMaxIsMax
<1>2. sequence \in Nat
  BY ManifestAssumption
<1>3. distance \in Int /\ (sequence < previous) \in BOOLEAN
  BY <1>1, <1>2
<1>4. Max({0, distance}) \in Nat
  <2> HIDE DEF distance
  <2> QED BY <1>3, GapType
<1>5. Cardinality(Stored) + 1 \in Nat /\ Cardinality(EventsOf(m.run)) + 1 \in Nat
  BY FiniteTables
<1>6. m.content \in Contents
  BY MessageAssumption DEF Messages
<1> QED
  BY <1>3, <1>4, <1>5, <1>6 DEF CanonicalRow, Rows

\* The transaction of an accepted delivery: an attempt and a row of the manifest.
LEMMA PersistAcceptedKeepsBase ==
  ASSUME BaseInv, NEW c \in Conn, NEW m \in Message, PersistAccepted(c, m)
  PROVE  BaseInv'
<1> USE DEF BaseInv
<1>1. pc[c] = "receiving"
  BY DEF PersistAccepted, Receiving
<1>2. bound[c] \in Run /\ runs[bound[c]] # "absent"
  BY <1>1 DEF Binding
<1>3. /\ m.run = bound[c] /\ m.event \in Event
      /\ m.event \in Registered(bound[c]) /\ m.content = "manifest"
  BY <1>2, CategoryFacts DEF PersistAccepted
<1>4. /\ attempts' \in Seq(Attempts)
      /\ Positions' = Positions \cup {Len(attempts) + 1}
      /\ Len(attempts) + 1 \notin Positions
      /\ \A i \in Positions : attempts'[i] = attempts[i]
      /\ attempts'[Len(attempts) + 1] =
           [conn |-> c, run |-> bound[c], event |-> m.event, outcome |-> "accepted",
            category |-> "none", replied |-> FALSE]
  <2>1. "accepted" \in Outcomes /\ "none" \in Categories
    BY DEF Outcomes, Categories
  <2>2. Audit(c, bound[c], m.event, "accepted", "none") /\ m.event \in Event \cup {NoEvent}
    BY <1>3 DEF PersistAccepted
  <2>3. TypeOK
    OBVIOUS
  <2> HIDE DEF BaseInv
  <2> QED
    BY <1>2, <2>1, <2>2, <2>3, AuditAppends
<1>5. Len(attempts) \in Nat
  BY DEF TypeOK
<1>6. /\ events' = [events EXCEPT ![m.event] = CanonicalRow(m)]
      /\ CanonicalRow(m) \in Rows
      /\ CanonicalRow(m).run = bound[c] /\ CanonicalRow(m).content = "manifest"
  BY <1>2, <1>3, CanonicalRowType DEF PersistAccepted
<1>7. /\ events' \in [Event -> Rows \cup {NoRow}]
      /\ events'[m.event] = CanonicalRow(m)
      /\ \A e \in Event : e # m.event => events'[e] = events[e]
  BY <1>3, <1>6 DEF TypeOK
<1>8. /\ Stored' = Stored \cup {m.event}
      /\ m.event \notin Stored
  <2>1. CanonicalRow(m) # NoRow
    BY <1>6, <1>2, NullAssumption DEF NoRow
  <2> QED
    BY <1>3, <1>7, <2>1 DEF Stored, Persisted, PersistAccepted
<1>9. TypeOK'
  <2>1. reply' \in [Conn -> Replies] /\ pc' \in [Conn -> States]
    BY <1>3, <1>5 DEF PersistAccepted, PrepareReply, TypeOK, Replies, Outcomes, States
  <2> QED
    BY <1>4, <1>7, <2>1 DEF TypeOK, PersistAccepted, bounds
<1>10. Binding'
  <2>1. \A d \in Conn : pc'[d] \notin {"idle", "closed"} =>
          bound'[d] \in Run /\ runs'[bound'[d]] # "absent"
    BY <1>2 DEF Binding, TypeOK, PersistAccepted, PrepareReply
  <2>2. ASSUME NEW i \in Positions
        PROVE  pc'[attempts'[i].conn] # "idle"
    <3>1. attempts'[i].conn = attempts[i].conn /\ pc[attempts[i].conn] # "idle"
      BY <1>4 DEF Binding
    <3>2. attempts[i].conn \in Conn
      BY AttemptRows
    <3> QED
      BY <3>1, <3>2 DEF TypeOK, PersistAccepted, PrepareReply
  <2>3. ASSUME NEW i \in Positions' \ Positions
        PROVE  pc'[attempts'[i].conn] # "idle"
    BY <1>4 DEF TypeOK, PersistAccepted, PrepareReply
  <2> QED
    BY <2>1, <2>2, <2>3 DEF Binding
<1>11. Phases'
  BY <1>8 DEF Phases, TypeOK, PersistAccepted, PrepareReply, Receiving, LoopFree
<1>12. \A rep : Durable(rep) => Durable(rep)'
  BY <1>4, <1>8, DurableStays
<1>13. Durable(reply[c])'
  BY <1>4, <1>8 DEF Durable, TypeOK, PersistAccepted, PrepareReply
<1>14. PendingReplies'
  BY <1>12, <1>13 DEF PendingReplies, TypeOK, PersistAccepted, PrepareReply
<1>15. CanonicalFromManifest'
  <2>1. runs' = runs
    BY DEF PersistAccepted
  <2>2. ASSUME NEW e \in Stored
        PROVE  (e \in Registered(events[e].run) /\ events[e].content = "manifest")'
    <3>1. events'[e] = events[e]
      BY <1>7, <1>8, StoredRows
    <3> QED
      BY <2>1, <3>1 DEF CanonicalFromManifest, Registered
  <2>3. /\ (m.event \in Registered(events[m.event].run))'
        /\ events'[m.event].content = "manifest"
    BY <1>3, <1>6, <1>7, <2>1 DEF Registered
  <2> QED
    BY <1>8, <2>2, <2>3 DEF CanonicalFromManifest
<1> QED
  BY <1>9, <1>10, <1>11, <1>14, <1>15

-----------------------------------------------------------------------------
(* Marking and processing *)

\* Marking a true reply touches one flag of its attempt and one of its event.
LEMMA MarkTables ==
  ASSUME TypeOK, NEW c \in Conn, MarkReplySent(c), Durable(reply[c])
  PROVE  /\ attempts' \in Seq(Attempts)
         /\ Positions' = Positions
         /\ \A i \in Positions :
              attempts'[i] = IF i = reply[c].attempt
                             THEN [attempts[i] EXCEPT !.replied = TRUE] ELSE attempts[i]
         /\ events' \in [Event -> Rows \cup {NoRow}]
         /\ Stored' = Stored
         /\ \A e \in Stored :
              events'[e] = IF e = reply[c].event /\ MayProcess(reply[c].status)
                           THEN [events[e] EXCEPT !.acked = TRUE] ELSE events[e]
<1> DEFINE k == reply[c].attempt
<1>1. attempts' = [attempts EXCEPT ![k].replied = TRUE]
  BY DEF MarkReplySent
<1>2. attempts \in Seq(Attempts) /\ k \in 1 .. Len(attempts) /\ Len(attempts) \in Nat
  BY DEF TypeOK, Durable, Positions
<1>3. attempts[k] \in Attempts /\ [attempts[k] EXCEPT !.replied = TRUE] \in Attempts
  <2>1. attempts[k] \in Attempts
    BY <1>2
  <2> QED BY <2>1 DEF Attempts
<1>4. /\ attempts' \in Seq(Attempts) /\ Len(attempts') = Len(attempts)
      /\ attempts' = [attempts EXCEPT ![k] = [attempts[k] EXCEPT !.replied = TRUE]]
  BY <1>1, <1>2, <1>3
<1>5. /\ Positions' = Positions
      /\ \A i \in Positions :
           attempts'[i] = IF i = reply[c].attempt
                          THEN [attempts[i] EXCEPT !.replied = TRUE] ELSE attempts[i]
  <2> HIDE DEF k
  <2>1. Positions' = Positions
    BY <1>2, <1>4 DEF Positions
  <2>2. \A i \in 1 .. Len(attempts) :
          attempts'[i] = IF i = k THEN [attempts[k] EXCEPT !.replied = TRUE] ELSE attempts[i]
    BY <1>2, <1>4
  <2> QED
    BY <2>1, <2>2 DEF Positions, k
<1>6. events' = [e \in Event |-> IF e = reply[c].event /\ MayProcess(reply[c].status)
                                 THEN [events[e] EXCEPT !.acked = TRUE] ELSE events[e]]
  BY DEF MarkReplySent
<1>7. MayProcess(reply[c].status) => reply[c].event \in Stored
  BY DEF Durable
<1>8. \A e \in Stored : /\ events[e] \in Rows
                        /\ [events[e] EXCEPT !.acked = TRUE] \in Rows
  BY StoredRows DEF Rows
<1>9. \A row \in Rows : row # NoRow
  BY NullAssumption DEF Rows, NoRow
<1>10. /\ events' \in [Event -> Rows \cup {NoRow}]
       /\ \A e \in Event : events'[e] \in Rows <=> events[e] \in Rows
  BY <1>6, <1>7, <1>8, StoredRows DEF TypeOK, Stored
<1>11. Stored' = Stored
  BY <1>9, <1>10 DEF Stored, Persisted, TypeOK
<1> QED
  BY <1>4, <1>5, <1>6, <1>10, <1>11 DEF Stored

\* The transaction that marks a reply as sent.
LEMMA MarkReplySentKeepsBase ==
  ASSUME BaseInv, NEW c \in Conn, MarkReplySent(c)
  PROVE  BaseInv'
<1> USE DEF BaseInv
<1>1. Durable(reply[c]) /\ reply[c] \in sent
  BY DEF PendingReplies, MarkReplySent
<1>2. /\ attempts' \in Seq(Attempts)
      /\ Positions' = Positions
      /\ \A i \in Positions :
           attempts'[i] = IF i = reply[c].attempt
                          THEN [attempts[i] EXCEPT !.replied = TRUE] ELSE attempts[i]
      /\ events' \in [Event -> Rows \cup {NoRow}]
      /\ Stored' = Stored
      /\ \A e \in Stored :
           events'[e] = IF e = reply[c].event /\ MayProcess(reply[c].status)
                        THEN [events[e] EXCEPT !.acked = TRUE] ELSE events[e]
  BY <1>1, MarkTables
<1>3. \A i \in Positions : /\ attempts'[i].event = attempts[i].event
                           /\ attempts'[i].outcome = attempts[i].outcome
                           /\ attempts'[i].conn = attempts[i].conn
  BY <1>2, AttemptRows DEF Attempts
<1>4. \A e \in Stored : events'[e].run = events[e].run /\ events'[e].content = events[e].content
  BY <1>2, StoredRows DEF Rows
<1>5. TypeOK'
  <2>1. pc \in [Conn -> States] /\ reply \in [Conn -> Replies] /\ NoReply \in Replies
    BY DEF TypeOK, NoReply, Replies, Outcomes
  <2>2. \/ Resume(c)
        \/ pc' = [pc EXCEPT ![c] = "processing"] /\ reply' = reply
    BY DEF MarkReplySent
  <2>3. reply' \in [Conn -> Replies] /\ pc' \in [Conn -> States]
    BY <2>1, <2>2 DEF Resume, States
  <2> QED
    BY <1>2, <2>3 DEF TypeOK, MarkReplySent, bounds
<1>6. Binding'
  <2>1. \A d \in Conn : pc'[d] \notin {"idle", "closed"} =>
          bound'[d] \in Run /\ runs'[bound'[d]] # "absent"
    BY DEF Binding, TypeOK, MarkReplySent, Resume
  <2>2. ASSUME NEW i \in Positions
        PROVE  pc'[attempts'[i].conn] # "idle"
    <3>1. attempts'[i].conn = attempts[i].conn /\ pc[attempts[i].conn] # "idle"
      BY <1>3 DEF Binding
    <3>2. attempts[i].conn \in Conn
      BY AttemptRows
    <3> QED
      BY <3>1, <3>2 DEF TypeOK, MarkReplySent, Resume
  <2> QED
    BY <1>2, <2>1, <2>2 DEF Binding
<1>7. Phases'
  BY <1>2 DEF Phases, TypeOK, MarkReplySent
<1>8. \A rep : Durable(rep) => Durable(rep)'
  BY <1>2, <1>3, DurableStays
<1>9. PendingReplies'
  BY <1>8, <1>1 DEF PendingReplies, TypeOK, MarkReplySent, Resume
<1>10. CanonicalFromManifest'
  BY <1>2, <1>4 DEF CanonicalFromManifest, Registered, MarkReplySent
<1> QED
  BY <1>5, <1>6, <1>7, <1>9, <1>10

\* Storing an effect touches one counter and one flag.
LEMMA EffectTables ==
  ASSUME TypeOK, NEW e \in Stored, StoreEffect(e)
  PROVE  /\ effects' \in [Event -> [success : Nat, failure : Nat]]
         /\ events' \in [Event -> Rows \cup {NoRow}]
         /\ Stored' = Stored
         /\ \A d \in Stored :
              events'[d] = IF d = e THEN [events[d] EXCEPT !.processed = TRUE] ELSE events[d]
<1>1. e \in Event /\ events[e] \in Rows /\ [events[e] EXCEPT !.processed = TRUE] \in Rows
  BY StoredRows DEF Rows
<1>2. events' = [events EXCEPT ![e] = [events[e] EXCEPT !.processed = TRUE]]
  BY DEF StoreEffect
<1>3. \A row \in Rows : row # NoRow
  BY NullAssumption DEF Rows, NoRow
<1>4. events' \in [Event -> Rows \cup {NoRow}] /\ events'[e] \in Rows
  BY <1>1, <1>2 DEF TypeOK
<1>5. Stored' = Stored
  BY <1>1, <1>2, <1>3, <1>4 DEF Stored, Persisted, TypeOK
<1>6. effects' \in [Event -> [success : Nat, failure : Nat]]
  <2>1. effects \in [Event -> [success : Nat, failure : Nat]]
    BY DEF TypeOK
  <2>2. effects' = [effects EXCEPT ![e].success = @ + 1]
    BY DEF StoreEffect
  <2> QED BY <1>1, <2>1, <2>2
<1> QED
  BY <1>1, <1>2, <1>4, <1>5, <1>6 DEF Stored, TypeOK

\* So a step that stores an effect, and otherwise only moves handlers on, keeps the
\* canonical rows and the replies true.
LEMMA EffectKeeps ==
  ASSUME BaseInv, NEW e \in Stored, StoreEffect(e), UNCHANGED <<runs, attempts>>
  PROVE  /\ effects' \in [Event -> [success : Nat, failure : Nat]]
         /\ events' \in [Event -> Rows \cup {NoRow}]
         /\ Stored' = Stored
         /\ Positions' = Positions
         /\ \A rep : Durable(rep) => Durable(rep)'
         /\ CanonicalFromManifest'
<1> USE DEF BaseInv
<1>1. /\ effects' \in [Event -> [success : Nat, failure : Nat]]
      /\ events' \in [Event -> Rows \cup {NoRow}]
      /\ Stored' = Stored
      /\ \A d \in Stored :
           events'[d] = IF d = e THEN [events[d] EXCEPT !.processed = TRUE] ELSE events[d]
  BY EffectTables
<1>2. \A d \in Stored : events'[d].run = events[d].run /\ events'[d].content = events[d].content
  BY <1>1, StoredRows DEF Rows
<1>3. Positions' = Positions
  BY DEF Positions
<1>4. \A rep : Durable(rep) => Durable(rep)'
  BY <1>1, <1>3, DurableStays
<1>5. CanonicalFromManifest'
  BY <1>1, <1>2 DEF CanonicalFromManifest, Registered
<1> QED
  BY <1>1, <1>3, <1>4, <1>5

\* The transaction that stores an event's effect.
LEMMA ProcessEventKeepsBase ==
  ASSUME BaseInv, NEW c \in Conn, ProcessEvent(c)
  PROVE  BaseInv'
<1> USE DEF BaseInv
<1>1. reply[c].event \in Stored
  BY DEF PendingReplies, ProcessEvent, Durable
<1>2. /\ effects' \in [Event -> [success : Nat, failure : Nat]]
      /\ events' \in [Event -> Rows \cup {NoRow}]
      /\ Stored' = Stored
      /\ Positions' = Positions
      /\ \A rep : Durable(rep) => Durable(rep)'
      /\ CanonicalFromManifest'
  <2>1. CASE events[reply[c].event].processed
    <3>1. UNCHANGED <<runs, attempts, events, effects>>
      BY <2>1 DEF ProcessEvent
    <3> QED
      BY <3>1, DatabaseUnchanged DEF TypeOK
  <2>2. CASE ~events[reply[c].event].processed
    <3>1. StoreEffect(reply[c].event) /\ UNCHANGED <<runs, attempts>>
      BY <2>2 DEF ProcessEvent
    <3> QED
      BY <1>1, <3>1, EffectKeeps
  <2> QED
    BY <2>1, <2>2
<1>3. /\ pc' \in [Conn -> States] /\ reply' \in [Conn -> Replies]
      /\ pc'[c] \in {"receiving", "broadcasting"}
      /\ \A d \in Conn \ {c} : pc'[d] = pc[d] /\ reply'[d] = reply[d]
  <2>1. pc \in [Conn -> States] /\ reply \in [Conn -> Replies] /\ NoReply \in Replies
    BY DEF TypeOK, NoReply, Replies, Outcomes
  <2>2. \/ Resume(c)
        \/ pc' = [pc EXCEPT ![c] = "broadcasting"] /\ reply' = reply
    BY DEF ProcessEvent
  <2> QED
    BY <2>1, <2>2 DEF Resume, States
<1>4. TypeOK'
  BY <1>2, <1>3 DEF TypeOK, ProcessEvent, bounds
<1>5. Binding'
  BY <1>2, <1>3, AttemptRows DEF Binding, ProcessEvent
<1>6. Phases'
  BY <1>2 DEF Phases, ProcessEvent
<1>7. PendingReplies'
  BY <1>2, <1>3 DEF PendingReplies, ProcessEvent
<1> QED
  BY <1>2, <1>4, <1>5, <1>6, <1>7

-----------------------------------------------------------------------------
(* The API process *)

\* A crash keeps the tables and forgets the handlers.
LEMMA CrashKeepsBase ==
  ASSUME BaseInv, Crash
  PROVE  BaseInv'
<1> USE DEF BaseInv, Crash, database
<1>1. \A c \in Conn : pc'[c] \in {"idle", "closed"} /\ (pc'[c] = "idle" <=> pc[c] = "idle")
  OBVIOUS
<1>2. TypeOK'
  <2>1. pc' \in [Conn -> States] /\ reply' \in [Conn -> Replies]
    BY DEF States, NoReply, Replies, Outcomes
  <2>2. sent' \subseteq Replies /\ crashes' \in Nat
    BY DEF TypeOK
  <2> QED
    BY <2>1, <2>2 DEF TypeOK
<1>3. Binding'
  BY <1>1, DatabaseUnchanged, AttemptRows DEF Binding
<1>4. Phases' /\ PendingReplies'
  BY <1>1 DEF Phases, PendingReplies
<1>5. CanonicalFromManifest'
  BY DatabaseUnchanged
<1> QED
  BY <1>2, <1>3, <1>4, <1>5

\* A start puts the stored, unprocessed events on the recovery list.
LEMMA StartKeepsBase ==
  ASSUME BaseInv, Start \/ Serve
  PROVE  BaseInv'
<1> USE DEF BaseInv, database, handlers, bounds
<1>1. UNCHANGED <<runs, attempts, events, pc, bound, reply, sent>>
  BY DEF Start, Serve
<1>2. backlog' \subseteq Stored /\ server' \in {"up", "recovering"} /\ server # "up"
  BY DEF Start, Serve, Unprocessed, Phases
<1>3. TypeOK'
  <2>1. backlog' \subseteq Event
    BY <1>2 DEF Stored
  <2> QED
    BY <1>2, <2>1 DEF Start, Serve, TypeOK
<1>4. Binding'
  BY <1>1, DatabaseUnchanged DEF Binding
<1>5. Phases'
  BY <1>1, <1>2, DatabaseUnchanged DEF Phases
<1>6. PendingReplies'
  BY <1>1, DatabaseUnchanged DEF PendingReplies
<1>7. CanonicalFromManifest'
  BY <1>1, DatabaseUnchanged
<1> QED
  BY <1>3, <1>4, <1>5, <1>6, <1>7

\* Recovery works on stored events only, whether they succeed or fail.
LEMMA RecoveryKeepsBase ==
  ASSUME BaseInv, NEW e \in Event, Recovery(e)
  PROVE  BaseInv'
<1> USE DEF BaseInv, handlers, bounds
<1>1. e \in Stored
  BY DEF Recovery, RecoverEvent, RecoverFails, NextToRecover, Phases
<1>2. /\ UNCHANGED <<runs, report, attempts, evidence, server, pc, bound, reply, sent, crashes>>
      /\ backlog' \subseteq backlog
  BY DEF Recovery, RecoverEvent, RecoverFails, NextToRecover
<1>3. /\ effects' \in [Event -> [success : Nat, failure : Nat]]
      /\ events' \in [Event -> Rows \cup {NoRow}]
      /\ Stored' = Stored
      /\ Positions' = Positions
      /\ \A rep : Durable(rep) => Durable(rep)'
      /\ CanonicalFromManifest'
      /\ faults' \in Nat
  <2>1. CASE RecoverEvent(e) /\ StoreEffect(e)
    <3>1. faults' \in Nat
      BY <2>1 DEF RecoverEvent, TypeOK
    <3> QED
      BY <1>1, <1>2, <2>1, <3>1, EffectKeeps
  <2>2. CASE RecoverEvent(e) /\ UNCHANGED <<effects, events>>
    BY <1>2, <2>2, DatabaseUnchanged DEF TypeOK, RecoverEvent
  <2>3. CASE RecoverFails(e)
    <3>1. UNCHANGED <<runs, attempts, events>>
      BY <2>3 DEF RecoverFails
    <3>2. faults' \in Nat
      BY <2>3 DEF RecoverFails, ProcessingFailure, Fault, TypeOK
    <3>3. effects' \in [Event -> [success : Nat, failure : Nat]]
      <4>1. effects \in [Event -> [success : Nat, failure : Nat]]
        BY DEF TypeOK
      <4>2. \/ effects' = effects
            \/ effects' = [effects EXCEPT ![e].failure = @ + 1]
        BY <2>3 DEF RecoverFails, ProcessingFailure
      <4> QED
        BY <4>1, <4>2
    <3>4. events' \in [Event -> Rows \cup {NoRow}]
      BY <3>1 DEF TypeOK
    <3> QED
      BY <3>1, <3>2, <3>3, <3>4, DatabaseUnchanged
  <2> QED
    BY <2>1, <2>2, <2>3 DEF Recovery, RecoverEvent
<1>4. TypeOK'
  BY <1>2, <1>3 DEF TypeOK
<1>5. Binding'
  BY <1>2, <1>3 DEF Binding
<1>6. Phases' /\ PendingReplies'
  BY <1>2, <1>3 DEF Phases, PendingReplies
<1> QED
  BY <1>3, <1>4, <1>5, <1>6

-----------------------------------------------------------------------------
\* Every step of the source side keeps the invariant.
LEMMA BaseNext == BaseInv /\ [Next]_vars => BaseInv'
<1> SUFFICES ASSUME BaseInv, [Next]_vars PROVE BaseInv'
  OBVIOUS
<1>1. CASE \E r \in Run : CreateRun(r)
  BY <1>1, CreateRunKeepsBase
<1>2. CASE \E r \in Run : \E acked \in 0 .. Cardinality(Manifest[r]) : CompleteRun(r, acked)
  BY <1>2, CompleteRunKeepsBase, FiniteTables
<1>3. ASSUME NEW c \in Conn, Handler(c)
      PROVE  BaseInv'
  <2>1. CASE \E r \in Run : OpenSocket(c, r)
    BY <2>1, OpenSocketKeepsBase
  <2>2. CASE AcceptSocket(c) \/ AbortHandshake(c) \/ CloseSocket(c)
    BY <2>2, AcceptSocketKeepsBase, AbortHandshakeKeepsBase, CloseSocketKeepsBase
  <2>3. CASE \E m \in Message : Ingest(c, m)
    BY <2>3, RecordRejectedKeepsBase, RecordConflictedKeepsBase,
       PersistDuplicateKeepsBase, PersistAcceptedKeepsBase DEF Ingest
  <2>4. CASE RefuseDelivery(c) \/ IngestFails(c) \/ SendReply(c) \/ ReplyFails(c)
    BY <2>4, RefuseDeliveryKeepsBase, IngestFailsKeepsBase, SendReplyKeepsBase,
       ReplyFailsKeepsBase
  <2>5. CASE MarkReplySent(c) \/ MarkFails(c)
    BY <2>5, MarkReplySentKeepsBase, MarkFailsKeepsBase
  <2>6. CASE ProcessEvent(c) \/ ProcessFails(c) \/ BroadcastEnds(c)
    BY <2>6, ProcessEventKeepsBase, ProcessFailsKeepsBase, BroadcastEndsKeepsBase
  <2> QED
    BY <1>3, <2>1, <2>2, <2>3, <2>4, <2>5, <2>6 DEF Handler
<1>4. CASE Crash \/ Start \/ Serve
  BY <1>4, CrashKeepsBase, StartKeepsBase
<1>5. CASE \E e \in Event : Recovery(e)
  BY <1>5, RecoveryKeepsBase
<1>6. CASE UNCHANGED vars
  <2> USE <1>6 DEF vars, database, handlers, bounds
  <2>1. TypeOK'
    BY DEF BaseInv, TypeOK
  <2>2. Binding' /\ Phases' /\ PendingReplies' /\ CanonicalFromManifest'
    BY DatabaseUnchanged DEF BaseInv, Binding, Phases, PendingReplies
  <2> QED
    BY <2>1, <2>2 DEF BaseInv
<1> QED
  BY <1>1, <1>2, <1>3, <1>4, <1>5, <1>6 DEF Next

\* The source side never leaves the inductive invariant: handlers are bound to runs
\* that exist, a pending reply is true of the tables, canonical rows come from the
\* manifest, and recovery works on stored events (ingest_socket, IngestService,
\* Repository).
THEOREM BaseInvariant == Spec => []BaseInv
BY BaseInit, BaseNext, PTL DEF Spec

\* Type correctness: whatever the interleaving of handlers, crashes and recovery, every
\* table and every handler holds only values of its kind.
THEOREM TypeCorrect == Spec => []TypeOK
BY BaseInvariant, PTL DEF BaseInv

\* Every canonical row is an unaltered event of its run's manifest.
THEOREM CanonicalRowsAreRegistered == Spec => []CanonicalFromManifest
BY BaseInvariant, PTL DEF BaseInv

=============================================================================
