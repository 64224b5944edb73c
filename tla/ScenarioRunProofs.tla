-------------------------- MODULE ScenarioRunProofs --------------------------
(***************************************************************************)
(* Theorems about a run from creation to verdict, for every plan, number   *)
(* of sockets and bound: the composition keeps the specification of the    *)
(* server, what the client counts as acknowledged is stored, a reply that  *)
(* can be read answers the payload under way, rows arrive in the planned   *)
(* order, and a completed run is one that its client has reconciled.       *)
(***************************************************************************)
EXTENDS ScenarioRun, IngestionSafety

\* What carries the server's theorems over to the client: the runner alone creates a
\* run, and it counts only events that are stored.
ClientInv ==
  /\ SafetyInv
  /\ \A r \in Run \ {TheRun} : runs[r] = "absent"
  /\ acked \subseteq Stored

-----------------------------------------------------------------------------
(* Every step is a step of Ingestion or leaves the server alone *)

LEMMA HandlerSteps ==
  ASSUME NEW c \in Conn,
         Receive(c) \/ ServeHandshake(c) \/ EndSocket(c) \/ Answer(c) \/ Settle(c)
  PROVE  Handler(c)
<1>1. CASE Receive(c)
  BY <1>1 DEF Receive, Server, Handler
<1>2. CASE ServeHandshake(c)
  BY <1>2 DEF ServeHandshake, Server, Handler
<1>3. CASE EndSocket(c)
  BY <1>3 DEF EndSocket, Server, Handler
<1>4. CASE Answer(c)
  BY <1>4 DEF Answer, Server, Handler
<1>5. CASE Settle(c)
  BY <1>5 DEF Settle, Server, Handler
<1> QED
  BY <1>1, <1>2, <1>3, <1>4, <1>5

LEMMA ServerSteps == ServerStep => Next
<1> SUFFICES ASSUME ServerStep PROVE Next
  OBVIOUS
<1>1. CASE \E c \in Conn : \/ Receive(c) \/ ServeHandshake(c) \/ EndSocket(c)
                           \/ Answer(c) \/ Settle(c)
  BY <1>1, HandlerSteps DEF Next
<1>2. CASE CrashServer
  BY <1>2 DEF CrashServer, Server, Next
<1>3. CASE RestartServer
  BY <1>3 DEF RestartServer, Server, Next
<1> QED
  BY <1>1, <1>2, <1>3 DEF ServerStep

\* The runner creates its run, opens its sockets and completes its run; its other
\* steps, and those of the environment, only read the server's state.
LEMMA RunnerSteps ==
  ASSUME RunnerStep \/ Environment
  PROVE  \/ CreateRun(TheRun)
         \/ \E c \in Conn : OpenSocket(c, TheRun)
         \/ CompleteRun(TheRun, Cardinality(acked))
         \/ UNCHANGED vars
<1>1. CASE CreateScenarioRun
  BY <1>1 DEF CreateScenarioRun, Server
<1>2. CASE Dial
  BY <1>2 DEF Dial, Server
<1>3. CASE CompleteScenarioRun
  BY <1>3 DEF CompleteScenarioRun
<1>4. CASE OverlaySeen \/ RequestFails \/ Connected \/ ConnectRefused
  BY <1>4 DEF OverlaySeen, RequestFails, Connected, ConnectRefused, ServerRests
<1>5. CASE NextSequence \/ EndDeliveries \/ SendAndAwait \/ SendUnread \/ SendRaises
  BY <1>5 DEF NextSequence, EndDeliveries, SendAndAwait, SendUnread, SendRaises, ServerRests
<1>6. CASE ReadReply \/ ExchangeFails \/ AcceptanceSeen
  BY <1>6 DEF ReadReply, ExchangeFails, AcceptanceSeen, ServerRests
<1>7. CASE RecordReconnected \/ RecordDelay \/ ForceDisconnect \/ RecordRecovery
  BY <1>7 DEF RecordReconnected, RecordDelay, ForceDisconnect, RecordRecovery, Mark,
              RecordMarker
<1>8. CASE Environment
  BY <1>8 DEF Environment, OpenOverlay, RenderEvent, ServerRests
<1> QED
  BY <1>1, <1>2, <1>3, <1>4, <1>5, <1>6, <1>7, <1>8 DEF RunnerStep

\* The events of the run are registered with it, so their number is in range.
LEMMA StoredEvents ==
  ASSUME ClientInv
  PROVE  /\ \A e \in Stored : /\ events[e].run = TheRun
                              /\ events[e].content = "manifest"
                              /\ e \in Manifest[TheRun]
         /\ Cardinality(acked) \in 0 .. Cardinality(Manifest[TheRun])
<1>1. BaseInv
  BY DEF ClientInv, SafetyInv
<1>2. ASSUME NEW e \in Stored
      PROVE  events[e].run = TheRun /\ events[e].content = "manifest" /\ e \in Manifest[TheRun]
  <2>1. e \in Registered(events[e].run) /\ events[e].content = "manifest"
    BY <1>1 DEF BaseInv, CanonicalFromManifest
  <2>2. events[e].run \in Run
    BY <1>1, StoredRows DEF BaseInv, Rows
  <2> QED
    BY <2>1, <2>2 DEF ClientInv, Registered
<1>3. Manifest[TheRun] \in SUBSET Event
  BY ManifestAssumption, RunnerAssumption
<1>4. IsFiniteSet(Manifest[TheRun])
  BY <1>3, FiniteAssumption, FS_Subset
<1>5. acked \subseteq Manifest[TheRun]
  BY <1>2 DEF ClientInv
<1>6. /\ Cardinality(acked) \in Nat /\ Cardinality(Manifest[TheRun]) \in Nat
      /\ Cardinality(acked) <= Cardinality(Manifest[TheRun])
  BY <1>4, <1>5, FS_Subset, FS_CardinalityType
<1> QED
  BY <1>2, <1>6

LEMMA ComposedStep ==
  ASSUME ClientInv, [RunNext]_allVars
  PROVE  [Next]_vars
<1>1. CASE ServerStep
  BY <1>1, ServerSteps
<1>2. CASE RunnerStep \/ Environment
  BY <1>2, RunnerSteps, StoredEvents, RunnerAssumption DEF Next, Handler
<1>3. CASE UNCHANGED allVars
  BY <1>3 DEF allVars
<1> QED
  BY <1>1, <1>2, <1>3 DEF RunNext
-----------------------------------------------------------------------------
(* What the client counts is stored *)

LEMMA ClientInit == RunInit => ClientInv
<1> SUFFICES ASSUME RunInit PROVE ClientInv
  OBVIOUS
<1>1. SafetyInv
  BY SafetyInit DEF RunInit
<1> QED
  BY <1>1 DEF RunInit, Init, ClientInv

\* A reply that can be read is a true one: it was sent, or its handler is sending it.
LEMMA ReadRepliesAreTrue ==
  ASSUME ClientInv, NEW c, NEW rep \in Unread(c)
  PROVE  MayProcess(rep.status) => rep.event \in Stored
<1>1. RepliesAreDurable /\ PendingReplies
  BY DEF ClientInv, SafetyInv, BaseInv
<1>2. Durable(rep)
  BY <1>1 DEF Unread, RepliesAreDurable, PendingReplies
<1> QED
  BY <1>2 DEF Durable

\* Only a reply that was read adds to what the client counts.
LEMMA AckedGrows ==
  ASSUME [RunNext]_allVars
  PROVE  acked' = acked \/ \E rep \in Unread(socket) : Observe(rep)
<1>1. CASE ServerStep
  BY <1>1 DEF ServerStep, Receive, ServeHandshake, EndSocket, Answer, Settle, CrashServer,
              RestartServer, RunnerRests, counted
<1>2. CASE Environment
  BY <1>2 DEF Environment, runnerVars, counted
<1>3. CASE ReadReply
  BY <1>3 DEF ReadReply
<1>4. CASE CreateScenarioRun \/ OverlaySeen \/ CompleteScenarioRun \/ RequestFails
  BY <1>4 DEF CreateScenarioRun, OverlaySeen, CompleteScenarioRun, RequestFails, counted
<1>5. CASE Dial \/ Connected \/ ConnectRefused \/ NextSequence \/ EndDeliveries
  BY <1>5 DEF Dial, Connected, ConnectRefused, NextSequence, EndDeliveries, counted
<1>6. CASE RecordReconnected \/ RecordDelay \/ ForceDisconnect \/ RecordRecovery
  BY <1>6 DEF RecordReconnected, RecordDelay, ForceDisconnect, RecordRecovery, Mark, counted
<1>7. CASE SendAndAwait \/ ExchangeFails \/ SendUnread \/ SendRaises \/ AcceptanceSeen
  BY <1>7 DEF SendAndAwait, ExchangeFails, SendUnread, SendRaises, AcceptanceSeen, counted
<1>8. CASE UNCHANGED allVars
  BY <1>8 DEF allVars, runnerVars, counted
<1> QED
  BY <1>1, <1>2, <1>3, <1>4, <1>5, <1>6, <1>7, <1>8 DEF RunNext, RunnerStep

LEMMA AckedStaysStored ==
  ASSUME ClientInv, [RunNext]_allVars
  PROVE  acked' \subseteq Stored'
<1>1. Stored \subseteq Stored'
  BY ComposedStep, TablesGrow DEF ClientInv, SafetyInv, BaseInv
<1>2. ASSUME NEW rep \in Unread(socket), Observe(rep)
      PROVE  acked' \subseteq Stored
  BY <1>2, ReadRepliesAreTrue DEF Observe, ClientInv
<1> QED
  BY <1>1, <1>2, AckedGrows DEF ClientInv

\* A handler leaves the runs' status to the requests.
LEMMA HandlerKeepsRuns ==
  ASSUME NEW c \in Conn, Handler(c)
  PROVE  runs' = runs
<1>1. CASE \E m \in Message : Ingest(c, m)
  BY <1>1 DEF Ingest, RecordRejected, RecordConflicted, PersistDuplicate, PersistAccepted
<1>2. CASE RefuseDelivery(c) \/ IngestFails(c) \/ SendReply(c) \/ ReplyFails(c)
  BY <1>2 DEF RefuseDelivery, IngestFails, SendReply, ReplyFails, EndHandler, database
<1>3. CASE MarkReplySent(c) \/ MarkFails(c) \/ ProcessEvent(c) \/ ProcessFails(c) \/ BroadcastEnds(c)
  BY <1>3 DEF MarkReplySent, MarkFails, ProcessEvent, ProcessFails, BroadcastEnds, database
<1>4. CASE AcceptSocket(c) \/ AbortHandshake(c) \/ CloseSocket(c) \/ \E r \in Run : OpenSocket(c, r)
  BY <1>4 DEF AcceptSocket, AbortHandshake, CloseSocket, EndHandler, OpenSocket, database
<1> QED
  BY <1>1, <1>2, <1>3, <1>4 DEF Handler

\* No step but the runner's own request creates a run.
LEMMA OthersStayAbsent ==
  ASSUME ClientInv, [RunNext]_allVars, NEW r \in Run \ {TheRun}
  PROVE  runs'[r] = "absent"
<1>1. runs[r] = "absent" /\ runs \in [Run -> {"absent", "running", "completed"}]
  BY DEF ClientInv, SafetyInv, BaseInv, TypeOK
<1>2. CASE ServerStep
  <2>1. runs' = runs
    <3>1. CASE \E c \in Conn : Handler(c)
      BY <3>1, HandlerKeepsRuns
    <3>2. CASE CrashServer \/ RestartServer
      BY <3>2 DEF CrashServer, RestartServer, Server, Crash, Start, Recovery, RecoverEvent,
                  RecoverFails, Serve, database
    <3> QED
      BY <1>2, <3>1, <3>2, HandlerSteps DEF ServerStep
  <2> QED
    BY <1>1, <2>1
<1>3. CASE RunnerStep \/ Environment
  BY <1>1, <1>3, RunnerSteps DEF CreateRun, OpenSocket, CompleteRun, vars, database
<1>4. CASE UNCHANGED allVars
  BY <1>1, <1>4 DEF allVars, vars, database
<1> QED
  BY <1>2, <1>3, <1>4 DEF RunNext

LEMMA ClientNext == ClientInv /\ [RunNext]_allVars => ClientInv'
<1> SUFFICES ASSUME ClientInv, [RunNext]_allVars PROVE ClientInv'
  OBVIOUS
<1>1. SafetyInv'
  BY ComposedStep, SafetyNext DEF ClientInv
<1> QED
  BY <1>1, AckedStaysStored, OthersStayAbsent DEF ClientInv

\* In every state the runner counts only stored events of its own run.
THEOREM ClientInvariant == RunSpec => []ClientInv
BY ClientInit, ClientNext, PTL DEF RunSpec

\* The composition takes steps of Ingestion only, so that every theorem about
\* Ingestion holds for the server of a run too.
THEOREM CompositionKeepsIngestion == RunSpec => ServerRefines
<1>1. RunInit => Init
  BY DEF RunInit
<1>2. ClientInv /\ [RunNext]_allVars => [Next]_vars
  BY ComposedStep
<1> QED
  BY <1>1, <1>2, ClientInvariant, PTL DEF RunSpec, ServerRefines, Spec

\* End to end: what the client was told is what the database holds.
THEOREM AcknowledgedIsStored == RunSpec => []AckedIsStored
<1>1. ClientInv => AckedIsStored
  BY StoredEvents DEF ClientInv, AckedIsStored, Stored
<1> QED
  BY <1>1, ClientInvariant, PTL
-----------------------------------------------------------------------------
(* Types of the evidence and of the runner *)

\* A connection row is written by a handler that is bound to a run, as its last row.
LEMMA RowsOfSockets ==
  ASSUME BaseInv, [Next]_vars, NEW c \in Conn, evidence'[c] # evidence[c]
  PROVE  bound'[c] \in Run /\ Last(evidence'[c]) \in ServerKinds
<1>1. TypeOK /\ Binding
  BY DEF BaseInv
<1>2. evidence \in [Conn -> Seq({"connected", "disconnected"})]
  BY <1>1 DEF TypeOK
<1>3. ASSUME NEW d \in Conn, pc[d] \notin {"idle", "closed"}, bound' = bound,
             NEW kind \in ServerKinds, evidence' = [evidence EXCEPT ![d] = Append(@, kind)]
      PROVE  bound'[c] \in Run /\ Last(evidence'[c]) \in ServerKinds
  <2>1. c = d /\ evidence'[c] = Append(evidence[c], kind)
    BY <1>2, <1>3
  <2>2. Last(evidence'[c]) = kind
    BY <1>2, <2>1 DEF Last, ServerKinds
  <2> QED
    BY <1>1, <1>3, <2>1, <2>2 DEF Binding
<1>4. CASE \E d \in Conn : Handler(d)
  <2>1. PICK d \in Conn : Handler(d)
    BY <1>4
  <2>2. CASE \E m \in Message : Ingest(d, m)
    BY <2>2 DEF Ingest, RecordRejected, RecordConflicted, PersistDuplicate, PersistAccepted
  <2>3. CASE RefuseDelivery(d) \/ IngestFails(d) \/ SendReply(d)
    BY <2>3 DEF RefuseDelivery, IngestFails, SendReply, database
  <2>4. CASE MarkReplySent(d) \/ MarkFails(d) \/ ProcessEvent(d) \/ ProcessFails(d) \/ BroadcastEnds(d)
    BY <2>4 DEF MarkReplySent, MarkFails, ProcessEvent, ProcessFails, BroadcastEnds, database
  <2>5. CASE AbortHandshake(d) \/ \E r \in Run : OpenSocket(d, r)
    BY <2>5 DEF AbortHandshake, OpenSocket, database
  <2>6. CASE AcceptSocket(d)
    BY <1>3, <2>6 DEF AcceptSocket, ServerKinds
  <2>7. CASE CloseSocket(d) \/ ReplyFails(d)
    BY <1>3, <2>7 DEF CloseSocket, ReplyFails, EndHandler, ServerKinds
  <2> QED
    BY <2>1, <2>2, <2>3, <2>4, <2>5, <2>6, <2>7 DEF Handler
<1>5. CASE ~ \E d \in Conn : Handler(d)
  BY <1>5 DEF Next, CreateRun, CompleteRun, Crash, Start, Recovery, RecoverEvent, RecoverFails,
              Serve, vars, database
<1> QED
  BY <1>4, <1>5

ServerEntries == [kind : ServerKinds \cup AttemptKinds, run : Run, conn : Conn, of : Nat]

LEMMA StampsAreEntries ==
  ASSUME BaseInv, [Next]_vars
  PROVE  Stamps \subseteq ServerEntries
<1>1. TypeOK /\ TypeOK'
  BY BaseNext DEF BaseInv
<1>2. ASSUME NEW i \in Positions'
      PROVE  Entry("received", attempts'[i].run, attempts'[i].conn, i) \in ServerEntries
  <2>1. attempts'[i] \in Attempts /\ i \in Nat
    BY <1>1 DEF TypeOK, Positions
  <2> QED
    BY <2>1 DEF Attempts, Entry, ServerEntries, AttemptKinds
<1>3. ASSUME NEW i \in Positions
      PROVE  Entry("answered", attempts[i].run, attempts[i].conn, i) \in ServerEntries
  <2>1. attempts[i] \in Attempts /\ i \in Nat
    BY <1>1 DEF TypeOK, Positions
  <2> QED
    BY <2>1 DEF Attempts, Entry, ServerEntries, AttemptKinds
<1>4. ASSUME NEW c \in Conn, evidence'[c] # evidence[c]
      PROVE  Entry(Last(evidence'[c]), bound'[c], c, 0) \in ServerEntries
  BY <1>4, RowsOfSockets DEF Entry, ServerEntries
<1> QED
  BY <1>2, <1>3, <1>4 DEF Stamps
EvidenceType ==
  /\ config \in [Run -> Plan]
  /\ retries \in [Run -> Nat]
  /\ timeline \in Seq(Entries)
  /\ overlays \subseteq Run /\ rendered \subseteq Event

\* Away from its requests the runner has a socket; with a delivery under way it has an
\* event; and it forces one reconnect, because the order names the target once.
Located ==
  /\ at \in {"handshaking", "reconnected", "next", "delaying", "sending", "awaiting",
             "polling", "forcing", "recovering"} => socket \in Conn
  /\ at \in {"reconnected", "delaying", "sending", "awaiting", "polling", "forcing",
             "recovering"} => position >= 1
  /\ at \in {"polling", "forcing"} => leg = "planned" /\ Current = plan.disconnect
  /\ forcedReconnects = 1 =>
       \E i \in 1 .. position :
         /\ plan.order[i] = plan.disconnect
         /\ i < position \/ leg # "planned"

Typing == RunTypeOK /\ Located

LEMMA PlanFacts ==
  ASSUME RunTypeOK
  PROVE  /\ plan \in Plan
         /\ plan.order \in Seq(Event)
         /\ \A i, j \in 1 .. Len(plan.order) : plan.order[i] = plan.order[j] => i = j
         /\ position >= 1 => /\ Current \in Event /\ Current \in Nat
                            /\ Payload \in Message
<1>1. plan \in Plan
  BY RunnerAssumption DEF RunTypeOK, plan
<1>2. /\ plan \in [invalid : SUBSET Event, duplicate : SUBSET Event, delayed : SUBSET Event,
                  disconnect : Event \cup {None}, order : Seq(Event)]
      /\ \A i, j \in DOMAIN plan.order : plan.order[i] = plan.order[j] => i = j
  BY <1>1, PlanAssumption
<1>3. plan.order \in Seq(Event)
  BY <1>2
<1>4. ASSUME position >= 1
      PROVE  Current \in Event /\ Current \in Nat /\ Payload \in Message
  <2>1. position \in 1 .. Len(plan.order)
    BY <1>3, <1>4 DEF RunTypeOK
  <2>2. Current \in Event /\ Current \in Range(plan.order)
    BY <1>3, <2>1 DEF Current, Range
  <2>3. Current \in Manifest[TheRun]
    BY <1>1, <2>2, RunnerAssumption
  <2>4. Payload \in Message
    BY <2>3, PayloadAssumption DEF Payload
  <2> QED
    BY <2>2, <2>4, SequenceAssumption
<1> QED
  BY <1>1, <1>2, <1>3, <1>4

\* A marker names the runner's socket and, but for a reconnect, its current event.
LEMMA MarkersAreEntries ==
  ASSUME Typing, NEW kind \in SubmittedKinds, NEW of \in Nat, socket \in Conn,
         RecordMarker(kind, TheRun, socket, of)
  PROVE  timeline' \in Seq(Entries)
<1>1. Entry(kind, TheRun, socket, of) \in Entries
  BY RunnerAssumption DEF Entry, Entries
<1> QED
  BY <1>1 DEF RecordMarker, Typing, RunTypeOK

LEMMA ServerKeepsEvidenceType ==
  ASSUME Typing, ClientInv, [Next]_vars, Stamp,
         UNCHANGED <<config, retries, overlays, rendered>>
  PROVE  EvidenceType'
<1>1. Stamps \subseteq Entries
  BY StampsAreEntries DEF ClientInv, SafetyInv, ServerEntries, Entries
<1>2. timeline' \in Seq(Entries)
  <2>1. timeline \in Seq(Entries)
    BY DEF Typing, RunTypeOK
  <2>2. CASE Stamps = {}
    BY <2>1, <2>2 DEF Stamp
  <2>3. CASE Stamps # {}
    <3>1. PICK entry \in Stamps : timeline' = Append(timeline, entry)
      BY <2>3 DEF Stamp
    <3>2. entry \in Entries
      BY <1>1, <3>1
    <3> QED
      BY <2>1, <3>1, <3>2
  <2> QED
    BY <2>2, <2>3
<1> QED
  BY <1>2 DEF Typing, RunTypeOK, EvidenceType

LEMMA ServerStamps ==
  ASSUME ServerStep \/ CreateScenarioRun \/ Dial
  PROVE  Stamp /\ UNCHANGED <<config, retries, overlays, rendered>>
<1>1. ASSUME NEW c \in Conn,
             Receive(c) \/ ServeHandshake(c) \/ EndSocket(c) \/ Answer(c) \/ Settle(c)
      PROVE  Stamp /\ UNCHANGED <<config, retries, overlays, rendered>>
  BY <1>1 DEF Receive, ServeHandshake, EndSocket, Answer, Settle, Server
<1>2. CASE CrashServer \/ RestartServer
  BY <1>2 DEF CrashServer, RestartServer, Server
<1>3. CASE CreateScenarioRun \/ Dial
  BY <1>3 DEF CreateScenarioRun, Dial, Server
<1> QED
  BY <1>1, <1>2, <1>3 DEF ServerStep

LEMMA EvidenceTypeNext ==
  ASSUME Typing, ClientInv, [RunNext]_allVars
  PROVE  EvidenceType'
<1>1. CASE ServerStep \/ CreateScenarioRun \/ Dial
  BY <1>1, ServerStamps, ServerKeepsEvidenceType, ComposedStep
<1>2. CASE RecordReconnected \/ RecordDelay \/ ForceDisconnect \/ RecordRecovery
  <2>1. position >= 1 => Current \in Nat
    BY PlanFacts DEF Typing
  <2>2. timeline' \in Seq(Entries)
    BY <1>2, <2>1, MarkersAreEntries
    DEF RecordReconnected, RecordDelay, ForceDisconnect, RecordRecovery, Mark, Typing, Located,
        SubmittedKinds
  <2>3. UNCHANGED <<config, retries, overlays, rendered>>
    BY <1>2 DEF RecordReconnected, RecordDelay, ForceDisconnect, RecordRecovery, Mark, RecordMarker
  <2> QED
    BY <2>2, <2>3 DEF Typing, RunTypeOK, EvidenceType
<1>3. CASE CompleteScenarioRun
  <2>1. retryCount \in Nat /\ retries \in [Run -> Nat]
    BY DEF Typing, RunTypeOK
  <2>2. retries' \in [Run -> Nat] /\ UNCHANGED <<config, timeline, overlays, rendered>>
    BY <1>3, <2>1 DEF CompleteScenarioRun
  <2> QED
    BY <2>2 DEF Typing, RunTypeOK, EvidenceType
<1>4. CASE Environment
  <2>1. CASE OpenOverlay(TheRun)
    BY <2>1, RunnerAssumption DEF OpenOverlay, Typing, RunTypeOK, EvidenceType
  <2>2. CASE \E e \in Event \ rendered : RenderEvent(e)
    BY <2>2 DEF RenderEvent, Typing, RunTypeOK, EvidenceType
  <2>3. CASE ServerRests
    BY <2>3 DEF ServerRests, verdictVars, Typing, RunTypeOK, EvidenceType
  <2> QED
    BY <1>4, <2>1, <2>2, <2>3 DEF Environment
<1>5. CASE ServerRests
  BY <1>5 DEF ServerRests, verdictVars, Typing, RunTypeOK, EvidenceType
<1>6. CASE UNCHANGED allVars
  BY <1>6 DEF allVars, verdictVars, Typing, RunTypeOK, EvidenceType
<1>7. CASE OverlaySeen \/ RequestFails \/ Connected \/ ConnectRefused \/ NextSequence
           \/ EndDeliveries \/ SendAndAwait \/ ReadReply \/ ExchangeFails \/ SendUnread
           \/ SendRaises \/ AcceptanceSeen
  BY <1>5, <1>7 DEF OverlaySeen, RequestFails, Connected, ConnectRefused, NextSequence,
    EndDeliveries, SendAndAwait, ReadReply, ExchangeFails, SendUnread, SendRaises, AcceptanceSeen
<1> QED
  BY <1>1, <1>2, <1>3, <1>4, <1>6, <1>7 DEF RunNext, RunnerStep
RunnerType ==
  /\ at \in Stops /\ leg \in Legs
  /\ position \in 0 .. Len(plan.order)
  /\ try \in 0 .. MaxTries /\ (at # "failed" => try < MaxTries)
  /\ socket \in Conn \cup {0}
  /\ peer \in [Conn -> {"none", "open", "broken", "closed"}]
  /\ wire \in [Conn -> Message \cup {NoMessage}]
  /\ confirmed \subseteq Event
  /\ refusals \in [{"rejected", "conflict"} -> Nat]
  /\ retryCount \in Nat /\ forcedReconnects \in {0, 1}
  /\ losses \in 0 .. MaxLosses /\ expiries \in 0 .. MaxExpiries

LEMMA ConfigStays ==
  ASSUME [RunNext]_allVars
  PROVE  config' = config
<1>1. CASE ServerStep \/ CreateScenarioRun \/ Dial
  BY <1>1, ServerStamps
<1>2. CASE RecordReconnected \/ RecordDelay \/ ForceDisconnect \/ RecordRecovery
  BY <1>2 DEF RecordReconnected, RecordDelay, ForceDisconnect, RecordRecovery, Mark, RecordMarker
<1>3. CASE CompleteScenarioRun
  BY <1>3 DEF CompleteScenarioRun
<1>4. CASE Environment
  BY <1>4 DEF Environment, OpenOverlay, RenderEvent, ServerRests, verdictVars
<1>5. CASE UNCHANGED allVars
  BY <1>5 DEF allVars, verdictVars
<1>6. CASE OverlaySeen \/ RequestFails \/ Connected \/ ConnectRefused \/ NextSequence
           \/ EndDeliveries \/ SendAndAwait \/ ReadReply \/ ExchangeFails \/ SendUnread
           \/ SendRaises \/ AcceptanceSeen
  BY <1>6 DEF OverlaySeen, RequestFails, Connected, ConnectRefused, NextSequence,
    EndDeliveries, SendAndAwait, ReadReply, ExchangeFails, SendUnread, SendRaises,
    AcceptanceSeen, ServerRests, verdictVars
<1> QED
  BY <1>1, <1>2, <1>3, <1>4, <1>5, <1>6 DEF RunNext, RunnerStep

\* While the runner rests, only the network and the server move.
LEMMA RunnerRestsType ==
  ASSUME Typing, config' = config, RunnerRests,
         peer' \in [Conn -> {"none", "open", "broken", "closed"}],
         wire' \in [Conn -> Message \cup {NoMessage}]
  PROVE  RunnerType' /\ Located'
<1>1. plan' = plan /\ Current' = Current
  BY DEF RunnerRests, plan, Current
<1> QED
  BY <1>1 DEF Typing, RunTypeOK, RunnerType, Located, RunnerRests, counted

LEMMA ServerStepType ==
  ASSUME Typing, config' = config, ServerStep
  PROVE  RunnerType' /\ Located'
<1>1. /\ peer \in [Conn -> {"none", "open", "broken", "closed"}]
      /\ wire \in [Conn -> Message \cup {NoMessage}]
  BY DEF Typing, RunTypeOK
<1>2. /\ RunnerRests
      /\ peer' \in [Conn -> {"none", "open", "broken", "closed"}]
      /\ wire' \in [Conn -> Message \cup {NoMessage}]
  <2>1. ASSUME NEW c \in Conn, Receive(c) \/ EndSocket(c)
        PROVE  RunnerRests /\ peer' = peer /\ wire' = [wire EXCEPT ![c] = NoMessage]
    BY <2>1 DEF Receive, EndSocket
  <2>2. ASSUME NEW c \in Conn, ServeHandshake(c) \/ Answer(c) \/ Settle(c)
        PROVE  RunnerRests /\ peer' = peer /\ wire' = wire
    BY <2>2 DEF ServeHandshake, Answer, Settle, Network
  <2>3. CASE CrashServer
    BY <1>1, <2>3 DEF CrashServer
  <2>4. CASE RestartServer
    BY <1>1, <2>4 DEF RestartServer, Network
  <2> QED
    BY <1>1, <2>1, <2>2, <2>3, <2>4 DEF ServerStep
<1> QED
  BY <1>2, RunnerRestsType

LEMMA EnvironmentType ==
  ASSUME Typing, config' = config, Environment
  PROVE  RunnerType' /\ Located'
<1>1. CASE UNCHANGED runnerVars
  BY <1>1, RunnerRestsType DEF runnerVars, RunnerRests, Typing, RunTypeOK
<1>2. CASE ~UNCHANGED runnerVars
  <2>1. PICK c \in Conn :
          /\ Lost
          /\ peer' = [peer EXCEPT ![c] = "broken"]
          /\ wire' \in {wire, [wire EXCEPT ![c] = NoMessage]}
          /\ UNCHANGED <<at, position, leg, try, socket, read, counted, expiries>>
    BY <1>2 DEF Environment
  <2>2. plan' = plan /\ Current' = Current
    BY <2>1 DEF plan, Current
  <2>3. losses' \in 0 .. MaxLosses
    BY <2>1, RunnerAssumption DEF Lost, Typing, RunTypeOK
  <2> QED
    BY <2>1, <2>2, <2>3 DEF Typing, RunTypeOK, RunnerType, Located, counted
<1> QED
  BY <1>1, <1>2
LEMMA RequestType ==
  ASSUME Typing, config' = config,
         CreateScenarioRun \/ OverlaySeen \/ CompleteScenarioRun \/ RequestFails
  PROVE  RunnerType' /\ Located'
<1>1. plan' = plan
  BY DEF plan
<1>2. CASE CreateScenarioRun \/ OverlaySeen
  BY <1>1, <1>2 DEF CreateScenarioRun, OverlaySeen, Proceed, Network, counted, Stops, Current,
    Typing, RunTypeOK, RunnerType, Located
<1>3. CASE CompleteScenarioRun
  BY <1>1, <1>3, RunnerAssumption, SMTT(30) DEF CompleteScenarioRun, Proceed, Network, counted, Stops,
    Current, Expired, Typing, RunTypeOK, RunnerType, Located
<1>4. CASE RequestFails
  <2>1. /\ at' = "failed" /\ peer' = IF socket = 0 THEN peer ELSE [peer EXCEPT ![socket] = "closed"]
        /\ UNCHANGED <<position, leg, try, socket, wire, read, counted, losses>>
        /\ Expired \/ UNCHANGED expiries
    BY <1>4 DEF RequestFails, Abort, Proceed, Close
  <2>2. RunTypeOK /\ Located
    BY DEF Typing
  <2>3. peer' \in [Conn -> {"none", "open", "broken", "closed"}]
    BY <2>1, <2>2 DEF RunTypeOK
  <2>4. expiries' \in 0 .. MaxExpiries
    BY <2>1, <2>2, RunnerAssumption DEF RunTypeOK, Expired
  <2>5. RunnerType'
    BY <1>1, <2>1, <2>2, <2>3, <2>4 DEF RunTypeOK, RunnerType, counted, Stops
  <2>6. Located'
    BY <1>1, <2>1, <2>2 DEF Located, Current, counted
  <2> QED
    BY <2>5, <2>6
<1> QED
  BY <1>2, <1>3, <1>4

LEMMA SocketType ==
  ASSUME Typing, config' = config, Dial \/ Connected \/ ConnectRefused
  PROVE  RunnerType' /\ Located'
<1>1. plan' = plan
  BY DEF plan
<1>2. CASE Dial
  BY <1>1, <1>2 DEF Dial, Proceed, Network, counted, Stops, Current,
    Typing, RunTypeOK, RunnerType, Located
<1>3. CASE Connected
  BY <1>1, <1>3 DEF Connected, Proceed, counted, Stops, Current,
    Typing, RunTypeOK, RunnerType, Located
<1>4. CASE ConnectRefused
  BY <1>1, <1>4 DEF ConnectRefused, Proceed, Abort, Close, counted, Stops, Current,
    Typing, RunTypeOK, RunnerType, Located
<1> QED
  BY <1>2, <1>3, <1>4

LEMMA DeliveryType ==
  ASSUME Typing, config' = config,
         NextSequence \/ EndDeliveries \/ SendAndAwait \/ SendUnread \/ SendRaises
  PROVE  RunnerType' /\ Located'
<1>1. plan' = plan
  BY DEF plan
<1>2. CASE NextSequence
  <2>1. position + 1 \in 0 .. Len(plan.order)
    BY <1>2, PlanFacts, SMTT(30) DEF NextSequence, Typing, RunTypeOK
  <2>2. /\ position' = position + 1 /\ leg' = "planned" /\ try' = 0
        /\ at' \in {"delaying", "sending"}
        /\ at = "next"
        /\ UNCHANGED <<socket, peer, wire, read, counted, losses, expiries>>
    BY <1>2 DEF NextSequence, Proceed, Network
  <2>3. RunnerType'
    BY <1>1, <2>1, <2>2, RunnerAssumption DEF counted, Stops, Legs, Typing, RunTypeOK, RunnerType
  <2>4. position \in Nat /\ socket \in Conn /\ forcedReconnects' = forcedReconnects
    BY <2>2, PlanFacts DEF counted, Typing, RunTypeOK, Located
  <2>5. ASSUME forcedReconnects = 1
        PROVE  \E i \in 1 .. position + 1 :
                 plan.order[i] = plan.disconnect /\ i < position + 1
    <3>1. PICK i \in 1 .. position : plan.order[i] = plan.disconnect
      BY <2>5 DEF Typing, Located
    <3> QED
      BY <2>4, <3>1
  <2>6. Located'
    BY <1>1, <2>2, <2>4, <2>5 DEF Located
  <2> QED
    BY <2>3, <2>6
<1>3. CASE EndDeliveries \/ SendRaises
  BY <1>1, <1>3 DEF EndDeliveries, SendRaises, Abort, Close, Proceed, counted, Stops, Current,
    Typing, RunTypeOK, RunnerType, Located
<1>4. CASE SendAndAwait \/ SendUnread
  <2>1. wire' \in [Conn -> Message \cup {NoMessage}]
    BY <1>4, PlanFacts DEF SendAndAwait, SendUnread, Transmit, Typing, RunTypeOK, Located
  <2> QED
    BY <1>1, <1>4, <2>1 DEF SendAndAwait, SendUnread, Proceed, counted, Stops, Current,
      Typing, RunTypeOK, RunnerType, Located
<1> QED
  BY <1>2, <1>3, <1>4

LEMMA MarkerType ==
  ASSUME Typing, config' = config,
         RecordReconnected \/ RecordDelay \/ AcceptanceSeen \/ ForceDisconnect \/ RecordRecovery
  PROVE  RunnerType' /\ Located'
<1>1. plan' = plan
  BY DEF plan
<1>2. CASE RecordReconnected \/ RecordDelay
  BY <1>1, <1>2 DEF RecordReconnected, RecordDelay, Mark, Proceed, Network, counted, Stops,
    Current, Typing, RunTypeOK, RunnerType, Located
<1>3. CASE AcceptanceSeen
  BY <1>1, <1>3 DEF AcceptanceSeen, Proceed, Network, counted, Stops, Current,
    Typing, RunTypeOK, RunnerType, Located
<1>4. CASE ForceDisconnect
  <2>1. position \in 1 .. Len(plan.order) /\ leg = "planned" /\ plan.order[position] = plan.disconnect
    BY <1>4 DEF ForceDisconnect, Typing, RunTypeOK, Located, Current
  <2>2. forcedReconnects = 0
    BY <2>1, PlanFacts, SMTT(30) DEF Typing, RunTypeOK, Located
  <2>3. peer' \in [Conn -> {"none", "open", "broken", "closed"}]
    BY <1>4 DEF ForceDisconnect, Close, Typing, RunTypeOK
  <2>4. forcedReconnects' = 1 /\ retryCount' \in Nat /\ leg' = "retried"
    BY <1>4, <2>2 DEF ForceDisconnect, Typing, RunTypeOK
  <2> QED
    BY <1>1, <1>4, <2>1, <2>3, <2>4 DEF ForceDisconnect, Proceed, Stops, Legs, Current,
      Typing, RunTypeOK, RunnerType, Located
<1>5. CASE RecordRecovery
  BY <1>1, <1>5, RunnerAssumption DEF RecordRecovery, FollowUp, Proceed, Network, counted, Stops,
    Legs, Current, Typing, RunTypeOK, RunnerType, Located
<1> QED
  BY <1>2, <1>3, <1>4, <1>5

LEMMA ExchangeType ==
  ASSUME Typing, config' = config, ReadReply \/ ExchangeFails
  PROVE  RunnerType' /\ Located'
<1>1. plan' = plan
  BY DEF plan
<1>2. CASE ReadReply
  <2>1. PICK rep \in Unread(socket) : Observe(rep) /\ Continue(rep)
    BY <1>2 DEF ReadReply
  <2>2. refusals' \in [{"rejected", "conflict"} -> Nat]
    BY <2>1 DEF Observe, Typing, RunTypeOK
  <2>3. confirmed' \subseteq Event
    BY <1>2, <2>1, PlanFacts DEF ReadReply, Continue, Typing, RunTypeOK, Located
  <2>4. /\ at' \in {"recovering", "sending", "next"}
        /\ leg' = leg \/ leg' = "duplicate"
        /\ try' = try \/ try' = 0
    BY <2>1 DEF Continue, FollowUp, Proceed
  <2> QED
    BY <1>1, <1>2, <2>2, <2>3, <2>4, RunnerAssumption, SMTT(30) DEF ReadReply, Network, Stops, Legs, Current,
      Typing, RunTypeOK, RunnerType, Located
<1>3. CASE ExchangeFails
  <2>1. losses' \in 0 .. MaxLosses
    BY <1>3, RunnerAssumption DEF ExchangeFails, Lost, Typing, RunTypeOK
  <2>2. try' \in 0 .. MaxTries /\ (at' # "failed" => try' < MaxTries)
    BY <1>3, RunnerAssumption DEF ExchangeFails, Proceed, Typing, RunTypeOK
  <2>3. peer' \in [Conn -> {"none", "open", "broken", "closed"}]
    BY <1>3 DEF ExchangeFails, Close, Typing, RunTypeOK
  <2>4. at' \in {"failed", "dialing"} /\ retryCount' \in Nat
    BY <1>3 DEF ExchangeFails, Proceed, Typing, RunTypeOK
  <2> QED
    BY <1>1, <1>3, <2>1, <2>2, <2>3, <2>4 DEF ExchangeFails, Stops, Current,
      Typing, RunTypeOK, RunnerType, Located
<1> QED
  BY <1>2, <1>3
LEMMA ReadAttempts ==
  ASSUME Typing, ClientInv, [RunNext]_allVars
  PROVE  read' \subseteq Positions'
<1>1. read \subseteq Positions /\ Positions \subseteq Positions'
  BY ComposedStep, EvidenceStep DEF Typing, RunTypeOK, ClientInv, SafetyInv
<1>2. CASE ServerStep
  BY <1>1, <1>2 DEF ServerStep, Receive, ServeHandshake, EndSocket, Answer, Settle, CrashServer,
                    RestartServer, RunnerRests
<1>3. CASE Environment
  BY <1>1, <1>3 DEF Environment, runnerVars
<1>4. CASE ReadReply
  BY <1>1, <1>4 DEF ReadReply, Unread
<1>5. CASE CreateScenarioRun \/ OverlaySeen \/ CompleteScenarioRun \/ RequestFails
  BY <1>1, <1>5 DEF CreateScenarioRun, OverlaySeen, CompleteScenarioRun, RequestFails
<1>6. CASE Dial \/ Connected \/ ConnectRefused \/ NextSequence \/ EndDeliveries
  BY <1>1, <1>6 DEF Dial, Connected, ConnectRefused, NextSequence, EndDeliveries
<1>7. CASE RecordReconnected \/ RecordDelay \/ ForceDisconnect \/ RecordRecovery
  BY <1>1, <1>7 DEF RecordReconnected, RecordDelay, ForceDisconnect, RecordRecovery, Mark
<1>8. CASE SendAndAwait \/ ExchangeFails \/ SendUnread \/ SendRaises \/ AcceptanceSeen
  BY <1>1, <1>8 DEF SendAndAwait, ExchangeFails, SendUnread, SendRaises, AcceptanceSeen
<1>9. CASE UNCHANGED allVars
  BY <1>1, <1>9 DEF allVars, runnerVars
<1> QED
  BY <1>2, <1>3, <1>4, <1>5, <1>6, <1>7, <1>8, <1>9, SMTT(30) DEF RunNext, RunnerStep

LEMMA TypingInit == RunInit => Typing
<1> SUFFICES ASSUME RunInit PROVE Typing
  OBVIOUS
<1>1. config \in [Run -> Plan] /\ plan.order \in Seq(Event)
  BY RunnerAssumption, PlanAssumption DEF RunInit, VerdictInit, plan
<1>2. Located
  BY DEF RunInit, Located
<1> QED
  BY <1>1, <1>2, RunnerAssumption DEF RunInit, VerdictInit, Typing, RunTypeOK, Stops, Legs

LEMMA TypingNext == ClientInv /\ Typing /\ [RunNext]_allVars => Typing'
<1> SUFFICES ASSUME ClientInv, Typing, [RunNext]_allVars PROVE Typing'
  OBVIOUS
<1>1. config' = config
  BY ConfigStays
<1>2. RunnerType' /\ Located'
  <2>1. CASE UNCHANGED allVars
    BY <2>1, RunnerRestsType DEF allVars, runnerVars, RunnerRests, verdictVars, Typing, RunTypeOK
  <2> QED
    BY <1>1, <2>1, ServerStepType, EnvironmentType, RequestType, SocketType, DeliveryType,
       MarkerType, ExchangeType DEF RunNext, RunnerStep
<1>3. acked' \subseteq Event
  BY AckedStaysStored DEF Stored
<1> QED
  BY <1>2, <1>3, EvidenceTypeNext, ReadAttempts DEF Typing, RunTypeOK, RunnerType, EvidenceType

\* The runner, its sockets and the evidence keep to their types; a run forces at most
\* one reconnect and gives a delivery no more than MaxTries exchanges.
THEOREM RunTypeCorrect == RunSpec => []RunTypeOK
<1>1. RunInit => ClientInv /\ Typing
  BY ClientInit, TypingInit
<1>2. ClientInv /\ Typing /\ [RunNext]_allVars => (ClientInv /\ Typing)'
  BY ClientNext, TypingNext
<1>3. Typing => RunTypeOK
  BY DEF Typing
<1> QED
  BY <1>1, <1>2, <1>3, PTL DEF RunSpec
-----------------------------------------------------------------------------
(* The exchange: what is on the runner's sockets, and what is stored of it *)

\* What the plan sends for an event; its duplicates are of valid events.
PayloadOf(e) ==
  IF e \in plan.invalid
  THEN IF Ordinal(e) % Mutations = Mutations - 1
       THEN [shape |-> "malformed", event |-> NoEvent, run |-> NoRun, content |-> "altered"]
       ELSE [shape |-> "invalid", event |-> e, run |-> TheRun, content |-> "altered"]
  ELSE [shape |-> "valid", event |-> e, run |-> TheRun, content |-> "manifest"]

ValidAt(p)   == plan.order[p] \notin plan.invalid
ValidUpTo(p) == {q \in 1 .. p : ValidAt(q)}

Completed == runs[TheRun] = "completed"

\* The event under way has all its deliveries, or at least its first, behind it.
Between  == at \in {"next", "recovering", "completing", "done"} \/ Completed
Passed   == IF Between THEN 1 .. position ELSE 1 .. position - 1
Answered == IF Between \/ leg = "duplicate" THEN 1 .. position ELSE 1 .. position - 1

\* Sockets are opened in turn, for this run only.
SocketsInTurn ==
  \A c \in Conn :
    /\ c > socket => pc[c] = "idle" /\ peer[c] = "none" /\ wire[c] = NoMessage
    /\ pc[c] # "idle" => bound[c] = TheRun

\* Whatever is still on its way was sent for an event of the order, current or earlier.
WiresFollowPlan ==
  \A c \in Conn : wire[c] # NoMessage =>
    \E p \in 1 .. position : wire[c] = PayloadOf(plan.order[p])

\* The reply to the payload under way; the duplicate of an answered event is one.
Answers(rep) ==
  /\ rep.event = ClaimedEvent(Payload)
  /\ Payload.shape = "valid" <=> MayProcess(rep.status)
  /\ rep.status # "conflict"
  /\ leg = "duplicate" => rep.status = "duplicate"

\* The runner's connection carries one exchange at a time: the message or its reply.
Exchanging  == at \in {"awaiting", "polling", "forcing"}
OneExchange ==
  /\ at = "handshaking" => peer[socket] = "none"
  /\ socket \in Conn /\ peer[socket] # "closed" =>
       /\ ~Exchanging => wire[socket] = NoMessage
       /\ wire[socket] # NoMessage \/ ~Exchanging => Unread(socket) = {}
       /\ at = "awaiting" => /\ wire[socket] \in {NoMessage, Payload}
                             /\ \A rep, other \in Unread(socket) : Answers(rep) /\ rep = other

\* Where each kind of delivery is under way; a run is completed last.
LegsFit ==
  /\ leg = "duplicate" => position >= 1 /\ Current \in plan.duplicate
  /\ leg = "retried" => position >= 1 /\ Current = plan.disconnect
  /\ at = "awaiting" /\ leg = "planned" => Current # plan.disconnect
  /\ at \in {"completing", "done"} \/ Completed => position = Len(plan.order)
  /\ Completed => at \in {"done", "failed"}

\* What is stored are valid events of the order up to the current one, what was
\* answered is acknowledged, and the arrival index counts the valid ones before.
StoreFollowsPlan ==
  /\ \A e \in Stored : \E p \in 1 .. position : e = plan.order[p] /\ ValidAt(p)
  /\ \A p \in Answered : ValidAt(p) => plan.order[p] \in acked
  /\ \A p \in 1 .. position : plan.order[p] \in Stored =>
       events[plan.order[p]].arrival = Cardinality(ValidUpTo(p))

\* The client's counters account for the positions it has passed.
CountersFollowPlan ==
  /\ refusals.conflict = 0
  /\ at # "failed" \/ Completed =>
       refusals.rejected = Cardinality({p \in Answered : ~ValidAt(p)})
  /\ \A p \in Passed : plan.order[p] \in plan.duplicate => plan.order[p] \in confirmed
  /\ leg = "retried" \/ (\E p \in Passed : plan.order[p] = plan.disconnect) =>
       retryCount >= 1 /\ forcedReconnects >= 1

ProtocolInv ==
  /\ ClientInv
  /\ Typing
  /\ SocketsInTurn
  /\ WiresFollowPlan
  /\ OneExchange
  /\ LegsFit
  /\ StoreFollowsPlan
  /\ CountersFollowPlan

\* What the plan of a run is, and what the order names at each position.
LEMMA OrderFacts ==
  ASSUME Typing
  PROVE  /\ plan.order \in Seq(Event) /\ Len(plan.order) \in Nat
         /\ position \in 0 .. Len(plan.order)
         /\ \A p \in 1 .. Len(plan.order) : /\ plan.order[p] \in Event
                                           /\ plan.order[p] \in Manifest[TheRun]
         /\ \A e \in Manifest[TheRun] : \E p \in 1 .. Len(plan.order) : plan.order[p] = e
         /\ \A p, q \in 1 .. Len(plan.order) : plan.order[p] = plan.order[q] => p = q
         /\ plan.invalid \subseteq Manifest[TheRun]
         /\ plan.duplicate \subseteq Manifest[TheRun]
         /\ plan.disconnect \in Manifest[TheRun] \cup {None}
         /\ plan.invalid \cap plan.duplicate = {}
         /\ plan.disconnect \notin plan.invalid /\ plan.disconnect \notin plan.duplicate
         /\ position >= 1 => position \in 1 .. Len(plan.order) /\ Current = plan.order[position]
<1>1. plan \in Plan /\ plan.order \in Seq(Event) /\ position \in 0 .. Len(plan.order)
  BY PlanFacts DEF Typing, RunTypeOK
<1>2. /\ Range(plan.order) = Manifest[TheRun]
      /\ plan.invalid \cup plan.duplicate \subseteq Manifest[TheRun]
      /\ plan.disconnect \in Manifest[TheRun] \cup {None}
  BY <1>1, RunnerAssumption
<1>3. /\ plan.invalid \cap (plan.duplicate \cup plan.delayed \cup {plan.disconnect}) = {}
      /\ plan.disconnect \notin plan.duplicate \cup plan.delayed
  BY <1>1, PlanAssumption
<1>4. /\ \A p \in 1 .. Len(plan.order) : plan.order[p] \in Range(plan.order)
      /\ \A e \in Range(plan.order) : \E p \in 1 .. Len(plan.order) : plan.order[p] = e
  BY <1>1 DEF Range
<1>5. \A p, q \in 1 .. Len(plan.order) : plan.order[p] = plan.order[q] => p = q
  BY PlanFacts DEF Typing
<1>6. Len(plan.order) \in Nat /\ \A p \in 1 .. Len(plan.order) : plan.order[p] \in Event
  BY <1>1
<1>7. position >= 1 => position \in 1 .. Len(plan.order) /\ Current = plan.order[position]
  BY <1>1, <1>6 DEF Current
<1>8. /\ \A p \in 1 .. Len(plan.order) : plan.order[p] \in Manifest[TheRun]
      /\ \A e \in Manifest[TheRun] : \E p \in 1 .. Len(plan.order) : plan.order[p] = e
  BY <1>2, <1>4
<1>9. /\ plan.invalid \subseteq Manifest[TheRun] /\ plan.duplicate \subseteq Manifest[TheRun]
      /\ plan.invalid \cap plan.duplicate = {}
      /\ plan.disconnect \notin plan.invalid /\ plan.disconnect \notin plan.duplicate
  BY <1>2, <1>3
<1> QED
  BY <1>1, <1>2, <1>5, <1>6, <1>7, <1>8, <1>9

\* The payload depends on the event only.
LEMMA PayloadOfCurrent ==
  ASSUME Typing, LegsFit, position >= 1
  PROVE  /\ Payload = PayloadOf(Current)
         /\ Payload.shape = "valid" <=> ValidAt(position)
         /\ leg = "duplicate" => ValidAt(position)
<1>1. leg = "duplicate" => Current \notin plan.invalid
  BY OrderFacts DEF LegsFit
<1>2. Payload = PayloadOf(Current)
  BY <1>1 DEF Payload, PayloadOf
<1>3. PayloadOf(Current).shape = "valid" <=> Current \notin plan.invalid
  BY DEF PayloadOf
<1> QED
  BY <1>1, <1>2, <1>3 DEF ValidAt, Current

-----------------------------------------------------------------------------
(* What the server does to an exchange *)

\* A handler that is not opened here keeps its run, and idle ones stay idle.
LEMMA ServerKeepsSockets ==
  ASSUME ClientInv, ServerStep
  PROVE  /\ bound' = bound
         /\ \A c \in Conn : pc'[c] = "idle" <=> pc[c] = "idle"
         /\ runs' = runs
<1>1. pc \in [Conn -> States]
  BY DEF ClientInv, SafetyInv, BaseInv, TypeOK
<1>2. ASSUME NEW c \in Conn, NEW stop \in States \ {"idle"}, pc[c] # "idle",
             pc' = [pc EXCEPT ![c] = stop], bound' = bound
      PROVE  bound' = bound /\ \A d \in Conn : pc'[d] = "idle" <=> pc[d] = "idle"
  BY <1>1, <1>2
<1>3. {"receiving", "replying", "marking", "processing", "broadcasting", "closing", "closed"}
        \subseteq States \ {"idle"}
  BY DEF States
<1>4. ASSUME NEW c \in Conn,
             Receive(c) \/ ServeHandshake(c) \/ EndSocket(c) \/ Answer(c) \/ Settle(c)
      PROVE  bound' = bound /\ \A d \in Conn : pc'[d] = "idle" <=> pc[d] = "idle"
  <2>1. CASE Receive(c)
    <3>1. CASE \E m \in Message : Ingest(c, m)
      BY <1>2, <1>3, <3>1 DEF Ingest, RecordRejected, RecordConflicted, PersistDuplicate,
        PersistAccepted, Receiving, PrepareReply
    <3>2. CASE RefuseDelivery(c) \/ IngestFails(c)
      BY <1>2, <1>3, <3>2 DEF RefuseDelivery, IngestFails, Receiving
    <3> QED
      BY <2>1, <3>1, <3>2 DEF Receive, Server
  <2>2. CASE ServeHandshake(c) \/ EndSocket(c)
    BY <1>2, <1>3, <2>2 DEF ServeHandshake, EndSocket, Server, AcceptSocket, AbortHandshake,
      CloseSocket, EndHandler
  <2>3. CASE Answer(c)
    BY <1>2, <1>3, <2>3 DEF Answer, Server, SendReply, ReplyFails, EndHandler
  <2>4. CASE Settle(c)
    <3>1. CASE MarkReplySent(c) \/ MarkFails(c)
      BY <1>2, <1>3, <3>1 DEF MarkReplySent, MarkFails, Resume
    <3>2. CASE ProcessEvent(c) \/ ProcessFails(c) \/ BroadcastEnds(c)
      BY <1>2, <1>3, <3>2 DEF ProcessEvent, ProcessFails, BroadcastEnds, Resume
    <3> QED
      BY <2>4, <3>1, <3>2 DEF Settle, Server
  <2> QED
    BY <1>4, <2>1, <2>2, <2>3, <2>4
<1>5. CASE CrashServer
  BY <1>1, <1>5 DEF CrashServer, Server, Crash, database
<1>6. CASE RestartServer
  BY <1>6 DEF RestartServer, Server, Start, Recovery, RecoverEvent, RecoverFails, Serve,
    NextToRecover, handlers, database
<1>7. runs' = runs
  <2>1. CASE \E c \in Conn : Handler(c)
    BY <2>1, HandlerKeepsRuns
  <2>2. CASE CrashServer \/ RestartServer
    BY <2>2 DEF CrashServer, RestartServer, Server, Crash, Start, Recovery, RecoverEvent,
                RecoverFails, Serve, database
  <2> QED
    BY <2>1, <2>2, HandlerSteps DEF ServerStep
<1> QED
  BY <1>4, <1>5, <1>6, <1>7 DEF ServerStep

\* The replies some client may come to read.
OnWire == sent \cup {reply[d] : d \in {d \in Conn : pc[d] = "replying"}}

\* A delivery prepares one reply, about the attempt it stores.
LEMMA IngestReplies ==
  ASSUME BaseInv, NEW c \in Conn, NEW m \in Message, Ingest(c, m)
  PROVE  /\ OnWire' \subseteq OnWire \cup {reply'[c]}
         /\ reply'[c].attempt = Len(attempts) + 1
         /\ attempts'[Len(attempts) + 1].conn = c
         /\ pc[c] = "receiving"
<1>1. /\ sent' = sent
      /\ \E e, outcome : PrepareReply(c, e, outcome)
      /\ pc[c] = "receiving"
  BY DEF Ingest, RecordRejected, RecordConflicted, PersistDuplicate, PersistAccepted, Receiving
<1>2. pc \in [Conn -> States] /\ reply \in [Conn -> Replies]
  BY DEF BaseInv, TypeOK
<1>3. /\ reply'[c].attempt = Len(attempts) + 1
      /\ \A d \in Conn : d # c => pc'[d] = pc[d] /\ reply'[d] = reply[d]
  BY <1>1, <1>2 DEF PrepareReply
<1>4. OnWire' \subseteq OnWire \cup {reply'[c]}
  BY <1>1, <1>3 DEF OnWire
<1>5. Audited(c)
  BY RefusedOrRepeated, AcceptedDelivery DEF Ingest, Unaccepted, Accepted
<1> QED
  BY <1>1, <1>3, <1>4, <1>5 DEF Audited

\* No other step of the server makes a new reply readable.
LEMMA OthersPrepareNothing ==
  ASSUME BaseInv, NEW c \in Conn,
         ServeHandshake(c) \/ EndSocket(c) \/ Answer(c) \/ Settle(c)
           \/ RefuseDelivery(c) \/ IngestFails(c)
  PROVE  OnWire' \subseteq OnWire
<1>1. pc \in [Conn -> States] /\ reply \in [Conn -> Replies]
  BY DEF BaseInv, TypeOK
<1>2. ASSUME \A d \in Conn \ {c} : pc'[d] = pc[d] /\ reply'[d] = reply[d],
             pc'[c] # "replying", sent' \subseteq OnWire
      PROVE  OnWire' \subseteq OnWire
  BY <1>2 DEF OnWire
<1>3. CASE ServeHandshake(c) \/ EndSocket(c)
  BY <1>1, <1>2, <1>3 DEF ServeHandshake, EndSocket, Server, AcceptSocket, AbortHandshake,
    CloseSocket, EndHandler, OnWire
<1>4. CASE Answer(c)
  BY <1>1, <1>2, <1>4 DEF Answer, Server, SendReply, ReplyFails, EndHandler, OnWire
<1>5. CASE Settle(c)
  <2>1. CASE MarkReplySent(c) \/ MarkFails(c)
    BY <1>1, <1>2, <2>1 DEF MarkReplySent, MarkFails, Resume, OnWire
  <2>2. CASE ProcessEvent(c) \/ ProcessFails(c) \/ BroadcastEnds(c)
    BY <1>1, <1>2, <2>2 DEF ProcessEvent, ProcessFails, BroadcastEnds, Resume, OnWire
  <2> QED
    BY <1>5, <2>1, <2>2 DEF Settle, Server
<1>6. CASE RefuseDelivery(c) \/ IngestFails(c)
  BY <1>1, <1>2, <1>6 DEF RefuseDelivery, IngestFails, Receiving, OnWire
<1> QED
  BY <1>3, <1>4, <1>5, <1>6

\* What becomes readable on a connection answers the message taken from it.
LEMMA ServerReplies ==
  ASSUME ClientInv, Typing, ServerStep, NEW c \in Conn,
         NEW rep \in Unread(c)', rep \notin Unread(c)
  PROVE  /\ wire[c] \in Message
         /\ Ingest(c, wire[c])
         /\ wire'[c] = NoMessage
         /\ rep = reply'[c]
<1>1. BaseInv /\ [Next]_vars
  BY ServerSteps DEF ClientInv, SafetyInv
<1>2. /\ rep \in OnWire' /\ rep.attempt \in Positions' /\ rep.attempt \notin read'
      /\ attempts'[rep.attempt].conn = c
  BY DEF Unread, OnWire
<1>3. read' = read
  BY DEF ServerStep, Receive, ServeHandshake, EndSocket, Answer, Settle, CrashServer,
         RestartServer, RunnerRests
<1>4. rep \notin OnWire
  <2> SUFFICES ASSUME rep \in OnWire PROVE rep \in Unread(c)
    OBVIOUS
  <2>1. Durable(rep)
    BY <1>1 DEF ClientInv, SafetyInv, BaseInv, RepliesAreDurable, PendingReplies, OnWire
  <2>2. rep.attempt \in Positions
    BY <2>1 DEF Durable
  <2>3. attempts'[rep.attempt].conn = attempts[rep.attempt].conn
    BY <1>1, <2>2, TablesGrow, AttemptRows DEF BaseInv, Attempts
  <2> QED
    BY <1>2, <1>3, <2>2, <2>3 DEF Unread, OnWire
<1>5. CASE \E d \in Conn : Receive(d)
  <2>1. PICK d \in Conn : Receive(d)
    BY <1>5
  <2>2. PICK m \in Message :
          wire[d] = m /\ (Ingest(d, m) \/ RefuseDelivery(d) \/ IngestFails(d))
    BY <2>1 DEF Receive, Server
  <2>3. Ingest(d, m)
    BY <1>1, <1>2, <1>4, <2>2, OthersPrepareNothing
  <2>4. rep = reply'[d] /\ attempts'[rep.attempt].conn = d
    BY <1>1, <1>2, <1>4, <2>3, IngestReplies
  <2>5. wire'[d] = NoMessage
    BY <2>1, <2>2 DEF Receive, Typing, RunTypeOK
  <2> QED
    BY <1>2, <2>2, <2>3, <2>4, <2>5
<1>6. CASE \E d \in Conn : ServeHandshake(d) \/ EndSocket(d) \/ Answer(d) \/ Settle(d)
  BY <1>1, <1>2, <1>4, <1>6, OthersPrepareNothing
<1>7. CASE CrashServer
  BY <1>2, <1>4, <1>7 DEF CrashServer, Server, Crash, OnWire
<1>8. CASE RestartServer
  BY <1>2, <1>4, <1>8 DEF RestartServer, Server, Start, Recovery, RecoverEvent, RecoverFails,
    Serve, handlers, OnWire
<1> QED
  BY <1>5, <1>6, <1>7, <1>8 DEF ServerStep

\* A valid message for an event of the run is accepted, or repeats it.
LEMMA ValidIsTaken ==
  ASSUME BaseInv, NEW c \in Conn, bound[c] = TheRun, NEW e \in Manifest[TheRun], NEW m \in Message,
         m = [shape |-> "valid", event |-> e, run |-> TheRun, content |-> "manifest"],
         Ingest(c, m)
  PROVE  /\ reply'[c].event = e
         /\ PersistAccepted(c, m) \/ PersistDuplicate(c, m)
         /\ reply'[c].status = IF e \in Stored THEN "duplicate" ELSE "accepted"
<1>1. runs[TheRun] # "absent" /\ pc[c] = "receiving"
  BY IngestReplies DEF BaseInv, Binding
<1>2. Category(m, bound[c]) = "none"
  BY <1>1 DEF Category, Registered
<1>3. e \in Event
  BY ManifestAssumption, RunnerAssumption
<1>4. Persisted(e) => events[e].content = "manifest"
  BY <1>3 DEF BaseInv, CanonicalFromManifest, Stored
<1>5. PersistAccepted(c, m) \/ PersistDuplicate(c, m)
  BY <1>2, <1>4 DEF Ingest, RecordRejected, RecordConflicted
<1>6. reply \in [Conn -> Replies]
  BY DEF BaseInv, TypeOK
<1>7. CASE PersistAccepted(c, m)
  BY <1>3, <1>6, <1>7 DEF PersistAccepted, PrepareReply, Stored
<1>8. CASE PersistDuplicate(c, m)
  BY <1>3, <1>6, <1>8 DEF PersistDuplicate, PrepareReply, Stored
<1> QED
  BY <1>5, <1>7, <1>8

\* An invalid one is rejected.
LEMMA InvalidIsRejected ==
  ASSUME BaseInv, NEW c \in Conn, bound[c] = TheRun, NEW m \in Message,
         m.shape = "malformed" \/ (m.shape = "invalid" /\ m.run = TheRun),
         Ingest(c, m)
  PROVE  /\ reply'[c].event = ClaimedEvent(m)
         /\ RecordRejected(c, m)
         /\ reply'[c].status = "rejected"
<1>1. Category(m, bound[c]) \notin {"none", "event_id_conflict"}
  BY DEF Category
<1>2. RecordRejected(c, m)
  BY <1>1 DEF Ingest, RecordConflicted, PersistDuplicate, PersistAccepted
<1>3. reply \in [Conn -> Replies]
  BY DEF BaseInv, TypeOK
<1> QED
  BY <1>2, <1>3 DEF RecordRejected, PrepareReply

\* So a reply to the payload under way says what the runner takes it to say.
LEMMA PayloadIsAnswered ==
  ASSUME ProtocolInv, position >= 1, socket \in Conn, Ingest(socket, Payload)
  PROVE  Answers(reply'[socket])
<1>1. BaseInv /\ Typing /\ LegsFit
  BY DEF ProtocolInv, ClientInv, SafetyInv
<1>3. Payload \in Message
  BY <1>1, PlanFacts DEF Typing
<1>4. bound[socket] = TheRun
  BY <1>1, <1>3, IngestReplies DEF ProtocolInv, SocketsInTurn
<1>5. Payload = PayloadOf(Current) /\ Current \in Manifest[TheRun]
      /\ (leg = "duplicate" => ValidAt(position)) /\ (ValidAt(position) <=> Current \notin plan.invalid)
  BY <1>1, PayloadOfCurrent, OrderFacts DEF ValidAt, Current
<1>6. CASE ValidAt(position)
  <2>1. Payload = [shape |-> "valid", event |-> Current, run |-> TheRun, content |-> "manifest"]
    BY <1>5, <1>6 DEF PayloadOf
  <2>2. /\ reply'[socket].event = Current
        /\ reply'[socket].status = IF Current \in Stored THEN "duplicate" ELSE "accepted"
    BY <1>1, <1>3, <1>4, <1>5, <2>1, ValidIsTaken
  <2>3. leg = "duplicate" => Current \in Stored
    <3>1. leg = "duplicate" => position \in Answered
      BY <1>1, OrderFacts DEF Answered
    <3> QED
      BY <1>6, <3>1 DEF ProtocolInv, StoreFollowsPlan, ClientInv, Current
  <2>4. ClaimedEvent(Payload) = Current /\ Payload.shape = "valid"
    BY <2>1 DEF ClaimedEvent
  <2> QED
    BY <2>2, <2>3, <2>4 DEF Answers, MayProcess
<1>7. CASE ~ValidAt(position)
  <2>1. Payload.shape = "malformed" \/ (Payload.shape = "invalid" /\ Payload.run = TheRun)
    BY <1>5, <1>7 DEF PayloadOf
  <2>2. reply'[socket].event = ClaimedEvent(Payload) /\ reply'[socket].status = "rejected"
    BY <1>1, <1>3, <1>4, <2>1, InvalidIsRejected
  <2> QED
    BY <1>5, <1>7, <2>1, <2>2 DEF Answers, MayProcess
<1> QED
  BY <1>6, <1>7
-----------------------------------------------------------------------------
(* Who moves what *)

\* The plan of a run is fixed when it is created.
LEMMA PlanStays ==
  ASSUME [RunNext]_allVars
  PROVE  /\ plan' = plan
         /\ \A e : PayloadOf(e)' = PayloadOf(e)
         /\ \A p : (ValidAt(p)' <=> ValidAt(p)) /\ ValidUpTo(p)' = ValidUpTo(p)
<1>1. plan' = plan
  BY ConfigStays DEF plan
<1>2. \A p : ValidAt(p)' <=> ValidAt(p)
  BY <1>1 DEF ValidAt
<1> QED
  BY <1>1, <1>2 DEF PayloadOf, Ordinal, ValidUpTo

\* The server and the network take messages and break connections, but neither send
\* nor close for the client.
LEMMA OutsideStep ==
  ASSUME ClientInv, Typing, ServerStep \/ Environment
  PROVE  /\ UNCHANGED <<at, position, leg, socket, read, acked, refusals, confirmed,
                        retryCount, forcedReconnects>>
         /\ runs' = runs
         /\ \A c \in Conn : /\ wire'[c] \in {wire[c], NoMessage}
                            /\ peer'[c] = "closed" <=> peer[c] = "closed"
                            /\ peer'[c] = "none" <=> peer[c] = "none"
<1>1. /\ peer \in [Conn -> {"none", "open", "broken", "closed"}]
      /\ wire \in [Conn -> Message \cup {NoMessage}]
  BY DEF Typing, RunTypeOK
<1>2. CASE Environment
  <2>1. CASE UNCHANGED runnerVars /\ runs' = runs
    BY <2>1 DEF runnerVars, counted
  <2>2. ASSUME NEW c \in Conn, peer[c] = "open", peer' = [peer EXCEPT ![c] = "broken"],
               wire' \in {wire, [wire EXCEPT ![c] = NoMessage]}, ServerRests,
               UNCHANGED <<at, position, leg, try, socket, read, counted, expiries>>
        PROVE  /\ UNCHANGED <<at, position, leg, socket, read, acked, refusals, confirmed,
                              retryCount, forcedReconnects>>
               /\ runs' = runs
               /\ \A d \in Conn : /\ wire'[d] \in {wire[d], NoMessage}
                                  /\ peer'[d] = "closed" <=> peer[d] = "closed"
                                  /\ peer'[d] = "none" <=> peer[d] = "none"
    BY <1>1, <2>2 DEF ServerRests, vars, database, counted
  <2>3. \/ UNCHANGED runnerVars /\ runs' = runs
        \/ \E c \in Conn :
             /\ peer[c] = "open" /\ peer' = [peer EXCEPT ![c] = "broken"]
             /\ wire' \in {wire, [wire EXCEPT ![c] = NoMessage]} /\ ServerRests
             /\ UNCHANGED <<at, position, leg, try, socket, read, counted, expiries>>
    BY <1>2 DEF Environment, OpenOverlay, RenderEvent, vars, database
  <2> QED
    BY <2>1, <2>2, <2>3
<1>3. CASE ServerStep
  <2>1. RunnerRests /\ runs' = runs
    BY <1>3, ServerKeepsSockets DEF ServerStep, Receive, ServeHandshake, EndSocket, Answer,
      Settle, CrashServer, RestartServer
  <2>2. ASSUME NEW c \in Conn, Receive(c) \/ EndSocket(c)
        PROVE  peer' = peer /\ wire' = [wire EXCEPT ![c] = NoMessage]
    BY <2>2 DEF Receive, EndSocket
  <2>3. ASSUME NEW c \in Conn, ServeHandshake(c) \/ Answer(c) \/ Settle(c)
        PROVE  peer' = peer /\ wire' = wire
    BY <2>3 DEF ServeHandshake, Answer, Settle, Network
  <2>4. CASE CrashServer
    BY <1>1, <2>1, <2>4 DEF CrashServer, RunnerRests, counted
  <2>5. CASE RestartServer
    BY <2>1, <2>5 DEF RestartServer, Network, RunnerRests, counted
  <2> QED
    BY <1>1, <1>3, <2>1, <2>2, <2>3, <2>4, <2>5 DEF ServerStep, RunnerRests, counted
<1> QED
  BY <1>2, <1>3

\* The runner works on one connection, and neither answers nor stores for the server.
LEMMA RunnerKeepsToItsSocket ==
  ASSUME Typing, RunnerStep, ~Dial
  PROVE  /\ UNCHANGED <<socket, pc, bound, reply, attempts, events, sent>>
         /\ \A c \in Conn \ {socket} : peer'[c] = peer[c] /\ wire'[c] = wire[c]
<1>1. /\ peer \in [Conn -> {"none", "open", "broken", "closed"}]
      /\ wire \in [Conn -> Message \cup {NoMessage}]
  BY DEF Typing, RunTypeOK
<1>2. CASE CreateScenarioRun
  BY <1>2 DEF CreateScenarioRun, Server, CreateRun, Network, handlers
<1>3. CASE CompleteScenarioRun
  BY <1>3 DEF CompleteScenarioRun, CompleteRun, Network, handlers
<1>4. CASE OverlaySeen \/ Connected \/ AcceptanceSeen \/ NextSequence \/ ReadReply
  BY <1>1, <1>4 DEF OverlaySeen, Connected, AcceptanceSeen, NextSequence, ReadReply, Network,
    ServerRests, vars, database, handlers
<1>5. CASE RequestFails \/ ConnectRefused \/ EndDeliveries \/ SendRaises \/ ExchangeFails
  BY <1>1, <1>5 DEF RequestFails, ConnectRefused, EndDeliveries, SendRaises, ExchangeFails,
    Abort, Close, ServerRests, vars, database, handlers
<1>6. CASE RecordReconnected \/ RecordDelay \/ RecordRecovery
  BY <1>6 DEF RecordReconnected, RecordDelay, RecordRecovery, Mark, RecordMarker, Network,
    vars, database, handlers
<1>7. CASE ForceDisconnect
  BY <1>1, <1>7 DEF ForceDisconnect, RecordMarker, Close, vars, database, handlers
<1>8. CASE SendAndAwait \/ SendUnread
  BY <1>1, <1>8 DEF SendAndAwait, SendUnread, Transmit, ServerRests, vars, database, handlers
<1> QED
  BY <1>2, <1>3, <1>4, <1>5, <1>6, <1>7, <1>8 DEF RunnerStep

\* A new connection is the next one; nothing has used it.
LEMMA DialTakesTheNext ==
  ASSUME ClientInv, Typing, SocketsInTurn, Dial
  PROVE  /\ socket' = socket + 1 /\ socket' \in Conn /\ socket \in Nat
         /\ pc[socket'] = "idle" /\ peer[socket'] = "none" /\ wire[socket'] = NoMessage
         /\ \A c \in Conn \ {socket'} : pc'[c] = pc[c] /\ bound'[c] = bound[c]
         /\ pc'[socket'] # "replying" /\ bound'[socket'] = TheRun
         /\ UNCHANGED <<peer, wire, reply, attempts, events, sent, runs>>
         /\ at = "dialing" /\ at' = "handshaking"
         /\ UNCHANGED <<position, leg, try, read, acked, refusals, confirmed,
                        retryCount, forcedReconnects>>
<1>1. socket' = socket + 1 /\ socket' \in Conn /\ OpenSocket(socket', TheRun)
  BY DEF Dial, Server
<1>2. socket \in Nat /\ socket' > socket
  BY <1>1, RunnerAssumption, SMTT(30) DEF Typing, RunTypeOK
<1>3. pc[socket'] = "idle" /\ peer[socket'] = "none" /\ wire[socket'] = NoMessage
  BY <1>1, <1>2 DEF SocketsInTurn
<1>4. \A c \in Conn \ {socket'} : pc'[c] = pc[c] /\ bound'[c] = bound[c]
  BY <1>1 DEF OpenSocket
<1>5. pc'[socket'] # "replying" /\ bound'[socket'] = TheRun
  <2>1. pc \in [Conn -> States] /\ bound \in [Conn -> Run \cup {NoRun}]
    BY DEF ClientInv, SafetyInv, BaseInv, TypeOK
  <2> QED
    BY <1>1, <2>1 DEF OpenSocket
<1> QED
  BY <1>1, <1>2, <1>3, <1>4, <1>5
  DEF Dial, Proceed, Network, counted, OpenSocket, database

LEMMA SocketsNext ==
  ASSUME ProtocolInv, [RunNext]_allVars
  PROVE  SocketsInTurn'
<1>1. ClientInv /\ Typing /\ SocketsInTurn
  BY DEF ProtocolInv
<1>2. CASE ServerStep
  BY <1>1, <1>2, ServerKeepsSockets, OutsideStep DEF SocketsInTurn
<1>3. CASE Environment
  <2>1. pc' = pc /\ bound' = bound
    BY <1>3 DEF Environment, OpenOverlay, RenderEvent, ServerRests, vars, handlers
  <2> QED
    BY <1>1, <1>3, <2>1, OutsideStep DEF SocketsInTurn
<1>4. CASE Dial
  <2>1. /\ socket' = socket + 1 /\ socket' \in Conn /\ socket \in Nat
        /\ \A c \in Conn \ {socket'} : pc'[c] = pc[c] /\ bound'[c] = bound[c]
        /\ bound'[socket'] = TheRun
        /\ peer' = peer /\ wire' = wire
    BY <1>1, <1>4, DialTakesTheNext
  <2>2. \A c \in Conn : c > socket' => c > socket /\ c # socket'
    BY <2>1, RunnerAssumption
  <2>3. \A c \in Conn : c > socket' => pc'[c] = "idle" /\ peer'[c] = "none" /\ wire'[c] = NoMessage
    BY <1>1, <2>1, <2>2 DEF SocketsInTurn
  <2>4. \A c \in Conn : pc'[c] # "idle" => bound'[c] = TheRun
    BY <1>1, <2>1 DEF SocketsInTurn
  <2> QED
    BY <2>3, <2>4 DEF SocketsInTurn
<1>5. CASE RunnerStep /\ ~Dial
  <2>1. \A c \in Conn : c > socket => c # socket
    BY <1>1, RunnerAssumption DEF Typing, RunTypeOK
  <2> QED
    BY <1>1, <1>5, <2>1, RunnerKeepsToItsSocket DEF SocketsInTurn
<1>6. CASE UNCHANGED allVars
  BY <1>1, <1>6 DEF SocketsInTurn, allVars, vars, handlers, runnerVars
<1> QED
  BY <1>2, <1>3, <1>4, <1>5, <1>6 DEF RunNext, RunnerStep

\* The position only grows, within the order.
LEMMA PositionGrows ==
  ASSUME ClientInv, Typing, [RunNext]_allVars
  PROVE  position \in Nat /\ (position' = position \/ (NextSequence /\ position' = position + 1))
<1>1. position \in Nat
  BY OrderFacts
<1>2. CASE ServerStep \/ Environment
  BY <1>1, <1>2, OutsideStep
<1>3. CASE UNCHANGED allVars
  BY <1>1, <1>3 DEF allVars, runnerVars
<1>4. CASE CreateScenarioRun \/ OverlaySeen \/ CompleteScenarioRun \/ RequestFails
  BY <1>1, <1>4 DEF CreateScenarioRun, OverlaySeen, CompleteScenarioRun, RequestFails
<1>5. CASE Dial \/ Connected \/ ConnectRefused \/ NextSequence \/ EndDeliveries
  BY <1>1, <1>5 DEF Dial, Connected, ConnectRefused, NextSequence, EndDeliveries
<1>6. CASE RecordReconnected \/ RecordDelay \/ ForceDisconnect \/ RecordRecovery
  BY <1>1, <1>6 DEF RecordReconnected, RecordDelay, ForceDisconnect, RecordRecovery, Mark
<1>7. CASE SendAndAwait \/ ExchangeFails \/ SendUnread \/ SendRaises \/ AcceptanceSeen
           \/ ReadReply
  BY <1>1, <1>7 DEF SendAndAwait, ExchangeFails, SendUnread, SendRaises, AcceptanceSeen, ReadReply
<1> QED
  BY <1>2, <1>3, <1>4, <1>5, <1>6, <1>7 DEF RunNext, RunnerStep

\* Only the two sends put a message on a connection.
LEMMA OnlySendsTransmit ==
  ASSUME Typing, RunnerStep
  PROVE  \/ wire' = wire
         \/ (SendAndAwait \/ SendUnread) /\ wire' = [wire EXCEPT ![socket] = Payload]
<1>1. CASE CreateScenarioRun \/ OverlaySeen \/ CompleteScenarioRun \/ RequestFails
  BY <1>1 DEF CreateScenarioRun, OverlaySeen, CompleteScenarioRun, RequestFails, Network
<1>2. CASE Dial \/ Connected \/ ConnectRefused \/ NextSequence \/ EndDeliveries
  BY <1>2 DEF Dial, Connected, ConnectRefused, NextSequence, EndDeliveries, Network
<1>3. CASE RecordReconnected \/ RecordDelay \/ ForceDisconnect \/ RecordRecovery
  BY <1>3 DEF RecordReconnected, RecordDelay, ForceDisconnect, RecordRecovery, Mark, Network
<1>4. CASE ExchangeFails \/ SendRaises \/ AcceptanceSeen \/ ReadReply
  BY <1>4 DEF ExchangeFails, SendRaises, AcceptanceSeen, ReadReply, Network
<1>5. CASE SendAndAwait \/ SendUnread
  BY <1>5 DEF SendAndAwait, SendUnread, Transmit
<1> QED
  BY <1>1, <1>2, <1>3, <1>4, <1>5 DEF RunnerStep

LEMMA WiresNext ==
  ASSUME ProtocolInv, [RunNext]_allVars
  PROVE  WiresFollowPlan'
<1>1. ClientInv /\ Typing /\ WiresFollowPlan /\ LegsFit
  BY DEF ProtocolInv
<1>2. \A p \in 1 .. position : p \in 1 .. position'
  BY <1>1, PositionGrows
<1>3. \A p : PayloadOf(plan.order[p])' = PayloadOf(plan.order[p])
  BY PlanStays DEF PayloadOf, Ordinal
<1>4. ASSUME \A c \in Conn : wire'[c] \in {wire[c], NoMessage}
      PROVE  WiresFollowPlan'
  BY <1>1, <1>2, <1>3, <1>4 DEF WiresFollowPlan
<1>5. CASE ServerStep \/ Environment
  BY <1>1, <1>4, <1>5, OutsideStep
<1>6. CASE RunnerStep
  <2>1. CASE wire' = wire
    BY <1>4, <2>1
  <2>2. CASE (SendAndAwait \/ SendUnread) /\ wire' = [wire EXCEPT ![socket] = Payload]
    <3>1. position >= 1 /\ at = "sending"
      BY <1>1, <2>2 DEF SendAndAwait, SendUnread, Typing, Located
    <3>2. Payload = PayloadOf(plan.order[position]) /\ position \in 1 .. position
      BY <1>1, <3>1, PayloadOfCurrent, OrderFacts DEF Current
    <3>3. \A c \in Conn : wire'[c] \in {wire[c], Payload}
      BY <1>1, <2>2 DEF Typing, RunTypeOK
    <3> QED
      BY <1>1, <1>2, <1>3, <3>2, <3>3 DEF WiresFollowPlan
  <2> QED
    BY <1>1, <1>6, <2>1, <2>2, OnlySendsTransmit
<1>7. CASE UNCHANGED allVars
  BY <1>4, <1>7 DEF allVars, runnerVars
<1> QED
  BY <1>5, <1>6, <1>7 DEF RunNext

-----------------------------------------------------------------------------
(* One exchange at a time *)

\* The rule for a connection c that the client has not closed.
ExchangeOn(c) ==
  /\ ~Exchanging => wire[c] = NoMessage
  /\ wire[c] # NoMessage \/ ~Exchanging => Unread(c) = {}
  /\ at = "awaiting" => /\ wire[c] \in {NoMessage, Payload}
                        /\ \A rep, other \in Unread(c) : Answers(rep) /\ rep = other

\* The server turns the message under way into its reply, or loses it.
LEMMA ServerKeepsExchange ==
  ASSUME ProtocolInv, ServerStep, NEW c \in Conn, c = socket, ExchangeOn(c),
         UNCHANGED config
  PROVE  ExchangeOn(c)'
<1>1. ClientInv /\ Typing
  BY DEF ProtocolInv
<1>2. /\ at' = at /\ socket' = socket /\ position' = position /\ leg' = leg
      /\ wire'[c] \in {wire[c], NoMessage}
  BY <1>1, OutsideStep
<1>3. /\ Payload' = Payload /\ (Exchanging' <=> Exchanging)
      /\ \A rep : Answers(rep)' <=> Answers(rep)
  BY <1>2 DEF Payload, Current, plan, Ordinal, Exchanging, Answers
<1>4. CASE Unread(c)' \subseteq Unread(c)
  BY <1>2, <1>3, <1>4 DEF ExchangeOn
<1>5. CASE \E rep \in Unread(c)' : rep \notin Unread(c)
  <2>1. /\ wire[c] \in Message /\ Ingest(c, wire[c]) /\ wire'[c] = NoMessage
        /\ \A rep \in Unread(c)' : rep \notin Unread(c) => rep = reply'[c]
    BY <1>1, <1>5, ServerReplies
  <2>2. wire[c] # NoMessage
    BY <2>1, MessageAssumption DEF Messages, Shapes, NoMessage
  <2>3. Exchanging /\ Unread(c) = {}
    BY <2>2 DEF ExchangeOn
  <2>4. \A rep \in Unread(c)' : rep = reply'[c]
    BY <2>1, <2>3
  <2>5. at = "awaiting" => Answers(reply'[c])
    <3> SUFFICES ASSUME at = "awaiting" PROVE Answers(reply'[c])
      OBVIOUS
    <3>1. wire[c] = Payload
      BY <2>2 DEF ExchangeOn
    <3>2. position >= 1
      BY <1>1 DEF Typing, Located
    <3> QED
      BY <2>1, <3>1, <3>2, PayloadIsAnswered
  <2>6. at = "awaiting" => \A rep, other \in Unread(c)' : Answers(rep)' /\ rep = other
    BY <1>3, <2>4, <2>5
  <2> QED
    BY <1>2, <1>3, <2>1, <2>3, <2>6 DEF ExchangeOn
<1> QED
  BY <1>4, <1>5

\* The environment at most loses the message.
LEMMA EnvironmentKeepsExchange ==
  ASSUME ProtocolInv, Environment, NEW c \in Conn, c = socket, ExchangeOn(c),
         UNCHANGED config
  PROVE  ExchangeOn(c)'
<1>1. ClientInv /\ Typing
  BY DEF ProtocolInv
<1>2. /\ at' = at /\ socket' = socket /\ position' = position /\ leg' = leg /\ read' = read
      /\ wire'[c] \in {wire[c], NoMessage}
  BY <1>1, OutsideStep
<1>3. /\ Payload' = Payload /\ (Exchanging' <=> Exchanging)
      /\ \A rep : Answers(rep)' <=> Answers(rep)
  BY <1>2 DEF Payload, Current, plan, Ordinal, Exchanging, Answers
<1>4. UNCHANGED vars
  BY DEF Environment, OpenOverlay, RenderEvent, ServerRests
<1>5. Unread(c)' = Unread(c)
  BY <1>2, <1>4 DEF Unread, Positions, vars, database, handlers
<1> QED
  BY <1>2, <1>3, <1>5 DEF ExchangeOn

\* The runner sends on an empty line, reads the one reply, or closes the connection.
LEMMA RunnerKeepsExchange ==
  ASSUME ProtocolInv, RunnerStep, ~Dial, NEW c \in Conn, c = socket,
         UNCHANGED config, peer'[c] # "closed", ExchangeOn(c)
  PROVE  ExchangeOn(c)'
<1>1. ClientInv /\ Typing /\ LegsFit
  BY DEF ProtocolInv
<1>2. /\ UNCHANGED <<socket, pc, reply, attempts, sent>>
      /\ c # 0 /\ peer \in [Conn -> {"none", "open", "broken", "closed"}]
      /\ wire \in [Conn -> Message \cup {NoMessage}]
  BY <1>1, RunnerKeepsToItsSocket, RunnerAssumption DEF Typing, RunTypeOK
<1>3. ASSUME read' = read
      PROVE  Unread(c)' = Unread(c)
  BY <1>2, <1>3 DEF Unread, Positions
<1>4. CASE RequestFails \/ ConnectRefused \/ EndDeliveries \/ SendRaises \/ ExchangeFails
           \/ ForceDisconnect
  BY <1>2, <1>4 DEF RequestFails, ConnectRefused, EndDeliveries, SendRaises, ExchangeFails,
    ForceDisconnect, Abort, Close
<1>5. ASSUME ~Exchanging, ~Exchanging', wire' = wire, read' = read
      PROVE  ExchangeOn(c)'
  BY <1>3, <1>5 DEF ExchangeOn, Exchanging
<1>6. CASE CreateScenarioRun \/ CompleteScenarioRun
  BY <1>5, <1>6 DEF CreateScenarioRun, CompleteScenarioRun, Proceed, Network, Exchanging
<1>7. CASE OverlaySeen \/ Connected \/ NextSequence
  BY <1>5, <1>7 DEF OverlaySeen, Connected, NextSequence, Proceed, Network, Exchanging
<1>8. CASE RecordReconnected \/ RecordDelay \/ RecordRecovery
  BY <1>5, <1>8 DEF RecordReconnected, RecordDelay, RecordRecovery, Mark, FollowUp, Proceed,
    Network, Exchanging
<1>9. CASE AcceptanceSeen
  BY <1>3, <1>9 DEF AcceptanceSeen, Proceed, Network, Exchanging, ExchangeOn
<1>10. CASE SendAndAwait \/ SendUnread
  <2>1. /\ at = "sending" /\ at' \in {"awaiting", "polling"} /\ read' = read
        /\ UNCHANGED <<leg, position>>
    BY <1>10 DEF SendAndAwait, SendUnread, Proceed
  <2>2. wire[c] = NoMessage /\ Unread(c) = {}
    BY <2>1 DEF ExchangeOn, Exchanging
  <2>3. Payload' = Payload
    BY <2>1 DEF Payload, Current, plan, Ordinal
  <2>4. wire'[c] \in {NoMessage, Payload}
    BY <1>1, <1>2, <2>2, OnlySendsTransmit
  <2> QED
    BY <1>3, <2>1, <2>2, <2>3, <2>4 DEF ExchangeOn, Exchanging
<1>11. CASE ReadReply
  <2>1. PICK rep \in Unread(socket) : read' = read \cup {rep.attempt} /\ Continue(rep)
    BY <1>11 DEF ReadReply
  <2>2. at = "awaiting" /\ wire' = wire /\ at' \in {"recovering", "sending", "next"}
    BY <1>11, <2>1 DEF ReadReply, Continue, FollowUp, Proceed, Network
  <2>3. Unread(c) = {rep} /\ wire[c] = NoMessage
    BY <2>1, <2>2 DEF ExchangeOn
  <2>4. Unread(c)' \subseteq Unread(c) /\ rep \notin Unread(c)'
    BY <1>2, <2>1 DEF Unread, Positions
  <2> QED
    BY <2>2, <2>3, <2>4 DEF ExchangeOn, Exchanging
<1> QED
  BY <1>4, <1>6, <1>7, <1>8, <1>9, <1>10, <1>11 DEF RunnerStep

\* While connect() is under way, nobody has seen the connection open.
LEMMA HandshakeNext ==
  ASSUME ProtocolInv, [RunNext]_allVars
  PROVE  at' = "handshaking" => peer'[socket'] = "none"
<1>1. ClientInv /\ Typing /\ SocketsInTurn /\ OneExchange
  BY DEF ProtocolInv
<1>2. CASE ServerStep \/ Environment
  BY <1>1, <1>2, OutsideStep DEF OneExchange, Typing, Located
<1>3. CASE Dial
  BY <1>1, <1>3, DialTakesTheNext
<1>4. CASE RunnerStep /\ ~Dial
  <2>1. at' # "handshaking"
    <3>1. CASE CreateScenarioRun \/ OverlaySeen \/ CompleteScenarioRun \/ RequestFails
      BY <3>1 DEF CreateScenarioRun, OverlaySeen, CompleteScenarioRun, RequestFails, Abort, Proceed
    <3>2. CASE Connected \/ ConnectRefused \/ NextSequence \/ EndDeliveries
      BY <3>2 DEF Connected, ConnectRefused, NextSequence, EndDeliveries, Abort, Proceed
    <3>3. CASE RecordReconnected \/ RecordDelay \/ ForceDisconnect \/ RecordRecovery
      BY <3>3 DEF RecordReconnected, RecordDelay, ForceDisconnect, RecordRecovery, Mark,
        FollowUp, Proceed
    <3>4. CASE SendAndAwait \/ ExchangeFails \/ SendUnread \/ SendRaises \/ AcceptanceSeen
      BY <3>4 DEF SendAndAwait, ExchangeFails, SendUnread, SendRaises, AcceptanceSeen, Abort, Proceed
    <3>5. CASE ReadReply
      BY <3>5 DEF ReadReply, Continue, FollowUp, Proceed
    <3> QED
      BY <1>4, <3>1, <3>2, <3>3, <3>4, <3>5 DEF RunnerStep
  <2> QED
    BY <2>1
<1>5. CASE UNCHANGED allVars
  BY <1>1, <1>5 DEF OneExchange, allVars, runnerVars
<1> QED
  BY <1>2, <1>3, <1>4, <1>5 DEF RunNext

LEMMA ExchangeNext ==
  ASSUME ProtocolInv, [RunNext]_allVars
  PROVE  OneExchange'
<1>1. ClientInv /\ Typing /\ SocketsInTurn /\ OneExchange
  BY DEF ProtocolInv
<1>2. UNCHANGED config
  BY ConfigStays
<1>3. SUFFICES ASSUME NEW c \in Conn, c = socket', peer'[c] # "closed"
               PROVE  ExchangeOn(c)'
  BY HandshakeNext DEF OneExchange, ExchangeOn
<1>4. ASSUME c = socket, peer[c] # "closed"
      PROVE  ExchangeOn(c)
  BY <1>1, <1>4 DEF OneExchange, ExchangeOn
<1>5. CASE ServerStep \/ Environment
  <2>1. c = socket /\ peer[c] # "closed"
    BY <1>1, <1>3, <1>5, OutsideStep
  <2> QED
    BY <1>2, <1>4, <1>5, <2>1, ServerKeepsExchange, EnvironmentKeepsExchange
<1>6. CASE RunnerStep /\ ~Dial
  <2>1. c = socket
    BY <1>1, <1>3, <1>6, RunnerKeepsToItsSocket
  <2>2. peer[c] # "closed"
    <3>1. at = "handshaking" => peer[c] = "none"
      BY <1>1, <2>1 DEF OneExchange
    <3>2. peer'[c] # peer[c] => at = "handshaking" \/ peer'[c] = "closed"
      BY <1>1, <1>3, <1>6, <2>1 DEF Typing, RunTypeOK, RunnerStep, CreateScenarioRun, OverlaySeen,
        CompleteScenarioRun, RequestFails, Connected, ConnectRefused, NextSequence,
        EndDeliveries, RecordReconnected, RecordDelay, ForceDisconnect, RecordRecovery, Mark,
        SendAndAwait, ExchangeFails, SendUnread, SendRaises, AcceptanceSeen, ReadReply,
        Abort, Close, Network
    <3> QED
      BY <1>3, <3>1, <3>2
  <2> QED
    BY <1>2, <1>3, <1>4, <1>6, <2>1, <2>2, RunnerKeepsExchange
<1>7. CASE Dial
  <2>1. /\ at' = "handshaking" /\ wire'[c] = NoMessage /\ pc[c] = "idle"
        /\ \A d \in Conn \ {c} : pc'[d] = pc[d]
        /\ pc'[c] # "replying" /\ UNCHANGED <<reply, attempts, sent, read>>
    BY <1>1, <1>3, <1>7, DialTakesTheNext
  <2>2. Unread(c)' \subseteq Unread(c)
    BY <2>1 DEF Unread, Positions
  <2>3. Unread(c) = {}
    BY <1>1, <2>1 DEF Unread, ClientInv, SafetyInv, BaseInv, Binding
  <2> QED
    BY <2>1, <2>2, <2>3 DEF ExchangeOn, Exchanging
<1>8. CASE UNCHANGED allVars
  <2>1. /\ Unread(c)' = Unread(c) /\ Payload' = Payload
        /\ UNCHANGED <<at, leg, wire, socket, peer>>
    BY <1>8 DEF allVars, vars, database, handlers, runnerVars, Unread, Positions, Payload,
      Current, plan, Ordinal, verdictVars
  <2>2. ExchangeOn(c)
    BY <1>3, <1>4, <2>1
  <2> QED
    BY <2>1, <2>2 DEF ExchangeOn, Exchanging, Answers
<1> QED
  BY <1>5, <1>6, <1>7, <1>8 DEF RunNext, RunnerStep

-----------------------------------------------------------------------------
(* Where the deliveries stand *)

\* Of the runner's steps, only the completion request completes the run.
LEMMA CompletedOnce ==
  ASSUME ClientInv, Typing, [RunNext]_allVars
  PROVE  Completed' => Completed \/ CompleteScenarioRun
<1>1. runs \in [Run -> {"absent", "running", "completed"}]
  BY DEF ClientInv, SafetyInv, BaseInv, TypeOK
<1>2. CASE ServerStep \/ Environment
  BY <1>2, OutsideStep DEF Completed
<1>3. CASE CreateScenarioRun
  BY <1>1, <1>3, RunnerAssumption DEF CreateScenarioRun, Server, CreateRun, Completed
<1>4. CASE Dial
  BY <1>4 DEF Dial, Server, OpenSocket, database, Completed
<1>5. CASE RecordReconnected \/ RecordDelay \/ ForceDisconnect \/ RecordRecovery
  BY <1>5 DEF RecordReconnected, RecordDelay, ForceDisconnect, RecordRecovery, Mark,
    RecordMarker, vars, database, Completed
<1>6. CASE OverlaySeen \/ RequestFails \/ Connected \/ ConnectRefused \/ NextSequence
           \/ EndDeliveries \/ SendAndAwait \/ ReadReply \/ ExchangeFails \/ SendUnread
           \/ SendRaises \/ AcceptanceSeen
  BY <1>6 DEF OverlaySeen, RequestFails, Connected, ConnectRefused, NextSequence,
    EndDeliveries, SendAndAwait, ReadReply, ExchangeFails, SendUnread, SendRaises,
    AcceptanceSeen, ServerRests, vars, database, Completed
<1>7. CASE UNCHANGED allVars
  BY <1>7 DEF allVars, vars, database, Completed
<1> QED
  BY <1>2, <1>3, <1>4, <1>5, <1>6, <1>7 DEF RunNext, RunnerStep

\* A runner that can still take a step has not completed its run.
LEMMA RunnerIsNotDone ==
  ASSUME LegsFit, RunnerStep
  PROVE  ~Completed /\ at \notin {"done", "failed"}
<1>1. CASE CreateScenarioRun \/ OverlaySeen \/ CompleteScenarioRun \/ RequestFails
  BY <1>1 DEF CreateScenarioRun, OverlaySeen, CompleteScenarioRun, RequestFails, LegsFit
<1>2. CASE Dial \/ Connected \/ ConnectRefused \/ NextSequence \/ EndDeliveries
  BY <1>2 DEF Dial, Connected, ConnectRefused, NextSequence, EndDeliveries, LegsFit
<1>3. CASE RecordReconnected \/ RecordDelay \/ ForceDisconnect \/ RecordRecovery
  BY <1>3 DEF RecordReconnected, RecordDelay, ForceDisconnect, RecordRecovery, LegsFit
<1>4. CASE SendAndAwait \/ ExchangeFails \/ SendUnread \/ SendRaises \/ AcceptanceSeen
           \/ ReadReply
  BY <1>4 DEF SendAndAwait, ExchangeFails, SendUnread, SendRaises, AcceptanceSeen, ReadReply,
    LegsFit
<1> QED
  BY <1>1, <1>2, <1>3, <1>4 DEF RunnerStep

\* After a delivery: the planned duplicate, or nothing more for this event.
LEMMA LegsAfterDelivery ==
  ASSUME Typing, LegsFit, position >= 1, leg # "duplicate" \/ Current \in plan.duplicate, FollowUp,
         ~Completed', UNCHANGED <<position, config>>
  PROVE  LegsFit'
<1>1. plan' = plan /\ Current' = Current
  BY DEF plan, Current
<1>2. /\ at' \in {"sending", "next"}
      /\ leg' = leg \/ (leg' = "duplicate" /\ Current \in plan.duplicate)
  BY DEF FollowUp, Proceed
<1> QED
  BY <1>1, <1>2 DEF LegsFit

LEMMA LegsNext ==
  ASSUME ProtocolInv, [RunNext]_allVars
  PROVE  LegsFit'
<1>1. ClientInv /\ Typing /\ LegsFit
  BY DEF ProtocolInv
<1>2. plan' = plan /\ UNCHANGED config
  BY PlanStays, ConfigStays
<1>3. position \in Nat
  BY <1>1, OrderFacts
<1>4. ASSUME UNCHANGED <<leg, position>>, ~Completed', at' \notin {"completing", "done"},
             at' # "awaiting"
      PROVE  LegsFit'
  BY <1>1, <1>2, <1>4 DEF LegsFit, Current
<1>5. CASE ServerStep \/ Environment
  <2>1. UNCHANGED <<at, leg, position>> /\ (Completed' <=> Completed)
    BY <1>1, <1>5, OutsideStep DEF Completed
  <2> QED
    BY <1>1, <1>2, <2>1 DEF LegsFit, Current
<1>6. CASE UNCHANGED allVars
  BY <1>1, <1>2, <1>6 DEF allVars, vars, database, runnerVars, LegsFit, Completed, Current
<1>7. CASE RunnerStep /\ ~CompleteScenarioRun
  <2>1. ~Completed'
    BY <1>1, <1>7, CompletedOnce, RunnerIsNotDone
  <2>2. CASE CreateScenarioRun \/ OverlaySeen \/ RequestFails \/ Dial \/ Connected \/ ConnectRefused
    BY <1>4, <2>1, <2>2 DEF CreateScenarioRun, OverlaySeen, RequestFails, Dial, Connected,
      ConnectRefused, Abort, Proceed
  <2>3. CASE RecordReconnected \/ RecordDelay \/ SendUnread \/ SendRaises \/ AcceptanceSeen
             \/ ExchangeFails
    BY <1>4, <2>1, <2>3 DEF RecordReconnected, RecordDelay, Mark, SendUnread, SendRaises,
      AcceptanceSeen, ExchangeFails, Abort, Proceed
  <2>4. CASE NextSequence
    BY <2>1, <2>4 DEF NextSequence, Proceed, LegsFit
  <2>5. CASE EndDeliveries
    BY <1>1, <1>2, <2>1, <2>5 DEF EndDeliveries, Proceed, LegsFit, Current
  <2>6. CASE SendAndAwait
    BY <1>1, <1>2, <2>1, <2>6 DEF SendAndAwait, Proceed, LegsFit, Current
  <2>7. CASE ForceDisconnect
    <3>1. Current = plan.disconnect /\ position >= 1
      BY <1>1, <2>7 DEF ForceDisconnect, Typing, Located
    <3>2. leg' = "retried" /\ at' = "dialing" /\ position' = position
      BY <2>7 DEF ForceDisconnect, Proceed
    <3> QED
      BY <1>2, <2>1, <3>1, <3>2 DEF LegsFit, Current
  <2>8. CASE RecordRecovery
    <3>1. position >= 1
      BY <1>1, <2>8 DEF RecordRecovery, Typing, Located
    <3> QED
      BY <1>1, <1>2, <2>1, <2>8, <3>1, LegsAfterDelivery DEF RecordRecovery, LegsFit
  <2>9. CASE ReadReply
    <3>1. position >= 1 /\ position' = position
      BY <1>1, <2>9 DEF ReadReply, Typing, Located
    <3>2. CASE FollowUp
      BY <1>1, <1>2, <2>1, <3>1, <3>2, LegsAfterDelivery DEF LegsFit
    <3>3. CASE Proceed("recovering") /\ UNCHANGED leg
      BY <1>4, <2>1, <3>1, <3>3 DEF Proceed
    <3> QED
      BY <2>9, <3>2, <3>3 DEF ReadReply, Continue
  <2> QED
    BY <1>7, <2>2, <2>3, <2>4, <2>5, <2>6, <2>7, <2>8, <2>9 DEF RunnerStep
<1>8. CASE CompleteScenarioRun
  <2>1. at = "completing" /\ at' \in {"done", "failed"} /\ UNCHANGED <<leg, position>>
    BY <1>8 DEF CompleteScenarioRun, Proceed
  <2> QED
    BY <1>1, <1>2, <2>1 DEF LegsFit, Current
<1> QED
  BY <1>5, <1>6, <1>7, <1>8 DEF RunNext

-----------------------------------------------------------------------------
(* What is stored, position by position *)

\* The order names each event once, so positions are counted by their events.
LEMMA PositionsAndEvents ==
  ASSUME Typing, NEW P \in SUBSET (1 .. Len(plan.order))
  PROVE  /\ IsFiniteSet(P) /\ Cardinality(P) \in Nat
         /\ Cardinality({plan.order[p] : p \in P}) = Cardinality(P)
<1> DEFINE named == {plan.order[p] : p \in P}
           name  == [p \in P |-> plan.order[p]]
<1>1. IsFiniteSet(P)
  <2>1. Len(plan.order) \in Nat
    BY OrderFacts
  <2>2. IsFiniteSet(1 .. Len(plan.order))
    BY <2>1, FS_Interval
  <2> QED
    BY <2>2, FS_Subset
<1>2. \A p, q \in P : name[p] = name[q] => p = q
  BY OrderFacts
<1>3. name \in [P -> named] /\ \A e \in named : \E p \in P : name[p] = e
  OBVIOUS
<1>4. name \in Bijection(P, named)
  BY <1>2, <1>3 DEF Bijection, Injection, Surjection, IsInjective
<1>5. ExistsBijection(P, named)
  BY <1>4 DEF ExistsBijection
<1> HIDE DEF named
<1>6. Cardinality(named) = Cardinality(P)
  BY <1>1, <1>5, FS_Bijection
<1> QED
  BY <1>1, <1>6, FS_CardinalityType DEF named

\* The valid positions, counted one by one.
LEMMA ValidRanks ==
  ASSUME Typing, NEW p \in 1 .. Len(plan.order)
  PROVE  /\ Cardinality(ValidUpTo(p)) \in Nat /\ Cardinality(ValidUpTo(p - 1)) \in Nat
         /\ Cardinality(ValidUpTo(p)) = IF ValidAt(p) THEN Cardinality(ValidUpTo(p - 1)) + 1
                                        ELSE Cardinality(ValidUpTo(p - 1))
         /\ \A q \in 1 .. Len(plan.order) : q < p =>
              Cardinality(ValidUpTo(q)) <= Cardinality(ValidUpTo(p - 1))
<1>1. Len(plan.order) \in Nat
  BY OrderFacts
<1>2. /\ ValidUpTo(p - 1) \in SUBSET (1 .. Len(plan.order)) /\ p \notin ValidUpTo(p - 1)
      /\ ValidUpTo(p) = IF ValidAt(p) THEN ValidUpTo(p - 1) \cup {p} ELSE ValidUpTo(p - 1)
  BY <1>1 DEF ValidUpTo
<1>3. IsFiniteSet(ValidUpTo(p - 1)) /\ Cardinality(ValidUpTo(p - 1)) \in Nat
  BY <1>2, PositionsAndEvents
<1>4. Cardinality(ValidUpTo(p - 1) \cup {p}) = Cardinality(ValidUpTo(p - 1)) + 1
  BY <1>2, <1>3, FS_AddElement
<1>5. ASSUME NEW q \in 1 .. Len(plan.order), q < p
      PROVE  Cardinality(ValidUpTo(q)) <= Cardinality(ValidUpTo(p - 1))
  <2>1. ValidUpTo(q) \in SUBSET ValidUpTo(p - 1)
    BY <1>1, <1>5 DEF ValidUpTo
  <2> QED
    BY <1>3, <2>1, FS_Subset
<1> QED
  BY <1>2, <1>3, <1>4, <1>5

\* A new row is of the message that its handler took from the connection.
LEMMA NewRowWasSent ==
  ASSUME ClientInv, ServerStep, NEW e \in Stored' \ Stored
  PROVE  \E c \in Conn : wire[c] \in Message /\ PersistAccepted(c, wire[c]) /\ wire[c].event = e
<1>1. BaseInv /\ [Next]_vars
  BY ServerSteps DEF ClientInv, SafetyInv
<1>2. events' # events
  BY DEF Stored, Persisted
<1>3. Len(attempts') # Len(attempts)
  <2>1. attempts \in Seq(Attempts)
    BY <1>1 DEF BaseInv, TypeOK
  <2>2. PICK c \in Conn, m \in Message : PersistAccepted(c, m)
    BY <1>1, NewRowIsCanonical
  <2>3. \E row : attempts' = Append(attempts, row)
    BY <2>2 DEF PersistAccepted, Audit
  <2> QED
    BY <2>1, <2>3
<1>4. ASSUME NEW c \in Conn, NEW m \in Message, wire[c] = m,
             Ingest(c, m) \/ RefuseDelivery(c) \/ IngestFails(c)
      PROVE  wire[c] \in Message /\ PersistAccepted(c, wire[c]) /\ wire[c].event = e
  <2>1. PersistAccepted(c, m)
    BY <1>2, <1>4 DEF Ingest, RecordRejected, RecordConflicted, PersistDuplicate,
      RefuseDelivery, IngestFails, database
  <2>2. Accepted(c, m.event)
    BY <1>1, <2>1, AcceptedDelivery
  <2>3. m.event = e
    BY <2>2 DEF Accepted
  <2> QED
    BY <1>4, <2>1, <2>3
<1>5. ASSUME NEW c \in Conn, ServeHandshake(c) \/ EndSocket(c) \/ Answer(c)
      PROVE  FALSE
  BY <1>2, <1>5 DEF ServeHandshake, EndSocket, Answer, Server, AcceptSocket, AbortHandshake,
    CloseSocket, EndHandler, SendReply, ReplyFails, database
<1>6. ASSUME NEW c \in Conn, Settle(c)
      PROVE  FALSE
  <2>1. CASE MarkReplySent(c)
    <3>1. attempts \in Seq(Attempts)
      BY <1>1 DEF BaseInv, TypeOK
    <3> QED
      BY <1>3, <2>1, <3>1 DEF MarkReplySent
  <2>2. CASE MarkFails(c) \/ ProcessEvent(c) \/ ProcessFails(c) \/ BroadcastEnds(c)
    BY <1>3, <2>2 DEF MarkFails, ProcessEvent, ProcessFails, BroadcastEnds, database
  <2> QED
    BY <1>6, <2>1, <2>2 DEF Settle, Server
<1>7. CASE CrashServer \/ RestartServer
  BY <1>3, <1>7 DEF CrashServer, RestartServer, Server, Crash, Start, Recovery, RecoverEvent,
    RecoverFails, Serve, database
<1> QED
  BY <1>4, <1>5, <1>6, <1>7 DEF ServerStep, Receive, Server

\* What the server stores next is the event under way, at its place in the order.
LEMMA NewRowFollowsPlan ==
  ASSUME ProtocolInv, ServerStep, NEW e \in Stored' \ Stored
  PROVE  /\ position \in 1 .. Len(plan.order) /\ e = plan.order[position] /\ ValidAt(position)
         /\ events'[e].arrival = Cardinality(ValidUpTo(position))
<1>1. ClientInv /\ Typing /\ BaseInv /\ StoreFollowsPlan /\ LegsFit
  BY DEF ProtocolInv, ClientInv, SafetyInv
<1>2. PICK c \in Conn : wire[c] \in Message /\ PersistAccepted(c, wire[c]) /\ wire[c].event = e
  BY <1>1, NewRowWasSent
<1>3. wire[c] # NoMessage
  BY <1>2, MessageAssumption DEF Messages, Shapes, NoMessage
<1>4. PICK p \in 1 .. position : wire[c] = PayloadOf(plan.order[p])
  BY <1>3 DEF ProtocolInv, WiresFollowPlan
<1>5. position \in 1 .. Len(plan.order) /\ p \in 1 .. Len(plan.order)
  BY <1>1, <1>4, OrderFacts
<1>6. wire[c].shape \notin {"malformed", "invalid"}
  BY <1>2 DEF PersistAccepted, Category
<1>7. ValidAt(p) /\ e = plan.order[p] /\ wire[c].run = TheRun
  BY <1>2, <1>4, <1>6 DEF PayloadOf, ValidAt
<1>8. p \notin Answered
  BY <1>1, <1>7 DEF StoreFollowsPlan, ClientInv
<1>9. p = position /\ Answered = 1 .. position - 1
  BY <1>5, <1>8 DEF Answered
<1>10. Stored = {plan.order[q] : q \in ValidUpTo(position - 1)}
  <2>1. \A d \in Stored : \E q \in ValidUpTo(position - 1) : d = plan.order[q]
    <3> SUFFICES ASSUME NEW d \in Stored
                 PROVE  \E q \in ValidUpTo(position - 1) : d = plan.order[q]
      OBVIOUS
    <3>1. PICK q \in 1 .. position : d = plan.order[q] /\ ValidAt(q)
      BY <1>1 DEF StoreFollowsPlan
    <3>2. q # position
      BY <1>7, <1>9, <3>1
    <3> QED
      BY <1>5, <3>1, <3>2 DEF ValidUpTo
  <2>2. \A q \in ValidUpTo(position - 1) : plan.order[q] \in Stored
    BY <1>1, <1>9 DEF StoreFollowsPlan, ValidUpTo, ClientInv
  <2> QED
    BY <2>1, <2>2
<1>11. Cardinality(Stored) = Cardinality(ValidUpTo(position - 1))
  <2>1. ValidUpTo(position - 1) \in SUBSET (1 .. Len(plan.order))
    BY <1>5 DEF ValidUpTo
  <2> QED
    BY <1>1, <1>10, <2>1, PositionsAndEvents
<1>12. events'[e].arrival = Cardinality(Stored) + 1
  <2>1. e \in Event /\ events \in [Event -> Rows \cup {NoRow}]
    BY <1>1, <1>2, AcceptedDelivery DEF BaseInv, TypeOK
  <2>2. events'[e] = CanonicalRow(wire[c])
    BY <1>2, <2>1 DEF PersistAccepted
  <2>3. EventsOf(TheRun) = Stored
    BY <1>1, StoredEvents DEF EventsOf
  <2> QED
    BY <1>7, <2>2, <2>3 DEF CanonicalRow
<1> QED
  BY <1>1, <1>5, <1>7, <1>9, <1>11, <1>12, ValidRanks

-----------------------------------------------------------------------------
(* What the client has counted *)

\* Only a reply that is read answers a position.
LEMMA AnsweredStays ==
  ASSUME ProtocolInv, [RunNext]_allVars, ~ReadReply
  PROVE  /\ Answered' \subseteq Answered /\ Passed' \subseteq Passed
         /\ at' # "failed" \/ Completed' =>
              Answered' = Answered /\ (at # "failed" \/ Completed)
<1>1. ClientInv /\ Typing /\ LegsFit /\ position \in Nat
  BY OrderFacts DEF ProtocolInv
<1>2. ASSUME UNCHANGED <<at, leg, position>>, Completed' <=> Completed
      PROVE  /\ Answered' = Answered /\ Passed' = Passed
             /\ (Completed' <=> Completed) /\ at' = at
  BY <1>2 DEF Answered, Passed, Between
<1>3. CASE ServerStep \/ Environment
  <2>1. UNCHANGED <<at, leg, position>> /\ (Completed' <=> Completed)
    BY <1>1, <1>3, OutsideStep DEF Completed
  <2> QED
    BY <1>2, <2>1
<1>4. CASE UNCHANGED allVars
  BY <1>2, <1>4 DEF allVars, vars, database, runnerVars, Completed
<1>5. CASE RunnerStep
  <2>1. ~Completed /\ at \notin {"done", "failed"} /\ (Completed' => CompleteScenarioRun)
    BY <1>1, <1>5, CompletedOnce, RunnerIsNotDone
  <2>2. CASE CompleteScenarioRun
    <3>1. at = "completing" /\ UNCHANGED <<leg, position>> /\ Completed'
      BY <1>1, <2>2, RunnerAssumption
      DEF CompleteScenarioRun, CompleteRun, Completed, ClientInv, SafetyInv, BaseInv, TypeOK
    <3> QED
      BY <2>1, <3>1 DEF Answered, Passed, Between
  <2>3. CASE NextSequence /\ ~CompleteScenarioRun
    <3>1. /\ at = "next" /\ position' = position + 1 /\ leg' = "planned"
          /\ at' \in {"delaying", "sending"} /\ ~Completed'
      BY <2>1, <2>3 DEF NextSequence, Proceed
    <3> QED
      BY <1>1, <2>1, <3>1 DEF Answered, Passed, Between
  <2>4. ASSUME position' = position, ~Completed',
               at' \in {"next", "recovering", "completing"} =>
                 at \in {"next", "recovering", "completing"}, at' # "done",
               at \in {"next", "recovering", "completing"} =>
                 \/ at' \in {"next", "recovering", "completing", "failed"}
                 \/ leg' = "duplicate",
               leg = "duplicate" => leg' = "duplicate",
               leg' = "duplicate" => leg = "duplicate" \/ at = "recovering"
        PROVE  /\ Answered' \subseteq Answered /\ Passed' \subseteq Passed
               /\ at' # "failed" => Answered' = Answered
    BY <1>1, <2>1, <2>4 DEF Answered, Passed, Between
  <2>5. CASE /\ ~CompleteScenarioRun
             /\ CreateScenarioRun \/ OverlaySeen \/ RequestFails \/ Dial \/ Connected
                  \/ ConnectRefused
    <3>1. /\ UNCHANGED <<position, leg>> /\ ~Completed'
          /\ \/ at' = "failed"
             \/ at' = "next" /\ position = 0
             \/ /\ at \notin {"next", "recovering", "completing"}
                /\ at' \notin {"next", "recovering", "completing", "done"}
      BY <2>1, <2>5 DEF CreateScenarioRun, OverlaySeen, RequestFails, Dial, Connected,
        ConnectRefused, Abort, Proceed
    <3> QED
      BY <1>1, <2>1, <3>1 DEF Answered, Passed, Between
  <2>6. CASE /\ ~CompleteScenarioRun
             /\ EndDeliveries \/ RecordReconnected \/ RecordDelay \/ ForceDisconnect
    BY <1>1, <2>1, <2>4, <2>6 DEF EndDeliveries, RecordReconnected, RecordDelay, Mark,
      ForceDisconnect, Proceed, Typing, Located
  <2>7. CASE /\ ~CompleteScenarioRun
             /\ SendAndAwait \/ SendUnread \/ SendRaises \/ AcceptanceSeen \/ ExchangeFails
    BY <2>1, <2>4, <2>7 DEF SendAndAwait, SendUnread, SendRaises, AcceptanceSeen, ExchangeFails,
      Abort, Proceed
  <2>8. CASE RecordRecovery /\ ~CompleteScenarioRun
    BY <2>1, <2>4, <2>8 DEF RecordRecovery, FollowUp, Proceed
  <2> QED
    BY <1>5, <2>1, <2>2, <2>3, <2>5, <2>6, <2>7, <2>8 DEF RunnerStep
<1> QED
  BY <1>1, <1>2, <1>3, <1>4, <1>5 DEF RunNext

\* The client's counters move with the replies it reads and the exchanges that fail.
LEMMA CountersMove ==
  ASSUME ClientInv, Typing, [RunNext]_allVars, ~ReadReply
  PROVE  /\ UNCHANGED <<acked, refusals, confirmed>>
         /\ retryCount' >= retryCount /\ forcedReconnects' >= forcedReconnects
         /\ leg' = "retried" => leg = "retried" \/ (retryCount' >= 1 /\ forcedReconnects' >= 1)
<1>1. retryCount \in Nat /\ forcedReconnects \in Nat
  BY DEF Typing, RunTypeOK
<1>2. CASE ServerStep \/ Environment
  BY <1>1, <1>2, OutsideStep
<1>3. CASE UNCHANGED allVars
  BY <1>1, <1>3 DEF allVars, runnerVars, counted
<1>4. CASE CreateScenarioRun \/ OverlaySeen \/ CompleteScenarioRun \/ RequestFails
  BY <1>1, <1>4 DEF CreateScenarioRun, OverlaySeen, CompleteScenarioRun, RequestFails, counted
<1>5. CASE Dial \/ Connected \/ ConnectRefused \/ NextSequence \/ EndDeliveries
  BY <1>1, <1>5 DEF Dial, Connected, ConnectRefused, NextSequence, EndDeliveries, counted
<1>6. CASE RecordReconnected \/ RecordDelay \/ RecordRecovery
  BY <1>1, <1>6 DEF RecordReconnected, RecordDelay, RecordRecovery, Mark, FollowUp, counted
<1>7. CASE SendAndAwait \/ SendUnread \/ SendRaises \/ AcceptanceSeen
  BY <1>1, <1>7 DEF SendAndAwait, SendUnread, SendRaises, AcceptanceSeen, counted
<1>8. CASE ExchangeFails \/ ForceDisconnect
  BY <1>1, <1>8 DEF ExchangeFails, ForceDisconnect
<1> QED
  BY <1>2, <1>3, <1>4, <1>5, <1>6, <1>7, <1>8 DEF RunNext, RunnerStep

\* What reading the reply to the payload under way does to the client.
LEMMA ReadingCounts ==
  ASSUME ProtocolInv, ReadReply
  PROVE  /\ position \in 1 .. Len(plan.order) /\ Current = plan.order[position]
         /\ UNCHANGED <<position, runs, events, retryCount, forcedReconnects>> /\ ~Completed
         /\ at = "awaiting" /\ acked \subseteq acked' /\ confirmed \subseteq confirmed'
         /\ IF ValidAt(position)
            THEN Current \in acked' /\ refusals' = refusals
            ELSE leg # "duplicate" /\ refusals' = [refusals EXCEPT !["rejected"] = @ + 1]
         /\ leg = "duplicate" => Current \in confirmed'
         /\ \/ leg = "retried" /\ at' = "recovering" /\ leg' = leg
            \/ leg # "retried" /\ FollowUp
<1>1. ClientInv /\ Typing /\ LegsFit /\ OneExchange
  BY DEF ProtocolInv
<1>2. PICK rep \in Unread(socket) : Observe(rep) /\ Continue(rep)
  BY DEF ReadReply
<1>3. /\ at = "awaiting" /\ socket \in Conn /\ peer[socket] # "closed"
      /\ UNCHANGED <<position, runs, events, retryCount, forcedReconnects>>
  BY <1>1 DEF ReadReply, Typing, Located, ServerRests, vars, database
<1>4. Answers(rep)
  BY <1>1, <1>2, <1>3 DEF OneExchange
<1>5. position \in 1 .. Len(plan.order) /\ Current = plan.order[position]
  BY <1>1, <1>3, OrderFacts DEF Typing, Located
<1>6. /\ Payload = PayloadOf(Current) /\ (leg = "duplicate" => ValidAt(position))
      /\ ValidAt(position) <=> MayProcess(rep.status)
  BY <1>1, <1>4, <1>5, PayloadOfCurrent DEF Answers
<1>7. rep.status \in Outcomes /\ DOMAIN refusals = {"rejected", "conflict"}
  <2>1. rep \in Replies
    BY <1>1, <1>2 DEF Unread, ClientInv, SafetyInv, BaseInv, TypeOK
  <2> QED
    BY <1>1, <2>1 DEF Replies, Typing, RunTypeOK
<1>8. CASE ValidAt(position)
  <2>1. rep.event = Current
    BY <1>4, <1>5, <1>6, <1>8 DEF Answers, PayloadOf, ClaimedEvent, ValidAt
  <2>2. rep.status \notin {"rejected", "conflict"}
    BY <1>6, <1>8 DEF MayProcess
  <2> QED
    BY <1>1, <1>2, <1>3, <1>4, <1>5, <1>6, <1>7, <1>8, <2>1, <2>2
    DEF Observe, Continue, Proceed, Answers, LegsFit
<1>9. CASE ~ValidAt(position)
  <2>1. rep.status = "rejected" /\ leg # "duplicate"
    BY <1>4, <1>6, <1>7, <1>9 DEF Answers, MayProcess, Outcomes
  <2> QED
    BY <1>1, <1>2, <1>3, <1>5, <1>6, <1>7, <1>9, <2>1 DEF Observe, Continue, Proceed, LegsFit
<1> QED
  BY <1>8, <1>9

\* Reading adds no position but the current one.
LEMMA ReadingAnswers ==
  ASSUME ProtocolInv, ReadReply, ~Completed'
  PROVE  /\ Answered' = 1 .. position
         /\ Answered = IF leg = "duplicate" THEN 1 .. position ELSE 1 .. position - 1
         /\ Passed = 1 .. position - 1
         /\ Passed' = IF at' \in {"next", "recovering"} THEN 1 .. position ELSE 1 .. position - 1
<1>1. /\ position' = position /\ ~Completed /\ at = "awaiting"
      /\ \/ leg = "retried" /\ at' = "recovering" /\ leg' = leg
         \/ leg # "retried" /\ FollowUp
  BY ReadingCounts
<1>2. \/ at' \in {"next", "recovering"}
      \/ at' = "sending" /\ leg' = "duplicate"
  BY <1>1 DEF FollowUp, Proceed
<1> QED
  BY <1>1, <1>2 DEF Answered, Passed, Between

LEMMA StoreNext ==
  ASSUME ProtocolInv, [RunNext]_allVars
  PROVE  StoreFollowsPlan'
<1>1. ClientInv /\ Typing /\ LegsFit /\ StoreFollowsPlan /\ BaseInv /\ [Next]_vars
  BY ComposedStep DEF ProtocolInv, ClientInv, SafetyInv
<1>2. plan' = plan /\ \A p : /\ ValidAt(p)' <=> ValidAt(p)
                             /\ ValidUpTo(p)' = ValidUpTo(p)
  BY PlanStays
<1>3. position \in Nat /\ position' \in 0 .. Len(plan.order) /\ Len(plan.order) \in Nat
  <2>1. Typing'
    BY <1>1, TypingNext
  <2>2. position' \in 0 .. Len(plan.order)
    BY <1>2, <2>1 DEF Typing, RunTypeOK
  <2> QED
    BY <1>1, <2>2, OrderFacts
<1>4. position' = position \/ (NextSequence /\ position' = position + 1)
  BY <1>1, PositionGrows
<1>5. ASSUME NEW e \in Stored' \ Stored
      PROVE  ServerStep
  <2>1. CASE RunnerStep \/ Environment \/ UNCHANGED allVars
    <3>1. events' = events
      BY <1>1, <2>1, RunnerSteps DEF CreateRun, OpenSocket, CompleteRun, vars, database, allVars
    <3> QED
      BY <3>1 DEF Stored, Persisted
  <2> QED
    BY <2>1 DEF RunNext
<1>6. ASSUME NEW e \in Stored' \ Stored
      PROVE  /\ position \in 1 .. Len(plan.order) /\ e = plan.order[position] /\ ValidAt(position)
             /\ events'[e].arrival = Cardinality(ValidUpTo(position))
  BY <1>5, NewRowFollowsPlan
<1>7. \A e \in Stored : e \in Stored' /\ events'[e].arrival = events[e].arrival
  <2>1. \A e \in Stored : events[e] \in Rows
    BY <1>1, StoredRows DEF BaseInv
  <2> QED
    BY <1>1, <2>1, TablesGrow DEF Rows
<1>8. ASSUME NEW e \in Stored'
      PROVE  \E p \in 1 .. position' : e = plan.order[p] /\ ValidAt(p)
  <2>1. CASE e \in Stored
    BY <1>1, <1>3, <1>4, <2>1 DEF StoreFollowsPlan
  <2>2. CASE e \notin Stored
    BY <1>3, <1>4, <1>6, <2>2
  <2> QED
    BY <2>1, <2>2
<1>9. ASSUME NEW p \in Answered', ValidAt(p)
      PROVE  plan.order[p] \in acked'
  <2>1. CASE ~ReadReply
    BY <1>1, <1>9, <2>1, AnsweredStays, CountersMove DEF StoreFollowsPlan
  <2>2. CASE ReadReply
    <3>1. ~Completed'
      BY <2>2, ReadingCounts DEF Completed
    <3>2. p \in Answered \/ p = position
      BY <1>3, <1>9, <2>2, <3>1, ReadingAnswers
    <3> QED
      BY <1>1, <1>9, <2>2, <3>2, ReadingCounts DEF StoreFollowsPlan
  <2> QED
    BY <2>1, <2>2
<1>10. ASSUME NEW p \in 1 .. position', plan.order[p] \in Stored'
       PROVE  events'[plan.order[p]].arrival = Cardinality(ValidUpTo(p))
  <2>1. p \in 1 .. Len(plan.order)
    BY <1>3
  <2>2. CASE plan.order[p] \in Stored
    <3>1. PICK q \in 1 .. position : plan.order[p] = plan.order[q]
      BY <1>1, <2>2 DEF StoreFollowsPlan
    <3>2. q = p
      BY <1>1, <1>3, <2>1, <3>1, OrderFacts
    <3> QED
      BY <1>1, <1>7, <2>2, <3>1, <3>2 DEF StoreFollowsPlan
  <2>3. CASE plan.order[p] \notin Stored
    <3>1. position \in 1 .. Len(plan.order) /\ plan.order[p] = plan.order[position]
      BY <1>6, <1>10, <2>3
    <3>2. p = position
      BY <1>1, <2>1, <3>1, OrderFacts
    <3> QED
      BY <1>6, <1>10, <2>3, <3>2
  <2> QED
    BY <2>2, <2>3
<1> QED
  BY <1>2, <1>8, <1>9, <1>10 DEF StoreFollowsPlan

LEMMA CountersNext ==
  ASSUME ProtocolInv, [RunNext]_allVars
  PROVE  CountersFollowPlan'
<1>1. ClientInv /\ Typing /\ LegsFit /\ CountersFollowPlan
  BY DEF ProtocolInv
<1>2. plan' = plan /\ \A p : ValidAt(p)' <=> ValidAt(p)
  BY PlanStays
<1>3. CASE ~ReadReply
  <2>1. /\ UNCHANGED <<acked, refusals, confirmed>>
        /\ retryCount' >= retryCount /\ forcedReconnects' >= forcedReconnects
        /\ leg' = "retried" => leg = "retried" \/ (retryCount' >= 1 /\ forcedReconnects' >= 1)
    BY <1>1, <1>3, CountersMove
  <2>2. Passed' \subseteq Passed
    BY <1>3, AnsweredStays
  <2>3. retryCount \in Nat /\ forcedReconnects \in Nat /\ retryCount' \in Nat
        /\ forcedReconnects' \in Nat
    <3>1. Typing'
      BY <1>1, TypingNext
    <3> QED
      BY <1>1, <3>1, SMTT(30) DEF Typing, RunTypeOK
  <2>4. at' # "failed" \/ Completed' =>
          refusals'.rejected = Cardinality({p \in Answered' : ~ValidAt(p)'})
    <3> SUFFICES ASSUME at' # "failed" \/ Completed'
                 PROVE  refusals'.rejected = Cardinality({p \in Answered' : ~ValidAt(p)'})
      OBVIOUS
    <3>1. Answered' = Answered /\ (at # "failed" \/ Completed)
      BY <1>3, AnsweredStays
    <3>2. {p \in Answered' : ~ValidAt(p)'} = {p \in Answered : ~ValidAt(p)}
      BY <1>2, <3>1
    <3> QED
      BY <1>1, <2>1, <3>1, <3>2 DEF CountersFollowPlan
  <2>5. leg' = "retried" \/ (\E p \in Passed' : plan.order[p] = plan.disconnect) =>
          retryCount' >= 1 /\ forcedReconnects' >= 1
    BY <1>1, <2>1, <2>2, <2>3 DEF CountersFollowPlan
  <2> QED
    BY <1>1, <1>2, <2>1, <2>2, <2>4, <2>5 DEF CountersFollowPlan
<1>4. CASE ReadReply
  <2>1. /\ position \in 1 .. Len(plan.order) /\ Current = plan.order[position]
        /\ UNCHANGED <<position, runs, retryCount, forcedReconnects>> /\ ~Completed
        /\ at = "awaiting" /\ confirmed \subseteq confirmed'
        /\ IF ValidAt(position) THEN refusals' = refusals
           ELSE leg # "duplicate" /\ refusals' = [refusals EXCEPT !["rejected"] = @ + 1]
        /\ leg = "duplicate" => Current \in confirmed'
        /\ \/ leg = "retried" /\ at' = "recovering" /\ leg' = leg
           \/ leg # "retried" /\ FollowUp
    BY <1>4, ReadingCounts
  <2>2. ~Completed'
    BY <2>1 DEF Completed
  <2>3. /\ Answered' = 1 .. position
        /\ Answered = IF leg = "duplicate" THEN 1 .. position ELSE 1 .. position - 1
        /\ Passed = 1 .. position - 1
        /\ Passed' = IF at' \in {"next", "recovering"} THEN 1 .. position ELSE 1 .. position - 1
    BY <1>4, <2>2, ReadingAnswers
  <2>4. refusals \in [{"rejected", "conflict"} -> Nat] /\ refusals.conflict = 0
    BY <1>1 DEF Typing, RunTypeOK, CountersFollowPlan
  <2>5. refusals'.rejected = Cardinality({p \in Answered' : ~ValidAt(p)})
    <3>1. refusals.rejected = Cardinality({p \in Answered : ~ValidAt(p)})
      BY <1>1, <2>1 DEF CountersFollowPlan
    <3>2. CASE ValidAt(position)
      <4>1. {p \in Answered' : ~ValidAt(p)} = {p \in Answered : ~ValidAt(p)}
        BY <2>1, <2>3, <3>2
      <4> QED
        BY <2>1, <3>1, <3>2, <4>1
    <3>3. CASE ~ValidAt(position)
      <4>1. /\ {p \in Answered' : ~ValidAt(p)} = {p \in Answered : ~ValidAt(p)} \cup {position}
            /\ position \notin {p \in Answered : ~ValidAt(p)}
        BY <2>1, <2>3, <3>3
      <4>2. IsFiniteSet({p \in Answered : ~ValidAt(p)})
        <5>1. {p \in Answered : ~ValidAt(p)} \in SUBSET (1 .. Len(plan.order))
          BY <2>1, <2>3
        <5> QED
          BY <1>1, <5>1, PositionsAndEvents
      <4>3. Cardinality({p \in Answered' : ~ValidAt(p)})
              = Cardinality({p \in Answered : ~ValidAt(p)}) + 1
        BY <4>1, <4>2, FS_AddElement
      <4> QED
        BY <2>1, <2>4, <3>1, <3>3, <4>3
    <3> QED
      BY <3>2, <3>3
  <2>6. {p \in Answered' : ~ValidAt(p)'} = {p \in Answered' : ~ValidAt(p)}
    BY <1>2
  <2>7. refusals'.conflict = 0
    BY <2>1, <2>4
  <2>8. at' = "next" \/ at' = "recovering" \/ (at' = "sending" /\ leg' = "duplicate")
    BY <2>1 DEF FollowUp, Proceed
  <2>9. position \in Passed' /\ plan.order[position] \in plan.duplicate =>
          plan.order[position] \in confirmed'
    <3>1. leg = "retried" => Current \notin plan.duplicate
      BY <1>1, OrderFacts DEF LegsFit
    <3>2. leg # "retried" /\ Current \in plan.duplicate /\ leg # "duplicate" => at' = "sending"
      BY <2>1 DEF FollowUp, Proceed
    <3> QED
      BY <2>1, <2>3, <3>1, <3>2
  <2>10. \A p \in Passed' : plan.order[p] \in plan.duplicate => plan.order[p] \in confirmed'
    <3>1. \A p \in Passed' : p \in Passed \/ p = position
      BY <2>1, <2>3
    <3> QED
      BY <1>1, <2>1, <2>9, <3>1 DEF CountersFollowPlan
  <2>11. leg' = "retried" \/ (\E p \in Passed' : plan.order[p] = plan.disconnect) =>
           leg = "retried" \/ (\E p \in Passed : plan.order[p] = plan.disconnect)
    <3>1. leg' = "retried" => leg = "retried"
      BY <2>1 DEF FollowUp
    <3>2. \A p \in Passed' : p \in Passed \/ p = position
      BY <2>1, <2>3
    <3>3. plan.order[position] = plan.disconnect => leg = "retried"
      <4>1. leg = "planned" => Current # plan.disconnect
        BY <1>1, <2>1 DEF LegsFit
      <4>2. leg = "duplicate" => Current # plan.disconnect
        BY <1>1, OrderFacts DEF LegsFit
      <4>3. leg \in Legs
        BY <1>1 DEF Typing, RunTypeOK
      <4> QED
        BY <2>1, <4>1, <4>2, <4>3 DEF Legs
    <3> QED
      BY <3>1, <3>2, <3>3
  <2> QED
    BY <1>1, <1>2, <2>1, <2>5, <2>6, <2>7, <2>10, <2>11 DEF CountersFollowPlan
<1> QED
  BY <1>3, <1>4

-----------------------------------------------------------------------------
(* The exchange is kept, and what follows from it *)

LEMMA ProtocolInit == RunInit => ProtocolInv
<1> SUFFICES ASSUME RunInit PROVE ProtocolInv
  OBVIOUS
<1>1. ClientInv /\ Typing
  BY ClientInit, TypingInit
<1>2. /\ at = "creating" /\ position = 0 /\ leg = "planned" /\ socket = 0
      /\ \A c \in Conn : pc[c] = "idle" /\ peer[c] = "none" /\ wire[c] = NoMessage
      /\ Stored = {} /\ ~Completed /\ refusals = [rejected |-> 0, conflict |-> 0]
  BY RunnerAssumption DEF RunInit, Init, Stored, Persisted, Completed
<1>3. 0 \notin Conn
  BY RunnerAssumption
<1>4. Answered = {} /\ Passed = {}
  BY <1>2 DEF Answered, Passed, Between
<1>5. Cardinality({p \in Answered : ~ValidAt(p)}) = 0
  BY <1>4, FS_EmptySet
<1>6. SocketsInTurn /\ WiresFollowPlan /\ OneExchange /\ LegsFit
  BY <1>2, <1>3 DEF SocketsInTurn, WiresFollowPlan, OneExchange, LegsFit
<1>7. StoreFollowsPlan
  BY <1>2, <1>4 DEF StoreFollowsPlan
<1>8. CountersFollowPlan
  BY <1>2, <1>4, <1>5 DEF CountersFollowPlan
<1> QED
  BY <1>1, <1>6, <1>7, <1>8 DEF ProtocolInv

LEMMA ProtocolNext == ProtocolInv /\ [RunNext]_allVars => ProtocolInv'
<1> SUFFICES ASSUME ProtocolInv, [RunNext]_allVars PROVE ProtocolInv'
  OBVIOUS
<1>1. ClientInv' /\ Typing'
  BY ClientNext, TypingNext DEF ProtocolInv
<1> QED
  BY <1>1, SocketsNext, WiresNext, ExchangeNext, LegsNext, StoreNext, CountersNext
  DEF ProtocolInv

LEMMA ProtocolInvariant == RunSpec => []ProtocolInv
BY ProtocolInit, ProtocolNext, PTL DEF RunSpec

\* The runner never matches a reply with its request, and need not: on a connection
\* that it has not closed, all it can read is the answer to the payload under way.
THEOREM RepliesAnswerRequests == RunSpec => []ReplyAnswersRequest
<1>1. ProtocolInv => ReplyAnswersRequest
  BY DEF ProtocolInv, OneExchange, ReplyAnswersRequest, Answers, Typing, Located
<1> QED
  BY <1>1, ProtocolInvariant, PTL

\* The rank of a valid position among the valid ones names it.
LEMMA RanksAreDistinct ==
  ASSUME Typing, NEW p \in 1 .. Len(plan.order), NEW q \in 1 .. Len(plan.order),
         ValidAt(p), ValidAt(q), Cardinality(ValidUpTo(p)) = Cardinality(ValidUpTo(q))
  PROVE  p = q
<1>1. ASSUME NEW i \in 1 .. Len(plan.order), NEW j \in 1 .. Len(plan.order), i < j, ValidAt(j)
      PROVE  Cardinality(ValidUpTo(i)) < Cardinality(ValidUpTo(j))
  <2>1. /\ Cardinality(ValidUpTo(j)) = Cardinality(ValidUpTo(j - 1)) + 1
        /\ Cardinality(ValidUpTo(j - 1)) \in Nat
    BY <1>1, ValidRanks
  <2>2. Cardinality(ValidUpTo(i)) \in Nat
    BY ValidRanks
  <2>3. Cardinality(ValidUpTo(i)) <= Cardinality(ValidUpTo(j - 1))
    BY <1>1, ValidRanks
  <2> QED
    BY <2>1, <2>2, <2>3
<1>2. Len(plan.order) \in Nat
  BY OrderFacts
<1>3. Cardinality(ValidUpTo(p)) \in Nat
  BY ValidRanks
<1> QED
  BY <1>1, <1>2, <1>3

\* What the plan sends first is its valid positions, in the order of their ranks.
LEMMA PlannedByRank ==
  ASSUME Typing, NEW p \in 1 .. Len(plan.order), ValidAt(p)
  PROVE  LET k == Cardinality(ValidUpTo(p)) IN
         /\ k \in 1 .. Len(PlannedArrivals(plan))
         /\ PlannedArrivals(plan)[k] = plan.order[p]
<1> DEFINE valid == {i \in DOMAIN plan.order : plan.order[i] \notin plan.invalid}
           rank(i) == Cardinality({j \in valid : j <= i})
           k == Cardinality(ValidUpTo(p))
<1>1. Len(plan.order) \in Nat /\ DOMAIN plan.order = 1 .. Len(plan.order)
  BY OrderFacts
<1>2. valid = ValidUpTo(Len(plan.order))
  BY <1>1 DEF ValidUpTo, ValidAt
<1>3. \A i \in 1 .. Len(plan.order) : {j \in valid : j <= i} = ValidUpTo(i)
  BY <1>1 DEF ValidUpTo, ValidAt
<1>4. p \in valid /\ rank(p) = k
  BY <1>1, <1>3 DEF ValidAt
<1>5. \A i \in valid : rank(i) = k => i = p
  <2> SUFFICES ASSUME NEW i \in valid, rank(i) = k PROVE i = p
    OBVIOUS
  <2>1. i \in 1 .. Len(plan.order) /\ ValidAt(i)
    BY <1>1 DEF ValidAt
  <2> QED
    BY <1>3, <2>1, RanksAreDistinct
<1>6. (CHOOSE i \in valid : rank(i) = k) = p
  BY <1>4, <1>5
<1>7. Cardinality(valid) \in Nat /\ k \in Nat /\ k >= 1 /\ k <= Cardinality(valid)
  <2>1. ValidUpTo(p) \in SUBSET valid /\ valid \in SUBSET (1 .. Len(plan.order))
    BY <1>1 DEF ValidUpTo, ValidAt
  <2>2. IsFiniteSet(valid) /\ Cardinality(valid) \in Nat
    BY <2>1, PositionsAndEvents
  <2> QED
    BY <2>1, <2>2, FS_Subset, ValidRanks
<1>8. PlannedArrivals(plan)
        = [n \in 1 .. Cardinality(valid) |-> plan.order[CHOOSE i \in valid : rank(i) = n]]
  BY DEF PlannedArrivals
<1>9. PlannedArrivals(plan)[k] = plan.order[CHOOSE i \in valid : rank(i) = k]
  BY <1>7, <1>8
<1>10. PlannedArrivals(plan)[k] = plan.order[p]
  BY <1>6, <1>9
<1> HIDE DEF k, valid
<1>11. DOMAIN PlannedArrivals(plan) = 1 .. Cardinality(valid)
  BY <1>8
<1>12. Len(PlannedArrivals(plan)) = Cardinality(valid)
  BY <1>7, <1>11
<1> QED
  BY <1>7, <1>10, <1>12 DEF k

\* Each row is where the plan has it, counted in valid events.
LEMMA RowsInPlannedOrder ==
  ASSUME ProtocolInv, ArrivalEvidence
  PROVE  /\ Len(Arrivals(TheRun)) = Cardinality(Stored)
         /\ Cardinality(Stored) <= Len(PlannedArrivals(plan))
         /\ \A i \in 1 .. Cardinality(Stored) :
              Arrivals(TheRun)[i] = PlannedArrivals(plan)[i] /\ Arrivals(TheRun)[i] \in Event
<1>1. ClientInv /\ Typing /\ StoreFollowsPlan
  BY DEF ProtocolInv
<1>2. EventsOf(TheRun) = Stored
  BY <1>1, StoredEvents DEF EventsOf
<1>3. {events[e].arrival : e \in Stored} = 1 .. Cardinality(Stored)
  BY <1>2, RunnerAssumption DEF ArrivalEvidence
<1>4. Cardinality(Stored) \in Nat /\ position \in 0 .. Len(plan.order) /\ Len(plan.order) \in Nat
  BY <1>1, FiniteTables, OrderFacts
<1>5. Arrivals(TheRun)
        = [i \in 1 .. Cardinality(Stored) |-> CHOOSE e \in Stored : events[e].arrival = i]
  BY <1>2 DEF Arrivals
<1>6. ASSUME NEW i \in 1 .. Cardinality(Stored)
      PROVE  /\ Arrivals(TheRun)[i] = PlannedArrivals(plan)[i] /\ Arrivals(TheRun)[i] \in Event
             /\ i <= Len(PlannedArrivals(plan))
  <2> DEFINE e == CHOOSE d \in Stored : events[d].arrival = i
  <2>1. \E d \in Stored : events[d].arrival = i
    BY <1>3
  <2>2. e \in Stored /\ events[e].arrival = i
    BY <2>1
  <2>3. Arrivals(TheRun)[i] = e
    BY <1>5
  <2> HIDE DEF e
  <2>4. PICK p \in 1 .. position : e = plan.order[p] /\ ValidAt(p)
    BY <1>1, <2>2 DEF StoreFollowsPlan
  <2>5. i = Cardinality(ValidUpTo(p))
    BY <1>1, <2>2, <2>4 DEF StoreFollowsPlan
  <2>6. p \in 1 .. Len(plan.order)
    BY <1>4
  <2>7. i \in 1 .. Len(PlannedArrivals(plan)) /\ PlannedArrivals(plan)[i] = plan.order[p]
    BY <1>1, <2>4, <2>5, <2>6, PlannedByRank
  <2> QED
    BY <2>2, <2>3, <2>4, <2>7 DEF Stored
<1>7. DOMAIN Arrivals(TheRun) = 1 .. Cardinality(Stored)
  BY <1>5
<1>8. Len(Arrivals(TheRun)) = Cardinality(Stored)
  BY <1>4, <1>7
<1>9. Len(PlannedArrivals(plan)) \in Nat
  <2> DEFINE valid == {i \in DOMAIN plan.order : plan.order[i] \notin plan.invalid}
  <2>1. valid \in SUBSET (1 .. Len(plan.order))
    BY <1>1, OrderFacts
  <2>2. Cardinality(valid) \in Nat
    BY <1>1, <2>1, PositionsAndEvents
  <2>3. DOMAIN PlannedArrivals(plan) = 1 .. Cardinality(valid)
    BY DEF PlannedArrivals
  <2> HIDE DEF valid
  <2> QED
    BY <2>2, <2>3
<1>10. Cardinality(Stored) <= Len(PlannedArrivals(plan))
  <2>1. CASE Cardinality(Stored) = 0
    BY <1>9, <2>1
  <2>2. CASE Cardinality(Stored) # 0
    <3>1. Cardinality(Stored) \in 1 .. Cardinality(Stored)
      BY <1>4, <2>2
    <3> QED
      BY <1>6, <3>1
  <2> QED
    BY <2>1, <2>2
<1> QED
  BY <1>6, <1>8, <1>10

\* Retries, broken connections and handlers of abandoned sockets never reorder a run:
\* its rows in order of arrival are at every moment the first of the planned ones.
THEOREM ArrivalsFollowPlan == RunSpec => []ArrivalFollowsPlan
<1>1. ProtocolInv /\ ArrivalEvidence => ArrivalFollowsPlan
  <2> SUFFICES ASSUME ProtocolInv, ArrivalEvidence PROVE ArrivalFollowsPlan
    OBVIOUS
  <2> DEFINE n == Cardinality(Stored)
             A == Arrivals(TheRun)
             P == PlannedArrivals(plan)
  <2>1. n \in Nat
    BY FiniteTables
  <2>2. Len(A) = n /\ n <= Len(P) /\ \A i \in 1 .. n : A[i] = P[i] /\ A[i] \in Event
    BY RowsInPlannedOrder
  <2> HIDE DEF n, A, P
  <2>3. SubSeq(A, 1, n) = SubSeq(P, 1, n)
    BY <2>1, <2>2
  <2> QED
    BY <2>2, <2>3 DEF ArrivalFollowsPlan, IsPrefix, A, P
<1>2. RunSpec => []ArrivalEvidence
  BY CompositionKeepsIngestion, ArrivalsAreExact, PTL DEF ServerRefines
<1> QED
  BY <1>1, <1>2, ProtocolInvariant, PTL

\* When a run is completed, the client has reconciled it.
LEMMA CompletedReconciles ==
  ASSUME ProtocolInv, Completed
  PROVE  /\ Reconciled
         /\ Stored = Manifest[TheRun] \ plan.invalid
<1>1. ClientInv /\ Typing /\ LegsFit /\ StoreFollowsPlan /\ CountersFollowPlan
  BY DEF ProtocolInv
<1>2. position = Len(plan.order) /\ Answered = 1 .. Len(plan.order) /\ Passed = 1 .. Len(plan.order)
  BY <1>1 DEF LegsFit, Answered, Passed, Between
<1>3. \A e \in Stored : e \in Manifest[TheRun] \ plan.invalid
  <2> SUFFICES ASSUME NEW e \in Stored PROVE e \in Manifest[TheRun] \ plan.invalid
    OBVIOUS
  <2>1. PICK p \in 1 .. position : e = plan.order[p] /\ ValidAt(p)
    BY <1>1 DEF StoreFollowsPlan
  <2> QED
    BY <1>1, <1>2, <2>1, OrderFacts DEF ValidAt
<1>4. \A e \in Manifest[TheRun] \ plan.invalid : e \in acked
  <2> SUFFICES ASSUME NEW e \in Manifest[TheRun] \ plan.invalid PROVE e \in acked
    OBVIOUS
  <2>1. PICK p \in 1 .. Len(plan.order) : plan.order[p] = e
    BY <1>1, OrderFacts
  <2> QED
    BY <1>1, <1>2, <2>1 DEF StoreFollowsPlan, ValidAt
<1>5. acked \subseteq Stored
  BY <1>1 DEF ClientInv
<1>6. acked = Manifest[TheRun] \ plan.invalid /\ Stored = Manifest[TheRun] \ plan.invalid
  BY <1>3, <1>4, <1>5
<1>7. refusals.rejected = Cardinality(plan.invalid)
  <2> DEFINE refused == {p \in 1 .. Len(plan.order) : ~ValidAt(p)}
  <2>1. refusals.rejected = Cardinality(refused)
    BY <1>1, <1>2 DEF CountersFollowPlan
  <2>2. Cardinality({plan.order[p] : p \in refused}) = Cardinality(refused)
    BY <1>1, PositionsAndEvents
  <2>3. \A p \in refused : plan.order[p] \in plan.invalid
    BY DEF ValidAt
  <2>4. ASSUME NEW e \in plan.invalid
        PROVE  \E p \in refused : plan.order[p] = e
    <3>1. PICK p \in 1 .. Len(plan.order) : plan.order[p] = e
      BY <1>1, OrderFacts
    <3> QED
      BY <3>1 DEF ValidAt
  <2>5. {plan.order[p] : p \in refused} = plan.invalid
    BY <2>3, <2>4
  <2> QED
    BY <2>1, <2>2, <2>5
<1>8. plan.duplicate \subseteq confirmed
  <2> SUFFICES ASSUME NEW e \in plan.duplicate PROVE e \in confirmed
    OBVIOUS
  <2>1. PICK p \in 1 .. Len(plan.order) : plan.order[p] = e
    BY <1>1, OrderFacts
  <2> QED
    BY <1>1, <1>2, <2>1 DEF CountersFollowPlan
<1>9. plan.disconnect # None => retryCount >= 1 /\ forcedReconnects >= 1
  <2> SUFFICES ASSUME plan.disconnect # None PROVE retryCount >= 1 /\ forcedReconnects >= 1
    OBVIOUS
  <2>1. PICK p \in 1 .. Len(plan.order) : plan.order[p] = plan.disconnect
    BY <1>1, OrderFacts
  <2> QED
    BY <1>1, <1>2, <2>1 DEF CountersFollowPlan
<1>10. refusals.conflict = 0
  BY <1>1 DEF CountersFollowPlan
<1> QED
  BY <1>2, <1>6, <1>7, <1>8, <1>9, <1>10 DEF Reconciled

\* The completion request is the client's last word: only a runner that has reconciled
\* its run completes it, so no verdict on a completed run, PASS included, meets a client
\* that knows of a delivery missing, refused or unconfirmed.
THEOREM CompletedIsReconciled == RunSpec => [](runs[TheRun] = "completed" => Reconciled)
<1>1. ProtocolInv => (runs[TheRun] = "completed" => Reconciled)
  BY CompletedReconciles DEF Completed
<1> QED
  BY <1>1, ProtocolInvariant, PTL

\* A PASS is never given to a run whose client did not reconcile it, also when the
\* response to the completion was lost and the runner has failed.
THEOREM PassesAreEarned == RunSpec => []PassIsEarned
<1>1. ProtocolInv => PassIsEarned
  BY CompletedReconciles DEF Completed, PassIsEarned, TheVerdict, OverviewVerdict
<1> QED
  BY <1>1, ProtocolInvariant, PTL

=============================================================================
