--------------------------- MODULE IngestionSafety ---------------------------
(***************************************************************************)
(* Theorems about what Ingestion stores and what it tells its sources, for *)
(* every set of runs, events and sockets.  StepKinds sorts the steps by    *)
(* what they do to the database; each property then has one case a kind.   *)
(***************************************************************************)
EXTENDS IngestionProofs

\* The deliveries, the events and the successful effects stay as they are.
Quiet ==
  /\ UNCHANGED <<attempts, events>>
  /\ \A e \in Event : /\ effects'[e].success = effects[e].success
                      /\ effects'[e].failure >= effects[e].failure

\* The handler of c stores an attempt for the open run its socket is bound to.
Audited(c) ==
  /\ bound[c] \in Run /\ AcceptingDeliveries(bound[c])
  /\ Len(attempts) < MaxAttempts
  /\ Positions' = Positions \cup {Len(attempts) + 1}
  /\ Len(attempts) + 1 \notin Positions
  /\ \A i \in Positions : attempts'[i] = attempts[i]
  /\ attempts'[Len(attempts) + 1].conn = c
  /\ attempts'[Len(attempts) + 1].run = bound[c]
  /\ attempts'[Len(attempts) + 1].replied = FALSE
  /\ UNCHANGED <<runs, report, effects, bound, sent>>

\* The message changed nothing: it was refused, or repeats a stored event.
Unaccepted(c) ==
  /\ Audited(c)
  /\ attempts'[Len(attempts) + 1].outcome # "accepted"
  /\ attempts'[Len(attempts) + 1].outcome = "duplicate"
       => attempts'[Len(attempts) + 1].event \in Stored
  /\ UNCHANGED events

\* The message made e a canonical row of that run.
Accepted(c, e) ==
  /\ Audited(c)
  /\ attempts'[Len(attempts) + 1].outcome = "accepted"
  /\ attempts'[Len(attempts) + 1].event = e
  /\ e \in Event \ Stored
  /\ Stored' = Stored \cup {e}
  /\ \A d \in Event : d # e => events'[d] = events[d]
  /\ events'[e].run = bound[c]
  /\ events'[e].processed = FALSE /\ events'[e].acked = FALSE

\* A reply that was sent is marked in its attempt and, if it acknowledged an event,
\* in the event's row.
Marked(rep) ==
  /\ rep \in sent /\ Durable(rep)
  /\ Positions' = Positions
  /\ \A i \in Positions :
       attempts'[i] = IF i = rep.attempt THEN [attempts[i] EXCEPT !.replied = TRUE]
                      ELSE attempts[i]
  /\ Stored' = Stored
  /\ \A e \in Stored :
       events'[e] = IF e = rep.event /\ MayProcess(rep.status)
                    THEN [events[e] EXCEPT !.acked = TRUE] ELSE events[e]
  /\ UNCHANGED <<runs, report, effects, bound, sent>>

\* The first effect of a stored event.
Effected(e) ==
  /\ e \in Unprocessed
  /\ Stored' = Stored
  /\ \A d \in Stored :
       events'[d] = IF d = e THEN [events[d] EXCEPT !.processed = TRUE] ELSE events[d]
  /\ effects' = [effects EXCEPT ![e].success = @ + 1]
  /\ UNCHANGED <<runs, report, attempts, bound, sent>>

-----------------------------------------------------------------------------
(* The kinds of steps *)

\* An attempt stored by a handler that is receiving.
LEMMA AuditIsAudited ==
  ASSUME BaseInv, NEW c \in Conn, NEW e \in Event \cup {NoEvent},
         NEW outcome \in Outcomes, NEW category \in Categories, Receiving(c),
         Audit(c, bound[c], e, outcome, category),
         UNCHANGED <<runs, report, effects, bound, sent>>
  PROVE  /\ Audited(c)
         /\ attempts'[Len(attempts) + 1].outcome = outcome
         /\ attempts'[Len(attempts) + 1].event = e
<1>1. TypeOK /\ pc[c] = "receiving" /\ bound[c] \in Run /\ Len(attempts) < MaxAttempts
  BY DEF BaseInv, Receiving, Binding
<1>2. AcceptingDeliveries(bound[c])
  BY DEF Audit
<1>3. /\ Positions' = Positions \cup {Len(attempts) + 1}
      /\ Len(attempts) + 1 \notin Positions
      /\ \A i \in Positions : attempts'[i] = attempts[i]
      /\ attempts'[Len(attempts) + 1] =
           [conn |-> c, run |-> bound[c], event |-> e, outcome |-> outcome,
            category |-> category, replied |-> FALSE]
  BY <1>1, AuditAppends
<1> QED
  BY <1>1, <1>2, <1>3 DEF Audited

\* A delivery that creates no canonical row.
LEMMA RefusedOrRepeated ==
  ASSUME BaseInv, NEW c \in Conn, NEW m \in Message,
         RecordRejected(c, m) \/ RecordConflicted(c, m) \/ PersistDuplicate(c, m)
  PROVE  Unaccepted(c)
<1>1. Receiving(c) /\ pc[c] = "receiving"
  BY DEF RecordRejected, RecordConflicted, PersistDuplicate, Receiving
<1>2. bound[c] \in Run
  BY <1>1 DEF BaseInv, Binding
<1>3. UNCHANGED <<runs, report, events, effects, bound, sent>>
  BY DEF RecordRejected, RecordConflicted, PersistDuplicate
<1>4. {"rejected", "conflict", "duplicate"} \subseteq Outcomes
      /\ {"none", "event_id_conflict"} \subseteq Categories
  BY DEF Outcomes, Categories
<1>5. CASE RecordRejected(c, m)
  <2>1. Category(m, bound[c]) \in Categories /\ ClaimedEvent(m) \in Event \cup {NoEvent}
    BY <1>2, CategoryFacts
  <2>2. Audit(c, bound[c], ClaimedEvent(m), "rejected", Category(m, bound[c]))
    BY <1>5 DEF RecordRejected
  <2> QED
    BY <1>1, <1>3, <1>4, <2>1, <2>2, AuditIsAudited DEF Unaccepted
<1>6. CASE RecordConflicted(c, m)
  <2>1. m.run = bound[c] /\ m.event \in Event
    BY <1>2, <1>6, CategoryFacts DEF RecordConflicted
  <2>2. Audit(c, bound[c], m.event, "conflict", "event_id_conflict")
    BY <1>6, <2>1 DEF RecordConflicted
  <2> QED
    BY <1>1, <1>3, <1>4, <2>1, <2>2, AuditIsAudited DEF Unaccepted
<1>7. CASE PersistDuplicate(c, m)
  <2>1. m.run = bound[c] /\ m.event \in Event /\ m.event \in Stored
    BY <1>2, <1>7, CategoryFacts DEF PersistDuplicate, Stored
  <2>2. Audit(c, bound[c], m.event, "duplicate", "none")
    BY <1>7, <2>1 DEF PersistDuplicate
  <2> QED
    BY <1>1, <1>3, <1>4, <2>1, <2>2, AuditIsAudited DEF Unaccepted
<1> QED
  BY <1>5, <1>6, <1>7

\* A delivery that creates one.
LEMMA AcceptedDelivery ==
  ASSUME BaseInv, NEW c \in Conn, NEW m \in Message, PersistAccepted(c, m)
  PROVE  m.event \in Event /\ Accepted(c, m.event)
<1>1. Receiving(c) /\ pc[c] = "receiving"
  BY DEF PersistAccepted, Receiving
<1>2. bound[c] \in Run
  BY <1>1 DEF BaseInv, Binding
<1>3. m.run = bound[c] /\ m.event \in Event
  BY <1>2, CategoryFacts DEF PersistAccepted
<1>4. /\ Audited(c)
      /\ attempts'[Len(attempts) + 1].outcome = "accepted"
      /\ attempts'[Len(attempts) + 1].event = m.event
  <2>1. "accepted" \in Outcomes /\ "none" \in Categories
    BY DEF Outcomes, Categories
  <2>2. /\ Audit(c, bound[c], m.event, "accepted", "none")
        /\ UNCHANGED <<runs, report, effects, bound, sent>>
    BY <1>3 DEF PersistAccepted
  <2> QED
    BY <1>1, <1>3, <2>1, <2>2, AuditIsAudited
<1>5. /\ events' = [events EXCEPT ![m.event] = CanonicalRow(m)]
      /\ CanonicalRow(m) \in Rows /\ CanonicalRow(m).run = bound[c]
  BY <1>2, <1>3, CanonicalRowType DEF PersistAccepted, BaseInv
<1>6. CanonicalRow(m).processed = FALSE /\ CanonicalRow(m).acked = FALSE
  BY DEF CanonicalRow
<1>7. /\ events'[m.event] = CanonicalRow(m)
      /\ \A d \in Event : d # m.event => events'[d] = events[d]
  BY <1>3, <1>5 DEF BaseInv, TypeOK
<1>8. CanonicalRow(m) # NoRow
  BY <1>2, <1>5, NullAssumption DEF NoRow
<1>9. m.event \notin Stored /\ Stored' = Stored \cup {m.event}
  BY <1>3, <1>7, <1>8 DEF Stored, Persisted, PersistAccepted
<1> QED
  BY <1>3, <1>4, <1>5, <1>6, <1>7, <1>9 DEF Accepted

\* The transaction of mark_delivery_reply_sent.
LEMMA MarkedDelivery ==
  ASSUME BaseInv, NEW c \in Conn, MarkReplySent(c)
  PROVE  Marked(reply[c])
<1>1. TypeOK /\ reply[c] \in sent /\ Durable(reply[c])
  BY DEF BaseInv, PendingReplies, MarkReplySent
<1>2. UNCHANGED <<runs, report, effects, bound, sent>>
  BY DEF MarkReplySent
<1> QED
  BY <1>1, <1>2, MarkTables DEF Marked

\* A stored effect is the event's first.
LEMMA FirstEffect ==
  ASSUME BaseInv, NEW e \in Unprocessed, StoreEffect(e),
         UNCHANGED <<runs, report, attempts, bound, sent>>
  PROVE  Effected(e)
<1>1. TypeOK /\ e \in Stored
  BY DEF BaseInv, Unprocessed
<1>2. effects' = [effects EXCEPT ![e].success = @ + 1]
  BY DEF StoreEffect
<1> QED
  BY <1>1, <1>2, EffectTables DEF Effected

\* A step of process_event or of recovery that fails adds failure evidence at most.
LEMMA FailureIsQuiet ==
  ASSUME TypeOK, NEW e \in Event, ProcessingFailure(e), UNCHANGED <<attempts, events>>
  PROVE  Quiet
<1>1. effects \in [Event -> [success : Nat, failure : Nat]]
  BY DEF TypeOK
<1>2. CASE UNCHANGED effects
  BY <1>1, <1>2 DEF Quiet
<1>3. CASE effects' = [effects EXCEPT ![e].failure = @ + 1]
  BY <1>1, <1>3 DEF Quiet
<1> QED
  BY <1>2, <1>3 DEF ProcessingFailure

\* A step that leaves the three tables alone.
LEMMA UnchangedIsQuiet ==
  ASSUME TypeOK, UNCHANGED <<attempts, events, effects>>
  PROVE  Quiet
<1>1. effects \in [Event -> [success : Nat, failure : Nat]]
  BY DEF TypeOK
<1> QED
  BY <1>1 DEF Quiet

\* Every step of a handler is of one of the kinds.
LEMMA HandlerKinds ==
  ASSUME BaseInv, NEW c \in Conn, Handler(c)
  PROVE  \/ Quiet
         \/ Unaccepted(c)
         \/ \E e \in Event : Accepted(c, e)
         \/ \E rep \in sent : Marked(rep)
         \/ \E e \in Event : Effected(e)
<1>1. TypeOK
  BY DEF BaseInv
<1>2. CASE (\E r \in Run : OpenSocket(c, r)) \/ AcceptSocket(c) \/ AbortHandshake(c)
           \/ CloseSocket(c) \/ RefuseDelivery(c) \/ SendReply(c) \/ ReplyFails(c)
           \/ MarkFails(c) \/ BroadcastEnds(c)
  <2>1. UNCHANGED <<attempts, events, effects>>
    BY <1>2 DEF OpenSocket, AcceptSocket, AbortHandshake, CloseSocket, EndHandler,
       RefuseDelivery, SendReply, ReplyFails, MarkFails, BroadcastEnds, database
  <2> QED
    BY <1>1, <2>1, UnchangedIsQuiet
<1>3. CASE \E m \in Message : Ingest(c, m)
  BY <1>3, RefusedOrRepeated, AcceptedDelivery DEF Ingest
<1>4. CASE IngestFails(c)
  <2>1. UNCHANGED <<runs, report, events, effects, bound, sent>>
    BY <1>4 DEF IngestFails
  <2>2. CASE UNCHANGED attempts
    BY <1>1, <2>1, <2>2, UnchangedIsQuiet
  <2>3. CASE Audit(c, bound[c], NoEvent, "rejected", "internal_error")
    <3>1. "rejected" \in Outcomes /\ "internal_error" \in Categories /\ Receiving(c)
      BY <1>4 DEF Outcomes, Categories, IngestFails
    <3> QED
      BY <2>1, <2>3, <3>1, AuditIsAudited DEF Unaccepted
  <2> QED
    BY <1>4, <2>2, <2>3 DEF IngestFails
<1>5. CASE MarkReplySent(c)
  BY <1>5, MarkedDelivery DEF Marked
<1>6. CASE ProcessEvent(c)
  <2>1. reply[c].event \in Stored
    BY <1>6 DEF BaseInv, PendingReplies, ProcessEvent, Durable
  <2>2. CASE events[reply[c].event].processed
    BY <1>1, <1>6, <2>2, UnchangedIsQuiet DEF ProcessEvent
  <2>3. CASE ~events[reply[c].event].processed
    <3>1. reply[c].event \in Unprocessed /\ reply[c].event \in Event
      BY <2>1, <2>3 DEF Unprocessed, Stored
    <3>2. StoreEffect(reply[c].event) /\ UNCHANGED <<runs, report, attempts, bound, sent>>
      BY <1>6, <2>3 DEF ProcessEvent
    <3> QED
      BY <3>1, <3>2, FirstEffect
  <2> QED
    BY <2>2, <2>3
<1>7. CASE ProcessFails(c)
  <2>1. reply[c].event \in Event
    BY <1>7 DEF BaseInv, PendingReplies, ProcessFails, Durable, Stored
  <2> QED
    BY <1>1, <1>7, <2>1, FailureIsQuiet DEF ProcessFails
<1> QED
  BY <1>2, <1>3, <1>4, <1>5, <1>6, <1>7 DEF Handler

\* Every step is of one of the kinds.
LEMMA StepKinds ==
  ASSUME BaseInv, [Next]_vars
  PROVE  \/ Quiet
         \/ \E c \in Conn : Unaccepted(c)
         \/ \E c \in Conn, e \in Event : Accepted(c, e)
         \/ \E rep \in sent : Marked(rep)
         \/ \E e \in Event : Effected(e)
<1>1. TypeOK
  BY DEF BaseInv
<1>2. CASE \E c \in Conn : Handler(c)
  BY <1>2, HandlerKinds
<1>3. CASE \E e \in Event : Recovery(e)
  <2>1. PICK e \in Event : Recovery(e)
    BY <1>3
  <2>2. e \in Stored /\ UNCHANGED <<runs, report, attempts, bound, sent>>
    BY <2>1 DEF Recovery, RecoverEvent, RecoverFails, NextToRecover, BaseInv, Phases, handlers
  <2>3. CASE RecoverFails(e)
    BY <1>1, <2>3, FailureIsQuiet DEF RecoverFails
  <2>4. CASE RecoverEvent(e) /\ events[e].processed
    BY <1>1, <2>2, <2>4, UnchangedIsQuiet DEF RecoverEvent
  <2>5. CASE RecoverEvent(e) /\ ~events[e].processed
    <3>1. e \in Unprocessed /\ StoreEffect(e)
      BY <2>2, <2>5 DEF RecoverEvent, Unprocessed
    <3> QED
      BY <2>2, <3>1, FirstEffect
  <2> QED
    BY <2>1, <2>3, <2>4, <2>5 DEF Recovery
<1>4. CASE (\E r \in Run : CreateRun(r)) \/ Crash \/ Start \/ Serve \/ UNCHANGED vars
           \/ (\E r \in Run : \E acked \in 0 .. Cardinality(Manifest[r]) : CompleteRun(r, acked))
  <2>1. UNCHANGED <<attempts, events, effects>>
    BY <1>4 DEF CreateRun, CompleteRun, Crash, Start, Serve, vars, database
  <2> QED
    BY <1>1, <2>1, UnchangedIsQuiet
<1> QED
  BY <1>2, <1>3, <1>4 DEF Next

-----------------------------------------------------------------------------
(* What steps do beside the tables *)

\* A reply that is put on the wire was true of the tables when it left.
LEMMA SentRepliesAreTrue ==
  ASSUME BaseInv, [Next]_vars
  PROVE  sent \subseteq sent' /\ \A rep \in sent' \ sent : Durable(rep)
<1>1. CASE \E c \in Conn : SendReply(c)
  BY <1>1 DEF SendReply, BaseInv, PendingReplies
<1>2. CASE Crash
  BY <1>2 DEF Crash, BaseInv, PendingReplies
<1>3. CASE sent' = sent
  BY <1>3
<1>4. \/ \E c \in Conn : SendReply(c)
      \/ Crash
      \/ sent' = sent
  <2>1. ASSUME NEW c \in Conn, Handler(c)
        PROVE  SendReply(c) \/ sent' = sent
    BY <2>1 DEF Handler, OpenSocket, AcceptSocket, AbortHandshake, CloseSocket, EndHandler,
       Ingest, RecordRejected, RecordConflicted, PersistDuplicate, PersistAccepted,
       RefuseDelivery, IngestFails, ReplyFails, MarkReplySent, MarkFails, ProcessEvent,
       ProcessFails, BroadcastEnds
  <2>2. ASSUME NEW e \in Event, Recovery(e)
        PROVE  sent' = sent
    BY <2>2 DEF Recovery, RecoverEvent, RecoverFails
  <2> QED
    BY <2>1, <2>2 DEF Next, CreateRun, CompleteRun, Start, Serve, vars
<1> QED
  BY <1>1, <1>2, <1>3, <1>4

\* A socket keeps its run.
LEMMA BindingIsFixed ==
  ASSUME BaseInv, [Next]_vars, NEW c \in Conn, pc[c] # "idle"
  PROVE  bound'[c] = bound[c]
<1>1. ASSUME NEW d \in Conn, Handler(d)
      PROVE  (\E r \in Run : OpenSocket(d, r)) \/ bound' = bound
  BY <1>1 DEF Handler, AcceptSocket, AbortHandshake, CloseSocket, EndHandler,
     Ingest, RecordRejected, RecordConflicted, PersistDuplicate, PersistAccepted,
     RefuseDelivery, IngestFails, SendReply, ReplyFails, MarkReplySent, MarkFails,
     ProcessEvent, ProcessFails, BroadcastEnds
<1>2. ASSUME NEW d \in Conn, NEW r \in Run, OpenSocket(d, r)
      PROVE  bound'[c] = bound[c]
  <2>1. d # c /\ bound \in [Conn -> Run \cup {NoRun}]
    BY <1>2 DEF OpenSocket, BaseInv, TypeOK
  <2> QED
    BY <1>2, <2>1 DEF OpenSocket
<1>3. ASSUME NEW e \in Event, Recovery(e)
      PROVE  bound' = bound
  BY <1>3 DEF Recovery, RecoverEvent, RecoverFails, handlers
<1> QED
  BY <1>1, <1>2, <1>3 DEF Next, CreateRun, CompleteRun, Crash, Start, Serve, vars, handlers

\* A completed run keeps its status and what its completion reported.
LEMMA CompletionIsFinal ==
  ASSUME BaseInv, [Next]_vars, NEW r \in Run, runs[r] = "completed"
  PROVE  runs'[r] = "completed" /\ report'[r] = report[r]
<1>1. ASSUME NEW c \in Conn, Handler(c)
      PROVE  UNCHANGED <<runs, report>>
  BY <1>1 DEF Handler, OpenSocket, AcceptSocket, AbortHandshake, CloseSocket, EndHandler,
     Ingest, RecordRejected, RecordConflicted, PersistDuplicate, PersistAccepted,
     RefuseDelivery, IngestFails, SendReply, ReplyFails, MarkReplySent, MarkFails,
     ProcessEvent, ProcessFails, BroadcastEnds, database
<1>2. ASSUME NEW e \in Event, Recovery(e)
      PROVE  UNCHANGED <<runs, report>>
  BY <1>2 DEF Recovery, RecoverEvent, RecoverFails
<1>3. CASE Crash \/ Start \/ Serve \/ UNCHANGED vars
  BY <1>3 DEF Crash, Start, Serve, vars, database
<1>4. ASSUME NEW s \in Run,
             CreateRun(s) \/ \E acked \in 0 .. Cardinality(Manifest[s]) : CompleteRun(s, acked)
      PROVE  runs'[r] = "completed" /\ report'[r] = report[r]
  <2>1. s # r
    BY <1>4 DEF CreateRun, CompleteRun
  <2> QED
    BY <1>4, <2>1 DEF CreateRun, CompleteRun, BaseInv, TypeOK
<1> QED
  BY <1>1, <1>2, <1>3, <1>4 DEF Next

-----------------------------------------------------------------------------
(* Evidence *)

\* What a stored row is, and which of its parts a flag leaves alone.
LEMMA FlagsOfRows ==
  ASSUME TypeOK, NEW e \in Stored
  PROVE  /\ events[e] \in Rows
         /\ [events[e] EXCEPT !.acked = TRUE].run = events[e].run
         /\ [events[e] EXCEPT !.acked = TRUE].processed = events[e].processed
         /\ [events[e] EXCEPT !.processed = TRUE].run = events[e].run
         /\ [events[e] EXCEPT !.processed = TRUE].acked = events[e].acked
         /\ [events[e] EXCEPT !.processed = TRUE].processed = TRUE
BY StoredRows DEF Rows

\* Attempts and canonical rows are only ever added; of one that is stored, only flags
\* change, and only from false to true.
LEMMA TablesGrow ==
  ASSUME BaseInv, [Next]_vars
  PROVE  /\ Positions \subseteq Positions' /\ Stored \subseteq Stored'
         /\ \A i \in Positions :
              attempts'[i] = attempts[i] \/ attempts'[i] = [attempts[i] EXCEPT !.replied = TRUE]
         /\ \A e \in Stored :
              \/ events'[e] = events[e]
              \/ events'[e] = [events[e] EXCEPT !.acked = TRUE]
              \/ events'[e] = [events[e] EXCEPT !.processed = TRUE]
<1>1. CASE Quiet
  BY <1>1, DatabaseUnchanged DEF Quiet, Stored, Persisted, Positions
<1>2. CASE \E c \in Conn : Unaccepted(c)
  BY <1>2 DEF Unaccepted, Audited, Stored, Persisted
<1>3. CASE \E c \in Conn, e \in Event : Accepted(c, e)
  BY <1>3 DEF Audited, Accepted, Stored
<1>4. CASE \E rep \in sent : Marked(rep)
  BY <1>4 DEF Marked
<1>5. CASE \E e \in Event : Effected(e)
  BY <1>5 DEF Effected, Positions
<1> QED
  BY <1>1, <1>2, <1>3, <1>4, <1>5, StepKinds

\* A reply, once true, stays true.
LEMMA DurableForGood ==
  ASSUME BaseInv, [Next]_vars, NEW rep, Durable(rep)
  PROVE  Durable(rep)'
<1>1. TypeOK
  BY DEF BaseInv
<1>2. \A i \in Positions : attempts'[i].event = attempts[i].event
                        /\ attempts'[i].outcome = attempts[i].outcome
  BY <1>1, TablesGrow, AttemptRows DEF Attempts
<1> QED
  BY <1>2, TablesGrow, DurableStays

\* The attempts that made an event a row: OneAcceptedAttempt says there is one for each row.
Acceptances(e) ==
  {i \in Positions : attempts[i].event = e /\ attempts[i].outcome = "accepted"}

UniqueAcceptance(e) ==
  /\ e \in Stored <=> Acceptances(e) # {}
  /\ \A i, j \in Acceptances(e) : i = j
  /\ \A i \in Acceptances(e) : attempts[i].run = events[e].run
  /\ \A j \in Positions :
       attempts[j].event = e /\ attempts[j].outcome = "duplicate"
         => \E i \in Acceptances(e) : i < j

\* What is proved of the tables together.
SafetyInv ==
  /\ BaseInv
  /\ RepliesAreDurable
  /\ AttemptsFollowSocket
  /\ MarkedRepliesWereSent
  /\ OneEffect
  /\ OneAcceptedAttempt
  /\ AckEvidence

\* It holds before any run exists.
LEMMA SafetyInit == Init => SafetyInv
<1> SUFFICES ASSUME Init PROVE SafetyInv
  OBVIOUS
<1>1. BaseInv
  BY BaseInit
<1>2. Positions = {} /\ sent = {}
  BY DEF Init, Positions
<1>3. \A e \in Event : effects[e].success = 0 /\ ~Persisted(e)
  BY DEF Init, Persisted
<1>4. OneAcceptedAttempt
  BY <1>2, <1>3, FS_EmptySet DEF OneAcceptedAttempt
<1>5. AckEvidence
  BY <1>3 DEF AckEvidence, Stored
<1> QED
  BY <1>1, <1>2, <1>3, <1>4, <1>5 DEF SafetyInv, RepliesAreDurable, AttemptsFollowSocket,
     MarkedRepliesWereSent, OneEffect

\* An attempt belongs to the run of its socket: a new one by the transaction that stores
\* it, an old one because its socket is no longer idle.
LEMMA SafetyOfAttempts ==
  ASSUME BaseInv, AttemptsFollowSocket, [Next]_vars
  PROVE  AttemptsFollowSocket'
<1>1. TypeOK
  BY DEF BaseInv
<1>2. ASSUME NEW i \in Positions
      PROVE  attempts'[i].run = bound'[attempts'[i].conn]
  <2>1. attempts'[i].run = attempts[i].run /\ attempts'[i].conn = attempts[i].conn
    BY <1>1, TablesGrow, AttemptRows DEF Attempts
  <2>2. attempts[i].conn \in Conn /\ pc[attempts[i].conn] # "idle"
    BY <1>1, AttemptRows DEF BaseInv, Binding
  <2>3. bound'[attempts[i].conn] = bound[attempts[i].conn]
    BY <2>2, BindingIsFixed
  <2> QED
    BY <2>1, <2>3 DEF AttemptsFollowSocket
<1>3. ASSUME NEW i \in Positions' \ Positions
      PROVE  attempts'[i].run = bound'[attempts'[i].conn]
  <2>1. \E c \in Conn : Audited(c)
    BY <1>3, StepKinds DEF Quiet, Unaccepted, Accepted, Marked, Effected, Positions
  <2> QED
    BY <1>3, <2>1 DEF Audited
<1> QED
  BY <1>2, <1>3 DEF AttemptsFollowSocket

\* A new mark is that of a reply the handler has just sent.
LEMMA SafetyOfMarks ==
  ASSUME BaseInv, MarkedRepliesWereSent, [Next]_vars
  PROVE  MarkedRepliesWereSent'
<1>1. sent \subseteq sent'
  BY SentRepliesAreTrue
<1>2. ASSUME NEW i \in Positions', attempts'[i].replied
      PROVE  \E rep \in sent : rep.attempt = i
  <2>1. CASE Quiet \/ \E e \in Event : Effected(e)
    BY <1>2, <2>1 DEF Quiet, Effected, Positions, MarkedRepliesWereSent
  <2>2. CASE \E c \in Conn : Audited(c)
    BY <1>2, <2>2 DEF Audited, MarkedRepliesWereSent
  <2>3. CASE \E rep \in sent : Marked(rep)
    BY <1>2, <2>3 DEF Marked, MarkedRepliesWereSent
  <2> QED
    BY <2>1, <2>2, <2>3, StepKinds DEF Unaccepted, Accepted
<1> QED
  BY <1>1, <1>2 DEF MarkedRepliesWereSent

\* The effect of an event is stored in the step that marks it processed.
LEMMA SafetyOfEffects ==
  ASSUME BaseInv, OneEffect, [Next]_vars
  PROVE  OneEffect'
<1>1. TypeOK
  BY DEF BaseInv
<1>2. effects \in [Event -> [success : Nat, failure : Nat]]
  BY <1>1 DEF TypeOK
<1>3. /\ \A e \in Event : Persisted(e) <=> e \in Stored
      /\ \A e \in Event : Persisted(e)' <=> e \in Stored'
  BY DEF Stored
<1> SUFFICES ASSUME NEW d \in Event
             PROVE  effects'[d].success = IF d \in Stored' /\ events'[d].processed THEN 1 ELSE 0
  BY <1>3 DEF OneEffect
<1>4. effects[d].success = IF d \in Stored /\ events[d].processed THEN 1 ELSE 0
  BY <1>3 DEF OneEffect
<1>5. CASE Quiet
  BY <1>4, <1>5 DEF Quiet, Stored, Persisted
<1>6. CASE \E c \in Conn : Unaccepted(c)
  BY <1>4, <1>6 DEF Unaccepted, Audited, Stored, Persisted
<1>7. CASE \E c \in Conn, e \in Event : Accepted(c, e)
  BY <1>4, <1>7 DEF Audited, Accepted
<1>8. CASE \E rep \in sent : Marked(rep)
  <2>1. Stored' = Stored /\ effects' = effects
    BY <1>8 DEF Marked
  <2>2. ASSUME d \in Stored
        PROVE  events'[d].processed = events[d].processed
    <3>1. events'[d] = events[d] \/ events'[d] = [events[d] EXCEPT !.acked = TRUE]
      BY <1>8, <2>2 DEF Marked
    <3> QED
      BY <1>1, <2>2, <3>1, FlagsOfRows
  <2> QED
    BY <1>4, <2>1, <2>2
<1>9. CASE \E e \in Event : Effected(e)
  <2>1. PICK e \in Event : Effected(e)
    BY <1>9
  <2>2. e \in Stored /\ ~events[e].processed /\ Stored' = Stored
    BY <2>1 DEF Effected, Unprocessed
  <2>3. effects'[d].success = IF d = e THEN effects[d].success + 1 ELSE effects[d].success
    BY <1>2, <2>1 DEF Effected
  <2>4. CASE d = e
    <3>1. events'[e] = [events[e] EXCEPT !.processed = TRUE]
      BY <2>1, <2>2 DEF Effected
    <3>2. events'[e].processed
      BY <1>1, <2>2, <3>1, FlagsOfRows
    <3> QED
      BY <1>4, <2>2, <2>3, <2>4, <3>2
  <2>5. CASE d # e
    <3>1. d \in Stored => events'[d] = events[d]
      BY <2>1, <2>5 DEF Effected
    <3> QED
      BY <1>4, <2>2, <2>3, <2>5, <3>1
  <2> QED
    BY <2>4, <2>5
<1> QED
  BY <1>5, <1>6, <1>7, <1>8, <1>9, StepKinds

\* What OneAcceptedAttempt says without counting: the rows are the events with an
\* acceptance, and an event has no two.
LEMMA AcceptanceIsUnique ==
  TypeOK => (OneAcceptedAttempt <=> \A e \in Event : UniqueAcceptance(e))
<1> SUFFICES ASSUME TypeOK
             PROVE  OneAcceptedAttempt <=> \A e \in Event : UniqueAcceptance(e)
  OBVIOUS
<1>1. ASSUME NEW e \in Event
      PROVE  Cardinality(Acceptances(e)) = (IF Persisted(e) THEN 1 ELSE 0)
               <=> /\ e \in Stored <=> Acceptances(e) # {}
                   /\ \A i, j \in Acceptances(e) : i = j
  <2>1. IsFiniteSet(Acceptances(e))
    <3>1. Len(attempts) \in Nat
      BY DEF TypeOK
    <3>2. IsFiniteSet(1 .. Len(attempts))
      BY <3>1, FS_Interval
    <3> QED
      BY <3>2, FS_Subset DEF Acceptances, Positions
  <2>2. Cardinality(Acceptances(e)) = 0 <=> Acceptances(e) = {}
    BY <2>1, FS_EmptySet
  <2>3. Cardinality(Acceptances(e)) = 1 <=> \E x : Acceptances(e) = {x}
    BY <2>1, FS_Singleton
  <2>4. (\E x : Acceptances(e) = {x})
          <=> Acceptances(e) # {} /\ \A i, j \in Acceptances(e) : i = j
    OBVIOUS
  <2>5. Persisted(e) <=> e \in Stored
    BY DEF Stored
  <2> QED
    BY <2>2, <2>3, <2>4, <2>5
<1> QED
  BY <1>1 DEF OneAcceptedAttempt, Acceptances, UniqueAcceptance

\* The same of the state after a step.
LEMMA AcceptanceIsUniqueNext ==
  (TypeOK => (OneAcceptedAttempt <=> \A e \in Event : UniqueAcceptance(e)))'
BY AcceptanceIsUnique, PTL

\* No step but an accepted delivery touches the acceptances of an event.
LEMMA AcceptancesKept ==
  ASSUME BaseInv, [Next]_vars, NEW e \in Event,
         \A c \in Conn : ~Accepted(c, e)
  PROVE  Acceptances(e)' = Acceptances(e) /\ (e \in Stored' <=> e \in Stored)
<1>1. TypeOK
  BY DEF BaseInv
<1>2. \A i \in Positions : attempts'[i].event = attempts[i].event
                        /\ attempts'[i].outcome = attempts[i].outcome
  BY <1>1, TablesGrow, AttemptRows DEF Attempts
<1>3. CASE Positions' = Positions /\ Stored' = Stored
  BY <1>2, <1>3 DEF Acceptances
<1>4. CASE \E c \in Conn : Unaccepted(c)
  <2>1. Stored' = Stored
    BY <1>4 DEF Unaccepted, Stored, Persisted
  <2> QED
    BY <1>2, <1>4, <2>1 DEF Unaccepted, Audited, Acceptances
<1>5. CASE \E c \in Conn, d \in Event : Accepted(c, d)
  <2>1. PICK c \in Conn, d \in Event : Accepted(c, d)
    BY <1>5
  <2>2. d # e
    BY <2>1
  <2> QED
    BY <1>2, <2>1, <2>2 DEF Accepted, Audited, Acceptances
<1>6. CASE Quiet
  BY <1>3, <1>6, DatabaseUnchanged DEF Quiet, Stored, Persisted, Positions
<1> QED
  BY <1>3, <1>4, <1>5, <1>6, StepKinds DEF Marked, Effected, Positions

\* An accepted delivery is the first acceptance of its event.
LEMMA SafetyOfAcceptances ==
  ASSUME BaseInv, BaseInv', OneAcceptedAttempt, [Next]_vars
  PROVE  OneAcceptedAttempt'
<1>1. TypeOK /\ TypeOK'
  BY DEF BaseInv
<1>2. Positions \subseteq Nat /\ Len(attempts) + 1 \in Nat
      /\ \A i \in Positions : i < Len(attempts) + 1
  BY <1>1 DEF TypeOK, Positions
<1>3. \A i \in Positions : attempts'[i].event = attempts[i].event
                        /\ attempts'[i].outcome = attempts[i].outcome
                        /\ attempts'[i].run = attempts[i].run
  BY <1>1, TablesGrow, AttemptRows DEF Attempts
<1>4. \A e \in Stored : events'[e].run = events[e].run
  BY <1>1, TablesGrow, FlagsOfRows
<1>5. ASSUME NEW e \in Event
      PROVE  /\ e \in Stored <=> Acceptances(e) # {}
             /\ \A i, j \in Acceptances(e) : i = j
             /\ \A i \in Acceptances(e) : attempts[i].run = events[e].run
             /\ \A j \in Positions :
                  attempts[j].event = e /\ attempts[j].outcome = "duplicate"
                    => \E i \in Acceptances(e) : i < j
  BY <1>1, AcceptanceIsUnique DEF UniqueAcceptance
<1>6. ASSUME NEW e \in Event
      PROVE  /\ e \in Stored' <=> Acceptances(e)' # {}
             /\ \A i, j \in Acceptances(e)' : i = j
             /\ \A i \in Acceptances(e)' : attempts'[i].run = events'[e].run
             /\ \A j \in Positions' :
                  attempts'[j].event = e /\ attempts'[j].outcome = "duplicate"
                    => \E i \in Acceptances(e)' : i < j
  <2>1. CASE \E c \in Conn : Accepted(c, e)
    <3>1. PICK c \in Conn : Accepted(c, e)
      BY <2>1
    <3>2. Acceptances(e) = {} /\ e \in Stored'
      BY <1>5, <3>1 DEF Accepted
    <3>3. Acceptances(e)' = {Len(attempts) + 1}
      BY <1>3, <3>1, <3>2 DEF Accepted, Audited, Acceptances
    <3>4. attempts'[Len(attempts) + 1].run = events'[e].run
      BY <3>1 DEF Accepted, Audited
    <3>5. \A j \in Positions' : ~(attempts'[j].event = e /\ attempts'[j].outcome = "duplicate")
      BY <1>3, <1>5, <3>1, <3>2 DEF Accepted, Audited
    <3> QED
      BY <3>2, <3>3, <3>4, <3>5
  <2>2. CASE \A c \in Conn : ~Accepted(c, e)
    <3>1. Acceptances(e)' = Acceptances(e) /\ (e \in Stored' <=> e \in Stored)
      BY <2>2, AcceptancesKept
    <3>2. \A i \in Acceptances(e) : attempts'[i].run = events'[e].run
      BY <1>3, <1>4, <1>5 DEF Acceptances
    <3>3. ASSUME NEW j \in Positions', attempts'[j].event = e, attempts'[j].outcome = "duplicate"
          PROVE  \E i \in Acceptances(e) : i < j
      <4>1. CASE j \in Positions
        BY <1>3, <1>5, <3>3, <4>1
      <4>2. CASE j \notin Positions
        <5>1. j = Len(attempts) + 1 /\ e \in Stored
          BY <3>3, <4>2, StepKinds
             DEF Quiet, Unaccepted, Accepted, Audited, Marked, Effected, Positions
        <5>2. PICK i \in Acceptances(e) : TRUE
          BY <1>5, <5>1
        <5>3. i \in Positions
          BY DEF Acceptances
        <5> QED
          BY <1>2, <5>1, <5>3
      <4> QED
        BY <4>1, <4>2
    <3> QED
      BY <1>5, <3>1, <3>2, <3>3
  <2> QED
    BY <2>1, <2>2
<1>7. \A e \in Event : UniqueAcceptance(e)'
  BY <1>6 DEF UniqueAcceptance
<1> QED
  BY <1>1, <1>7, AcceptanceIsUniqueNext

\* An event is marked with the first mark of one of its attempts.
LEMMA SafetyOfAcks ==
  ASSUME BaseInv, OneAcceptedAttempt, AckEvidence, [Next]_vars
  PROVE  AckEvidence'
<1>1. TypeOK
  BY DEF BaseInv
<1>2. DEFINE Answered(i, e) == /\ attempts[i].event = e
                               /\ MayProcess(attempts[i].outcome)
                               /\ attempts[i].replied
<1>3. \A e \in Stored : events[e].acked <=> \E i \in Positions : Answered(i, e)
  BY DEF AckEvidence
<1>4. ASSUME NEW e \in Event \ Stored, NEW i \in Positions
      PROVE  ~Answered(i, e)
  BY <1>1, AcceptanceIsUnique DEF UniqueAcceptance, Acceptances, MayProcess
<1>5. \A i \in Positions : attempts'[i].event = attempts[i].event
                        /\ attempts'[i].outcome = attempts[i].outcome
  BY <1>1, TablesGrow, AttemptRows DEF Attempts
<1> SUFFICES ASSUME NEW e \in Stored'
             PROVE  events'[e].acked <=> \E i \in Positions' : Answered(i, e)'
  BY DEF AckEvidence
<1>6. CASE Quiet
  BY <1>3, <1>6, DatabaseUnchanged DEF Quiet, Stored, Persisted, Positions
<1>7. CASE \E c \in Conn : Unaccepted(c)
  <2>1. Stored' = Stored /\ events' = events
    BY <1>7 DEF Unaccepted, Stored, Persisted
  <2>2. /\ \A i \in Positions : Answered(i, e)' <=> Answered(i, e)
        /\ Positions \subseteq Positions'
        /\ \A i \in Positions' \ Positions : ~Answered(i, e)'
    BY <1>7 DEF Unaccepted, Audited
  <2> QED
    BY <1>3, <2>1, <2>2
<1>8. CASE \E c \in Conn, d \in Event : Accepted(c, d)
  <2>1. PICK c \in Conn, d \in Event : Accepted(c, d)
    BY <1>8
  <2>2. /\ \A i \in Positions : Answered(i, e)' <=> Answered(i, e)
        /\ Positions \subseteq Positions'
        /\ \A i \in Positions' \ Positions : ~Answered(i, e)'
    BY <2>1 DEF Accepted, Audited
  <2>3. CASE e = d
    BY <1>4, <2>1, <2>2, <2>3 DEF Accepted
  <2>4. CASE e # d
    BY <1>3, <2>1, <2>2, <2>4 DEF Accepted, Stored
  <2> QED
    BY <2>3, <2>4
<1>9. CASE \E rep \in sent : Marked(rep)
  <2>1. PICK rep \in sent : Marked(rep)
    BY <1>9
  <2>2. /\ Positions' = Positions /\ Stored' = Stored
        /\ rep.attempt \in Positions
        /\ attempts[rep.attempt].event = rep.event
        /\ attempts[rep.attempt].outcome = rep.status
    BY <2>1 DEF Marked, Durable
  <2>3. ASSUME NEW i \in Positions
        PROVE  attempts'[i].replied <=> i = rep.attempt \/ attempts[i].replied
    <3>1. attempts[i] \in Attempts
      BY <1>1, AttemptRows
    <3> QED
      BY <2>1, <3>1 DEF Marked, Attempts
  <2>4. events'[e].acked <=> (e = rep.event /\ MayProcess(rep.status)) \/ events[e].acked
    <3>1. events[e] \in Rows
      BY <1>1, <2>2, FlagsOfRows
    <3> QED
      BY <2>1, <2>2, <3>1 DEF Marked, Rows
  <2>5. \A i \in Positions :
          Answered(i, e)' <=>
            (Answered(i, e) \/ (i = rep.attempt /\ e = rep.event /\ MayProcess(rep.status)))
    BY <1>5, <2>2, <2>3 DEF MayProcess
  <2> QED
    BY <1>3, <2>2, <2>4, <2>5
<1>10. CASE \E d \in Event : Effected(d)
  <2>1. Stored' = Stored /\ Positions' = Positions /\ attempts' = attempts
    BY <1>10 DEF Effected, Positions
  <2>2. events'[e].acked = events[e].acked
    <3>1. events'[e] = events[e] \/ events'[e] = [events[e] EXCEPT !.processed = TRUE]
      BY <1>10, <2>1 DEF Effected
    <3> QED
      BY <1>1, <2>1, <3>1, FlagsOfRows
  <2> QED
    BY <1>3, <2>1, <2>2
<1> QED
  BY <1>6, <1>7, <1>8, <1>9, <1>10, StepKinds

\* Every step keeps it.
LEMMA SafetyNext == SafetyInv /\ [Next]_vars => SafetyInv'
<1> SUFFICES ASSUME SafetyInv, [Next]_vars PROVE SafetyInv'
  OBVIOUS
<1>1. BaseInv /\ BaseInv'
  BY BaseNext DEF SafetyInv
<1>2. RepliesAreDurable'
  <2> SUFFICES ASSUME NEW rep \in sent' PROVE Durable(rep)'
    BY DEF RepliesAreDurable
  <2>1. Durable(rep)
    BY <1>1, SentRepliesAreTrue DEF SafetyInv, RepliesAreDurable
  <2> QED
    BY <1>1, <2>1, DurableForGood
<1> QED
  BY <1>1, <1>2, SafetyOfAttempts, SafetyOfMarks, SafetyOfEffects, SafetyOfAcceptances,
     SafetyOfAcks DEF SafetyInv

\* The tables and the replies agree in every reachable state.
THEOREM SafetyInvariant == Spec => []SafetyInv
BY SafetyInit, SafetyNext, PTL DEF Spec

\* What a source was told is stored, whatever crashed or failed since.
THEOREM RepliesStayDurable == Spec => []RepliesAreDurable
BY SafetyInvariant, PTL DEF SafetyInv

\* No payload moves an attempt to another run than its socket's.
THEOREM AttemptsStayWithSocket == Spec => []AttemptsFollowSocket
BY SafetyInvariant, PTL DEF SafetyInv

\* An attempt is marked as answered only when its answer left the API.
THEOREM MarksAreTrue == Spec => []MarkedRepliesWereSent
BY SafetyInvariant, PTL DEF SafetyInv

\* Handlers, duplicates and recovery together give a processed event one effect.
THEOREM EffectsAreUnique == Spec => []OneEffect
BY SafetyInvariant, PTL DEF SafetyInv

\* A canonical row is the work of one accepted attempt, and duplicates follow it.
THEOREM AcceptanceHappensOnce == Spec => []OneAcceptedAttempt
BY SafetyInvariant, PTL DEF SafetyInv

\* The marks of events agree with the marks of their attempts.
THEOREM AcksAgree == Spec => []AckEvidence
BY SafetyInvariant, PTL DEF SafetyInv

-----------------------------------------------------------------------------
(* The ordering evidence *)

\* A row appears only as persist_valid_delivery builds it.
LEMMA NewRowIsCanonical ==
  ASSUME BaseInv, [Next]_vars, NEW e \in Stored' \ Stored
  PROVE  \E c \in Conn, m \in Message : PersistAccepted(c, m) /\ m.event = e
<1>1. ASSUME NEW c \in Conn, Handler(c)
      PROVE  \E m \in Message : PersistAccepted(c, m) /\ m.event = e
  <2>1. CASE events' = events
    BY <2>1 DEF Stored, Persisted
  <2>2. CASE MarkReplySent(c)
    BY <2>2, MarkedDelivery DEF Marked
  <2>3. CASE ProcessEvent(c)
    <3>1. reply[c].event \in Stored
      BY <2>3 DEF BaseInv, PendingReplies, ProcessEvent, Durable
    <3> QED
      BY <2>1, <2>3, <3>1, EffectTables DEF ProcessEvent, BaseInv
  <2>4. ASSUME NEW m \in Message, PersistAccepted(c, m)
        PROVE  m.event = e
    BY <2>4, AcceptedDelivery DEF Accepted
  <2>5. \/ events' = events \/ MarkReplySent(c) \/ ProcessEvent(c)
        \/ \E m \in Message : PersistAccepted(c, m)
    BY <1>1 DEF Handler, OpenSocket, AcceptSocket, AbortHandshake, CloseSocket, EndHandler,
       Ingest, RecordRejected, RecordConflicted, PersistDuplicate, RefuseDelivery, IngestFails,
       SendReply, ReplyFails, MarkFails, ProcessFails, BroadcastEnds, database
  <2> QED
    BY <2>1, <2>2, <2>3, <2>4, <2>5
<1>2. CASE events' = events
  BY <1>2 DEF Stored, Persisted
<1>3. ASSUME NEW d \in Event, RecoverEvent(d), ~events[d].processed
      PROVE  FALSE
  <2>1. d \in Stored /\ StoreEffect(d)
    BY <1>3 DEF RecoverEvent, NextToRecover, BaseInv, Phases
  <2> QED
    BY <2>1, EffectTables DEF BaseInv
<1>4. \/ events' = events \/ \E c \in Conn : Handler(c)
      \/ \E d \in Event : RecoverEvent(d) /\ ~events[d].processed
  BY DEF Next, CreateRun, CompleteRun, Crash, Start, Recovery, RecoverEvent, RecoverFails,
     Serve, vars, database
<1> QED
  BY <1>1, <1>2, <1>3, <1>4

\* The evidence of one run, the property's own words.
OnTime(r) == {e \in EventsOf(r) : ~events[e].outOfOrder}

ArrivalsAre(r) ==
  /\ {events[e].arrival : e \in EventsOf(r)} = 1 .. Cardinality(EventsOf(r))
  /\ \A e \in EventsOf(r) : events[e].outOfOrder <=>
       \E d \in EventsOf(r) : /\ events[d].arrival < events[e].arrival
                              /\ SourceSequence[d] > SourceSequence[e]
  /\ \A e \in EventsOf(r) \ OnTime(r) : events[e].gap = 0
  /\ UNION {Advance(e) : e \in OnTime(r)} = 1 .. PreviousMax(r)
  /\ \A d, e \in OnTime(r) : d # e => Advance(d) \cap Advance(e) = {}

LEMMA ArrivalsByRun == ArrivalEvidence <=> \A r \in Run : ArrivalsAre(r)
BY DEF ArrivalEvidence, ArrivalsAre, OnTime

\* What ordering evidence is taken from stays as it was stored.
LEMMA OrderingIsFixed ==
  ASSUME BaseInv, [Next]_vars, NEW e \in Stored
  PROVE  /\ e \in Stored'
         /\ events'[e].run = events[e].run
         /\ events'[e].arrival = events[e].arrival
         /\ events'[e].outOfOrder = events[e].outOfOrder
         /\ events'[e].gap = events[e].gap
<1>1. events[e] \in Rows
  BY FlagsOfRows DEF BaseInv
<1> QED
  BY <1>1, TablesGrow DEF Rows

\* A run that gets no new row keeps its evidence.
LEMMA ArrivalsKeptWithoutRow ==
  ASSUME BaseInv, [Next]_vars, NEW r \in Run, ArrivalsAre(r),
         \A e \in Stored' \ Stored : events'[e].run # r
  PROVE  ArrivalsAre(r)'
<1>1. EventsOf(r)' = EventsOf(r)
  BY OrderingIsFixed DEF EventsOf
<1>2. \A e \in EventsOf(r) : /\ events'[e].arrival = events[e].arrival
                             /\ events'[e].outOfOrder = events[e].outOfOrder
                             /\ events'[e].gap = events[e].gap
  BY OrderingIsFixed DEF EventsOf
<1>3. OnTime(r)' = OnTime(r) /\ PreviousMax(r)' = PreviousMax(r)
  BY <1>1, <1>2 DEF OnTime, PreviousMax
<1>4. \A e \in OnTime(r) : Advance(e)' = Advance(e)
  BY <1>2 DEF OnTime, Advance
<1>5. /\ {events'[e].arrival : e \in EventsOf(r)} = {events[e].arrival : e \in EventsOf(r)}
      /\ {Advance(e)' : e \in OnTime(r)} = {Advance(e) : e \in OnTime(r)}
  BY <1>2, <1>4
<1>6. /\ {events[e].arrival : e \in EventsOf(r)}' = 1 .. Cardinality(EventsOf(r))
      /\ \A e \in EventsOf(r) : events'[e].outOfOrder <=>
           \E d \in EventsOf(r) : /\ events'[d].arrival < events'[e].arrival
                                  /\ SourceSequence[d] > SourceSequence[e]
  BY <1>1, <1>2, <1>5 DEF ArrivalsAre
<1>7. \A e \in EventsOf(r) \ OnTime(r) : events'[e].gap = 0
  BY <1>2 DEF ArrivalsAre
<1>8. /\ UNION {Advance(e)' : e \in OnTime(r)} = 1 .. PreviousMax(r)
      /\ \A d, e \in OnTime(r) : d # e => Advance(d)' \cap Advance(e)' = {}
  BY <1>4, <1>5 DEF ArrivalsAre
<1> QED
  BY <1>1, <1>3, <1>6, <1>7, <1>8 DEF ArrivalsAre

\* The maximum of a set that grows by one.
LEMMA MaxOfGrowing ==
  ASSUME NEW S \in SUBSET Nat, S # {}, NEW n \in Nat, \A x \in S : x <= n, NEW s \in Nat
  PROVE  Max(S \cup {s}) = IF Max(S) < s THEN s ELSE Max(S)
<1>1. Max(S) \in S /\ \A x \in S : x <= Max(S)
  BY MaxOfBounded
<1>2. PICK k \in Nat : \A x \in S \cup {s} : x <= k
  <2>1. CASE n <= s
    BY <2>1
  <2>2. CASE s <= n
    BY <2>2
  <2> QED
    BY <2>1, <2>2
<1> DEFINE T == S \cup {s}
<1>3. T \in SUBSET Nat /\ T # {}
  OBVIOUS
<1>4. Max(T) \in T /\ \A x \in T : x <= Max(T)
  <2>1. \A x \in T : x <= k
    BY <1>2
  <2> HIDE DEF T
  <2> QED
    BY <1>2, <1>3, <2>1, MaxOfBounded
<1>5. /\ Max(S) \in Nat /\ Max(T) \in Nat /\ s \in Nat
      /\ Max(S) \in S /\ (Max(T) = s \/ Max(T) \in S)
      /\ Max(S) <= Max(T) /\ s <= Max(T)
      /\ Max(T) \in S => Max(T) <= Max(S)
  BY <1>1, <1>3, <1>4
<1>6. Max(T) = IF Max(S) < s THEN s ELSE Max(S)
  <2> HIDE DEF T
  <2> QED
    BY <1>5
<1> QED
  BY <1>6

\* The row persist_valid_delivery adds to a run.
LEMMA NewRow ==
  ASSUME BaseInv, NEW c \in Conn, NEW m \in Message, PersistAccepted(c, m)
  PROVE  LET e == m.event  r == m.run  n == Cardinality(EventsOf(r)) IN
         /\ r \in Run /\ r = bound[c]
         /\ e \in Event \ Stored /\ Stored' = Stored \cup {e}
         /\ EventsOf(r)' = EventsOf(r) \cup {e} /\ e \notin EventsOf(r)
         /\ n \in Nat /\ Cardinality(EventsOf(r))' = n + 1
         /\ PreviousMax(r) \in Nat /\ SourceSequence[e] \in Nat
         /\ PreviousMax(r)' = IF PreviousMax(r) < SourceSequence[e]
                              THEN SourceSequence[e] ELSE PreviousMax(r)
         /\ SourceSequence[e] # PreviousMax(r)
         /\ \A d \in EventsOf(r) : SourceSequence[d] <= PreviousMax(r)
         /\ SourceSequence[e] < PreviousMax(r) =>
              \E d \in EventsOf(r) : SourceSequence[d] = PreviousMax(r)
         /\ events'[e].run = r
         /\ events'[e].arrival = n + 1
         /\ events'[e].outOfOrder = (SourceSequence[e] < PreviousMax(r))
         /\ events'[e].gap = IF SourceSequence[e] < PreviousMax(r) THEN 0
                             ELSE SourceSequence[e] - PreviousMax(r) - 1
         /\ \A d \in Event : d # e => events'[d] = events[d]
<1> DEFINE e == m.event
           r == m.run
           n == Cardinality(EventsOf(r))
           Sequences == {SourceSequence[d] : d \in EventsOf(r)} \cup {0}
<1>1. Accepted(c, e) /\ pc[c] = "receiving"
  BY AcceptedDelivery DEF PersistAccepted, Receiving
<1>2. r = bound[c] /\ r \in Run /\ e \in Event /\ e \in Registered(r)
  <2>1. bound[c] \in Run /\ Category(m, bound[c]) = "none"
    BY <1>1 DEF BaseInv, Binding, PersistAccepted
  <2> QED
    BY <2>1, CategoryFacts
<1>3. events' = [events EXCEPT ![e] = CanonicalRow(m)]
  BY DEF PersistAccepted
<1>4. events'[e] = CanonicalRow(m) /\ \A d \in Event : d # e => events'[d] = events[d]
  BY <1>2, <1>3 DEF BaseInv, TypeOK
<1>5. CanonicalRow(m).run = r
  BY DEF CanonicalRow
<1>6. e \in Event \ Stored /\ Stored' = Stored \cup {e}
  BY <1>1 DEF Accepted
<1>7. EventsOf(r)' = EventsOf(r) \cup {e} /\ e \notin EventsOf(r)
  BY <1>4, <1>5, <1>6 DEF EventsOf, Stored
<1>8. n \in Nat /\ Cardinality(EventsOf(r))' = n + 1
  BY <1>7, FiniteTables, FS_AddElement
<1>9. PreviousMax(r) \in Nat /\ \A d \in EventsOf(r) : SourceSequence[d] <= PreviousMax(r)
  BY <1>2, PreviousMaxIsMax DEF BaseInv
<1>10. SourceSequence[e] \in Nat /\ Sequences \in SUBSET Nat /\ Sequences # {}
  BY <1>2, ManifestAssumption DEF EventsOf, Stored
<1>11. \A x \in Sequences : x <= PreviousMax(r)
  BY <1>9
<1>12. PreviousMax(r) \in Sequences
  <2>1. Max(Sequences) \in Sequences
    <3> HIDE DEF Sequences
    <3> QED
      BY <1>9, <1>10, <1>11, MaxOfBounded
  <2> QED
    BY <2>1 DEF PreviousMax
<1>13. PreviousMax(r)' = IF PreviousMax(r) < SourceSequence[e]
                         THEN SourceSequence[e] ELSE PreviousMax(r)
  <2>1. PreviousMax(r)' = Max(Sequences \cup {SourceSequence[e]})
    <3>1. {SourceSequence[d] : d \in EventsOf(r)'} \cup {0} = Sequences \cup {SourceSequence[e]}
      BY <1>7
    <3> QED
      BY <3>1 DEF PreviousMax
  <2>2. PreviousMax(r) = Max(Sequences)
    BY DEF PreviousMax
  <2> HIDE DEF Sequences
  <2> QED
    BY <2>1, <2>2, <1>9, <1>10, <1>11, MaxOfGrowing
<1>14. e \in Manifest[r] /\ EventsOf(r) \subseteq Manifest[r]
  BY <1>2 DEF BaseInv, CanonicalFromManifest, EventsOf, Registered
<1>15. SourceSequence[e] >= 1
  <2>1. SourceSequence[e] \in 1 .. Cardinality(Manifest[r])
    BY <1>2, <1>14, ManifestAssumption
  <2> QED
    BY <2>1, <1>2, FiniteTables
<1>16. SourceSequence[e] # PreviousMax(r)
  BY <1>2, <1>7, <1>10, <1>12, <1>14, <1>15, ManifestAssumption
<1>17. SourceSequence[e] < PreviousMax(r) =>
         \E d \in EventsOf(r) : SourceSequence[d] = PreviousMax(r)
  BY <1>10, <1>12
<1>18. CanonicalRow(m).gap = IF SourceSequence[e] < PreviousMax(r) THEN 0
                             ELSE SourceSequence[e] - PreviousMax(r) - 1
  <2>1. CanonicalRow(m).gap = Max({0, SourceSequence[e] - PreviousMax(r) - 1})
    BY DEF CanonicalRow
  <2>2. ASSUME NEW x \in Int
        PROVE  Max({0, x}) = IF x < 0 THEN 0 ELSE x
    BY DEF Max
  <2>3. SourceSequence[e] - PreviousMax(r) - 1 \in Int
    BY <1>9, <1>10
  <2>4. Max({0, SourceSequence[e] - PreviousMax(r) - 1})
          = IF SourceSequence[e] - PreviousMax(r) - 1 < 0 THEN 0
            ELSE SourceSequence[e] - PreviousMax(r) - 1
    BY <2>2, <2>3
  <2> QED
    BY <2>1, <2>4, <1>9, <1>10, <1>16
<1>19. /\ CanonicalRow(m).arrival = n + 1
       /\ CanonicalRow(m).outOfOrder = (SourceSequence[e] < PreviousMax(r))
  BY DEF CanonicalRow
<1> QED
  BY <1>2, <1>4, <1>5, <1>6, <1>7, <1>8, <1>9, <1>10, <1>13, <1>16, <1>17, <1>18, <1>19

\* A run that gets one keeps its evidence too: the new row is the last to arrive, and it
\* is late or moves the maximum on.
LEMMA ArrivalsKeptWithRow ==
  ASSUME BaseInv, [Next]_vars, NEW c \in Conn, NEW m \in Message, PersistAccepted(c, m),
         ArrivalsAre(m.run)
  PROVE  ArrivalsAre(m.run)'
<1> DEFINE e == m.event
           r == m.run
           n == Cardinality(EventsOf(r))
           previous == PreviousMax(r)
           sequence == SourceSequence[e]
<1>1. /\ EventsOf(r)' = EventsOf(r) \cup {e} /\ e \notin EventsOf(r)
      /\ n \in Nat /\ Cardinality(EventsOf(r))' = n + 1
      /\ previous \in Nat /\ sequence \in Nat /\ sequence # previous
      /\ PreviousMax(r)' = IF previous < sequence THEN sequence ELSE previous
      /\ \A d \in EventsOf(r) : SourceSequence[d] <= previous
      /\ sequence < previous => \E d \in EventsOf(r) : SourceSequence[d] = previous
      /\ events'[e].arrival = n + 1
      /\ events'[e].outOfOrder = (sequence < previous)
      /\ events'[e].gap = IF sequence < previous THEN 0 ELSE sequence - previous - 1
  BY NewRow
<1>2. \A d \in EventsOf(r) : /\ events'[d].arrival = events[d].arrival
                             /\ events'[d].outOfOrder = events[d].outOfOrder
                             /\ events'[d].gap = events[d].gap
  BY OrderingIsFixed DEF EventsOf
<1>3. \A d \in EventsOf(r) : events[d].arrival \in 1 .. n
  BY DEF ArrivalsAre
<1>4. {events[d].arrival : d \in EventsOf(r)}' = 1 .. n + 1
  <2>1. {events[d].arrival : d \in EventsOf(r)}' = {events[d].arrival : d \in EventsOf(r)} \cup {n + 1}
    BY <1>1, <1>2
  <2>2. {events[d].arrival : d \in EventsOf(r)} = 1 .. n
    BY DEF ArrivalsAre
  <2>3. 1 .. n + 1 = (1 .. n) \cup {n + 1}
    BY <1>1
  <2> QED
    BY <2>1, <2>2, <2>3
<1>5. ASSUME NEW d \in EventsOf(r)'
      PROVE  events'[d].outOfOrder <=>
               \E x \in EventsOf(r)' : /\ events'[x].arrival < events'[d].arrival
                                       /\ SourceSequence[x] > SourceSequence[d]
  <2>1. CASE d = e
    <3>1. events'[d].outOfOrder = (sequence < previous)
      BY <1>1, <2>1
    <3>2. sequence < previous => \E x \in EventsOf(r) : SourceSequence[x] > sequence
      BY <1>1
    <3>3. \A x \in EventsOf(r) : events'[x].arrival < events'[e].arrival
      BY <1>1, <1>2, <1>3
    <3>4. \A x \in EventsOf(r)' : SourceSequence[x] > sequence => sequence < previous
      <4>1. ASSUME NEW x \in EventsOf(r), SourceSequence[x] > sequence
            PROVE  sequence < previous
        <5>1. SourceSequence[x] \in Nat
          BY ManifestAssumption DEF EventsOf, Stored
        <5> QED
          BY <1>1, <4>1, <5>1
      <4> QED
        BY <1>1, <4>1
    <3> QED
      BY <1>1, <2>1, <3>1, <3>2, <3>3, <3>4
  <2>2. CASE d \in EventsOf(r)
    <3>1. ~(events'[e].arrival < events'[d].arrival)
      BY <1>1, <1>2, <1>3, <2>2
    <3>2. events[d].outOfOrder <=>
            \E x \in EventsOf(r) : /\ events[x].arrival < events[d].arrival
                                   /\ SourceSequence[x] > SourceSequence[d]
      BY <2>2 DEF ArrivalsAre
    <3> QED
      BY <1>1, <1>2, <2>2, <3>1, <3>2
  <2> QED
    BY <1>1, <2>1, <2>2
<1>6. OnTime(r)' = OnTime(r) \cup IF sequence < previous THEN {} ELSE {e}
  BY <1>1, <1>2 DEF OnTime
<1>7. \A d \in EventsOf(r)' \ OnTime(r)' : events'[d].gap = 0
  BY <1>1, <1>2, <1>6 DEF ArrivalsAre
<1>8. /\ \A d \in OnTime(r) : Advance(d)' = Advance(d)
      /\ {Advance(d)' : d \in OnTime(r)} = {Advance(d) : d \in OnTime(r)}
  <2>1. \A d \in OnTime(r) : Advance(d)' = Advance(d)
    BY <1>2 DEF OnTime, Advance
  <2> QED
    BY <2>1
<1>9. /\ UNION {Advance(d) : d \in OnTime(r)} = 1 .. previous
      /\ \A d, x \in OnTime(r) : d # x => Advance(d) \cap Advance(x) = {}
  BY DEF ArrivalsAre
<1>10. CASE sequence < previous
  <2>1. OnTime(r)' = OnTime(r) /\ PreviousMax(r)' = previous
    BY <1>1, <1>6, <1>10
  <2>2. /\ UNION {Advance(d)' : d \in OnTime(r)'} = 1 .. PreviousMax(r)'
        /\ \A d, x \in OnTime(r)' : d # x => Advance(d)' \cap Advance(x)' = {}
    BY <1>8, <1>9, <2>1
  <2> QED
    BY <1>1, <1>4, <1>5, <1>7, <2>2 DEF ArrivalsAre
<1>11. CASE previous < sequence
  <2>1. OnTime(r)' = OnTime(r) \cup {e} /\ PreviousMax(r)' = sequence
    BY <1>1, <1>6, <1>11
  <2>2. Advance(e)' = previous + 1 .. sequence
    BY <1>1, <1>11 DEF Advance
  <2>3. \A d \in OnTime(r) : Advance(d) \subseteq 1 .. previous
    BY <1>9
  <2>4. (1 .. previous) \cap (previous + 1 .. sequence) = {}
    BY <1>1
  <2>5. (1 .. previous) \cup (previous + 1 .. sequence) = 1 .. sequence
    BY <1>1, <1>11
  <2>6. UNION {Advance(d)' : d \in OnTime(r)'} = 1 .. sequence
    <3>1. {Advance(d)' : d \in OnTime(r)'} = {Advance(d) : d \in OnTime(r)} \cup {Advance(e)'}
      BY <1>8, <2>1
    <3> QED
      BY <1>9, <2>2, <2>5, <3>1
  <2>7. \A d, x \in OnTime(r)' : d # x => Advance(d)' \cap Advance(x)' = {}
    <3>1. ASSUME NEW d \in OnTime(r)
          PROVE  Advance(d)' \cap Advance(e)' = {}
      BY <1>8, <2>2, <2>3, <2>4
    <3> QED
      BY <1>8, <1>9, <2>1, <3>1
  <2> QED
    BY <1>1, <1>4, <1>5, <1>7, <2>1, <2>6, <2>7 DEF ArrivalsAre
<1> QED
  BY <1>1, <1>10, <1>11

LEMMA ArrivalsNext ==
  ASSUME BaseInv, ArrivalEvidence, [Next]_vars
  PROVE  ArrivalEvidence'
<1> SUFFICES ASSUME NEW r \in Run PROVE ArrivalsAre(r)'
  BY DEF ArrivalEvidence, ArrivalsAre, OnTime
<1>1. ArrivalsAre(r)
  BY ArrivalsByRun
<1>2. CASE \A e \in Stored' \ Stored : events'[e].run # r
  BY <1>1, <1>2, ArrivalsKeptWithoutRow
<1>3. ASSUME NEW e \in Stored' \ Stored, events'[e].run = r
      PROVE  ArrivalsAre(r)'
  <2>1. PICK c \in Conn, m \in Message : PersistAccepted(c, m) /\ m.event = e
    BY NewRowIsCanonical
  <2>2. m.run = r
    BY <1>3, <2>1, NewRow
  <2> QED
    BY <1>1, <2>1, <2>2, ArrivalsKeptWithRow
<1> QED
  BY <1>2, <1>3

LEMMA ArrivalsInit == Init => ArrivalEvidence
<1> SUFFICES ASSUME Init, NEW r \in Run PROVE ArrivalsAre(r)
  BY ArrivalsByRun
<1>1. EventsOf(r) = {} /\ OnTime(r) = {}
  BY DEF Init, EventsOf, Stored, Persisted, OnTime
<1>2. Cardinality(EventsOf(r)) = 0
  BY <1>1, FS_EmptySet
<1>3. PreviousMax(r) = 0
  BY <1>1 DEF PreviousMax, Max
<1> QED
  BY <1>1, <1>2, <1>3 DEF ArrivalsAre

\* The ordering evidence of every run is exact at every moment, whatever is repeated,
\* refused, interleaved with other runs or crashes.
THEOREM ArrivalsAreExact == Spec => []ArrivalEvidence
BY ArrivalsInit, ArrivalsNext, BaseInvariant, PTL DEF Spec

-----------------------------------------------------------------------------
(* What a step may never do *)

\* What is stored stays, but for flags that go up.
LEMMA EvidenceStep ==
  ASSUME BaseInv, [Next]_vars
  PROVE  /\ \A i \in Positions :
              /\ i \in Positions'
              /\ [attempts'[i] EXCEPT !.replied = FALSE]
                   = [attempts[i] EXCEPT !.replied = FALSE]
              /\ attempts[i].replied => attempts'[i].replied
         /\ \A e \in Stored :
              /\ [events'[e] EXCEPT !.acked = FALSE, !.processed = FALSE]
                   = [events[e] EXCEPT !.acked = FALSE, !.processed = FALSE]
              /\ events[e].acked => events'[e].acked
              /\ events[e].processed => events'[e].processed
         /\ \A e \in Event : effects'[e].failure >= effects[e].failure
<1>1. TypeOK
  BY DEF BaseInv
<1>2. ASSUME NEW i \in Positions
      PROVE  /\ i \in Positions'
             /\ [attempts'[i] EXCEPT !.replied = FALSE]
                  = [attempts[i] EXCEPT !.replied = FALSE]
             /\ attempts[i].replied => attempts'[i].replied
  <2>1. attempts[i] \in Attempts
    BY <1>1, AttemptRows
  <2> QED
    BY <2>1, TablesGrow DEF Attempts
<1>3. ASSUME NEW e \in Stored
      PROVE  /\ [events'[e] EXCEPT !.acked = FALSE, !.processed = FALSE]
                  = [events[e] EXCEPT !.acked = FALSE, !.processed = FALSE]
             /\ events[e].acked => events'[e].acked
             /\ events[e].processed => events'[e].processed
  <2>1. events[e] \in Rows
    BY <1>1, FlagsOfRows
  <2> QED
    BY <2>1, TablesGrow DEF Rows
<1>4. ASSUME NEW e \in Event
      PROVE  effects'[e].failure >= effects[e].failure
  <2>1. effects \in [Event -> [success : Nat, failure : Nat]]
    BY <1>1 DEF TypeOK
  <2>2. CASE effects' = effects
    BY <2>1, <2>2
  <2>3. CASE \E d \in Event : Effected(d)
    BY <2>1, <2>3 DEF Effected
  <2> QED
    BY <2>2, <2>3, StepKinds DEF Quiet, Unaccepted, Accepted, Audited, Marked
<1> QED
  BY <1>2, <1>3, <1>4

\* Evidence only grows: no handler, crash or recovery takes back or rewrites a stored
\* attempt, row, mark or failure.
THEOREM EvidenceOnlyGrows == Spec => EvidenceGrows
<1>1. BaseInv /\ [Next]_vars =>
        [/\ \A i \in Positions :
              /\ i \in Positions'
              /\ [attempts'[i] EXCEPT !.replied = FALSE]
                   = [attempts[i] EXCEPT !.replied = FALSE]
              /\ attempts[i].replied => attempts'[i].replied
         /\ \A e \in Stored :
              /\ [events'[e] EXCEPT !.acked = FALSE, !.processed = FALSE]
                   = [events[e] EXCEPT !.acked = FALSE, !.processed = FALSE]
              /\ events[e].acked => events'[e].acked
              /\ events[e].processed => events'[e].processed
         /\ \A e \in Event : effects'[e].failure >= effects[e].failure]_vars
  BY EvidenceStep
<1> QED
  BY <1>1, BaseInvariant, PTL DEF Spec, EvidenceGrows

\* A completed run gets neither attempts nor rows: the transaction that stores either
\* finds the run open.
LEMMA CompletionStep ==
  ASSUME BaseInv, [Next]_vars, NEW r \in Run, runs[r] = "completed"
  PROVE  /\ runs'[r] = "completed"
         /\ report'[r] = report[r]
         /\ AttemptsOf(r)' = AttemptsOf(r)
         /\ EventsOf(r)' = EventsOf(r)
<1>1. TypeOK
  BY DEF BaseInv
<1>2. \A i \in Positions : attempts'[i].run = attempts[i].run
  BY <1>1, TablesGrow, AttemptRows DEF Attempts
<1>3. \A e \in Stored : events'[e].run = events[e].run
  BY <1>1, TablesGrow, FlagsOfRows
<1>4. ASSUME NEW i \in Positions' \ Positions
      PROVE  attempts'[i].run # r
  <2>1. \E c \in Conn : Audited(c)
    BY <1>4, StepKinds DEF Quiet, Unaccepted, Accepted, Marked, Effected, Positions
  <2> QED
    BY <1>4, <2>1 DEF Audited, AcceptingDeliveries
<1>5. ASSUME NEW e \in Stored' \ Stored
      PROVE  events'[e].run # r
  <2>1. \E c \in Conn : Accepted(c, e)
    BY <1>5, StepKinds DEF Quiet, Unaccepted, Accepted, Marked, Effected, Stored, Persisted
  <2> QED
    BY <2>1 DEF Accepted, Audited, AcceptingDeliveries
<1>6. AttemptsOf(r)' = AttemptsOf(r)
  BY <1>2, <1>4, TablesGrow DEF AttemptsOf
<1>7. EventsOf(r)' = EventsOf(r)
  BY <1>3, <1>5, TablesGrow DEF EventsOf
<1> QED
  BY <1>6, <1>7, CompletionIsFinal

\* Completing a run closes it for good, for deliveries already under way too.
THEOREM CompletionClosesRuns == Spec => CompletionCloses
<1>1. BaseInv /\ [Next]_vars =>
        [\A r \in Run : runs[r] = "completed" =>
           /\ runs'[r] = "completed"
           /\ report'[r] = report[r]
           /\ AttemptsOf(r)' = AttemptsOf(r)
           /\ EventsOf(r)' = EventsOf(r)]_vars
  BY CompletionStep
<1> QED
  BY <1>1, BaseInvariant, PTL DEF Spec, CompletionCloses

=============================================================================
