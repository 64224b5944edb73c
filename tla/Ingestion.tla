------------------------------ MODULE Ingestion ------------------------------
(***************************************************************************)
(* The source side of the Stream Reliability Lab API: the /ws/ingest       *)
(* handler of main.py, the IngestService of service.py and the DuckDB      *)
(* transactions of repository.py they call, with run creation, run         *)
(* completion, API crashes and startup recovery.                           *)
(*                                                                         *)
(* Durable state (the database) survives Crash; the handlers' state does   *)
(* not.  The API is one asyncio loop, so a handler gives way only where it *)
(* awaits: pc names the await a handler is suspended at.  "marking" and    *)
(* "processing" are not awaits but points between two transactions of one  *)
(* uninterrupted stretch of code: nothing but a crash can happen there     *)
(* (LoopFree).                                                             *)
(***************************************************************************)
EXTENDS Integers, Sequences, FiniteSets, FiniteSetsExt

CONSTANTS Run,            \* run identifiers
          Event,          \* event identifiers
          Conn,           \* source sockets, one handler each
          NoRun, NoEvent, \* "the payload carries no such identifier", SQL NULL
          Manifest,       \* the events a run's creator registers
          SourceSequence, \* the source sequence of a registered event
          Message,        \* the raw messages the sources may send
          MaxAttempts,    \* bound: rows in delivery_attempts
          MaxCrashes,     \* bound: API crashes
          MaxFaults       \* bound: transactions that fail and roll back

Shapes   == {"oversized", "malformed", "invalid", "valid"}
Contents == {"manifest", "altered"}
Messages == [shape : Shapes, event : Event \cup {NoEvent},
             run : Run \cup {NoRun}, content : Contents]

ASSUME NullAssumption == NoRun \notin Run /\ NoEvent \notin Event
\* models.py validates a manifest before it is stored: its sequences are 1..n, once each.
ASSUME ManifestAssumption ==
  /\ Manifest \in [Run -> SUBSET Event]
  /\ SourceSequence \in [Event -> Nat]
  /\ \A r \in Run :
       /\ {SourceSequence[e] : e \in Manifest[r]} = 1 .. Cardinality(Manifest[r])
       /\ \A d, e \in Manifest[r] : SourceSequence[d] = SourceSequence[e] => d = e
ASSUME FiniteAssumption == IsFiniteSet(Event)
ASSUME MessageAssumption ==
  /\ Message \subseteq Messages
  /\ \A m \in Message : m.shape = "valid" => m.event \in Event /\ m.run \in Run
ASSUME BoundAssumption == MaxAttempts \in Nat /\ MaxCrashes \in Nat /\ MaxFaults \in Nat

VARIABLES
  runs,       \* runs.status
  report,     \* runs.client_acked_count, as the completion request reported it
  attempts,   \* delivery_attempts, in insertion order
  events,     \* events, by primary key
  effects,    \* processing_attempts, counted by event and outcome
  evidence,   \* connection_events of each socket, observed by the server
  server,     \* the API process
  backlog,    \* events startup recovery has still to process
  pc, bound, reply,  \* each handler: where it waits, its run, its pending reply
  sent,       \* replies whose send returned, or was under way at a crash
  crashes, faults    \* counters for the bounds

database == <<runs, report, attempts, events, effects, evidence>>
handlers == <<pc, bound, reply>>
bounds   == <<crashes, faults>>
vars     == <<database, server, backlog, handlers, sent, bounds>>

Outcomes   == {"accepted", "duplicate", "conflict", "rejected"}
Categories == {"none", "message_too_large", "malformed_json", "run_id_mismatch",
               "validation", "unknown_run", "unregistered_event",
               "event_id_conflict", "internal_error"}
Attempts == [conn : Conn, run : Run, event : Event \cup {NoEvent},
             outcome : Outcomes, category : Categories, replied : BOOLEAN]
Replies  == [attempt : Nat, status : Outcomes, event : Event \cup {NoEvent}]
NoReply  == [attempt |-> 0, status |-> "rejected", event |-> NoEvent]
Rows     == [run : Run, content : Contents, order : Nat, arrival : Nat,
             outOfOrder : BOOLEAN, gap : Nat, acked : BOOLEAN, processed : BOOLEAN]
NoRow    == [run |-> NoRun]
States   == {"idle", "accepting", "receiving", "replying", "marking",
             "processing", "broadcasting", "closing", "closed"}

Persisted(e)  == events[e] # NoRow
Stored        == {e \in Event : Persisted(e)}
Unprocessed   == {e \in Stored : ~events[e].processed}
EventsOf(r)   == {e \in Stored : events[e].run = r}
Positions     == 1 .. Len(attempts)
AttemptsOf(r) == {i \in Positions : attempts[i].run = r}
Registered(r) == IF runs[r] = "absent" THEN {} ELSE Manifest[r]

\* Mutant: only rejections are kept from processing.
MayProcessConflicts(status) == status # "rejected"

\* An accepted or a duplicate delivery is acknowledged and may be processed.
MayProcess(status) == status \in {"accepted", "duplicate"}

\* No handler is inside an uninterrupted stretch of code.
LoopFree == server = "up" /\ \A c \in Conn : pc[c] \notin {"marking", "processing"}

Init ==
  /\ runs = [r \in Run |-> "absent"]
  /\ report = [r \in Run |-> -1]
  /\ attempts = <<>>
  /\ events = [e \in Event |-> NoRow]
  /\ effects = [e \in Event |-> [success |-> 0, failure |-> 0]]
  /\ evidence = [c \in Conn |-> <<>>]
  /\ server = "up"
  /\ backlog = {}
  /\ pc = [c \in Conn |-> "idle"]
  /\ bound = [c \in Conn |-> NoRun]
  /\ reply = [c \in Conn |-> NoReply]
  /\ sent = {}
  /\ crashes = 0
  /\ faults = 0

\* One transaction is rolled back.
Fault == faults < MaxFaults /\ faults' = faults + 1

-----------------------------------------------------------------------------
(* Runs *)

\* generated_events has one primary key for all runs: a manifest that repeats a
\* registered event rolls the whole creation back.
CreateRun(r) ==
  /\ LoopFree
  /\ runs[r] = "absent"
  /\ \A s \in Run : Registered(s) \cap Manifest[r] = {}
  /\ runs' = [runs EXCEPT ![r] = "running"]
  /\ UNCHANGED <<report, attempts, events, effects, evidence, server, backlog,
                 handlers, sent, bounds>>

\* An identical repetition is a no-op and a different one is refused.
CompleteRun(r, acked) ==
  /\ LoopFree
  /\ runs[r] = "running"
  /\ runs' = [runs EXCEPT ![r] = "completed"]
  /\ report' = [report EXCEPT ![r] = acked]
  /\ UNCHANGED <<attempts, events, effects, evidence, server, backlog,
                 handlers, sent, bounds>>

-----------------------------------------------------------------------------
(* Opening and closing a source socket *)

\* The status is read once, before websocket.accept() is awaited.
OpenSocket(c, r) ==
  /\ LoopFree
  /\ pc[c] = "idle"
  /\ bound' = [bound EXCEPT ![c] = r]
  /\ pc' = [pc EXCEPT ![c] = IF runs[r] = "running" THEN "accepting" ELSE "closed"]
  /\ UNCHANGED <<database, server, backlog, reply, sent, bounds>>

\* After the await the connected row is written whatever the run's status is now.
AcceptSocket(c) ==
  /\ LoopFree
  /\ pc[c] = "accepting"
  /\ evidence' = [evidence EXCEPT ![c] = Append(@, "connected")]
  /\ pc' = [pc EXCEPT ![c] = "receiving"]
  /\ UNCHANGED <<runs, report, attempts, events, effects, server, backlog,
                 bound, reply, sent, bounds>>

\* The peer is gone before accept() returns, or the connected row fails: both
\* happen before the try block, so no disconnected row follows.
AbortHandshake(c) ==
  /\ LoopFree
  /\ pc[c] = "accepting"
  /\ pc' = [pc EXCEPT ![c] = "closed"]
  /\ UNCHANGED <<database, server, backlog, bound, reply, sent, bounds>>

\* The finally block; a failure to store the row is only logged.
EndHandler(c) ==
  /\ pc' = [pc EXCEPT ![c] = "closed"]
  /\ reply' = [reply EXCEPT ![c] = NoReply]
  /\ \/ /\ evidence' = [evidence EXCEPT ![c] = Append(@, "disconnected")]
        /\ faults' = faults
     \/ Fault /\ UNCHANGED evidence
  /\ UNCHANGED <<runs, report, attempts, events, effects, server, backlog,
                 bound, sent, crashes>>

\* receive_text sees the peer close, or the server's own close() has returned.
CloseSocket(c) ==
  /\ LoopFree
  /\ pc[c] \in {"receiving", "closing"}
  /\ EndHandler(c)

-----------------------------------------------------------------------------
(* One raw message: IngestService.ingest_text, in the order of its checks *)

\* Mutant: the content is not compared with the manifest's.
CategoryWithoutHash(m, hint) ==
  IF m.shape \in {"oversized", "malformed"} THEN "malformed_json"
  ELSE IF m.run \notin {NoRun, hint} THEN "run_id_mismatch"
  ELSE IF m.shape = "invalid" THEN "validation"
  ELSE IF m.event \notin Registered(m.run) THEN "unregistered_event"
  ELSE "none"

\* Mutant: the payload's run is not compared with the socket's.
CategoryTrustingPayload(m, hint) ==
  IF m.shape \in {"oversized", "malformed"} THEN "malformed_json"
  ELSE IF m.shape = "invalid" THEN "validation"
  ELSE IF m.event \notin Registered(m.run) THEN "unregistered_event"
  ELSE IF m.content # "manifest" THEN "event_id_conflict"
  ELSE "none"

Category(m, hint) ==
  IF m.shape = "oversized" THEN "message_too_large"
  ELSE IF m.shape = "malformed" THEN "malformed_json"
  ELSE IF m.run \notin {NoRun, hint} THEN "run_id_mismatch"
  ELSE IF m.shape = "invalid" THEN "validation"
  ELSE IF runs[m.run] = "absent" THEN "unknown_run"
  ELSE IF m.event \notin Registered(m.run) THEN "unregistered_event"
  ELSE IF m.content # "manifest" THEN "event_id_conflict"
  ELSE "none"

\* The identifiers are parsed only out of a message that is JSON.
ClaimedEvent(m) == IF m.shape \in {"oversized", "malformed"} THEN NoEvent ELSE m.event

Receiving(c) == LoopFree /\ pc[c] = "receiving" /\ Len(attempts) < MaxAttempts

\* Mutant: the run need only exist.
AcceptingAlways(r) == runs[r] # "absent"

\* Every transaction that stores an attempt first checks the run's status.
AcceptingDeliveries(r) == runs[r] = "running"

Audit(c, r, e, outcome, category) ==
  /\ AcceptingDeliveries(r)
  /\ attempts' = Append(attempts,
        [conn |-> c, run |-> r, event |-> e, outcome |-> outcome,
         category |-> category, replied |-> FALSE])

PrepareReply(c, e, outcome) ==
  /\ reply' = [reply EXCEPT ![c] =
                 [attempt |-> Len(attempts) + 1, status |-> outcome, event |-> e]]
  /\ pc' = [pc EXCEPT ![c] = "replying"]

\* A message no run accepts: attributed to the socket's run, whatever it claims.
RecordRejected(c, m) ==
  LET category == Category(m, bound[c]) IN
  /\ Receiving(c)
  /\ category \notin {"none", "event_id_conflict"}
  /\ Audit(c, bound[c], ClaimedEvent(m), "rejected", category)
  /\ PrepareReply(c, ClaimedEvent(m), "rejected")
  /\ UNCHANGED <<runs, report, events, effects, evidence, server, backlog,
                 bound, sent, bounds>>

\* The content differs from the manifest's, or from the canonical row's.
RecordConflicted(c, m) ==
  /\ Receiving(c)
  /\ \/ Category(m, bound[c]) = "event_id_conflict"
     \/ /\ Category(m, bound[c]) = "none"
        /\ Persisted(m.event)
        /\ events[m.event].content # m.content
  /\ Audit(c, m.run, m.event, "conflict", "event_id_conflict")
  /\ PrepareReply(c, m.event, "conflict")
  /\ UNCHANGED <<runs, report, events, effects, evidence, server, backlog,
                 bound, sent, bounds>>

\* Mutant: a repeated event is accepted again.
DuplicateAsAccepted(c, m) ==
  /\ Receiving(c)
  /\ Category(m, bound[c]) = "none"
  /\ Persisted(m.event)
  /\ Audit(c, m.run, m.event, "accepted", "none")
  /\ PrepareReply(c, m.event, "accepted")
  /\ UNCHANGED <<runs, report, events, effects, evidence, server, backlog,
                 bound, sent, bounds>>

\* Mutant: a repeated event is stored over its row.
DuplicateReplacesRow(c, m) ==
  /\ Receiving(c)
  /\ Category(m, bound[c]) = "none"
  /\ Persisted(m.event)
  /\ Audit(c, m.run, m.event, "duplicate", "none")
  /\ events' = [events EXCEPT ![m.event].acked = FALSE]
  /\ PrepareReply(c, m.event, "duplicate")
  /\ UNCHANGED <<runs, report, effects, evidence, server, backlog, bound, sent, bounds>>

PersistDuplicate(c, m) ==
  /\ Receiving(c)
  /\ Category(m, bound[c]) = "none"
  /\ Persisted(m.event)
  /\ events[m.event].content = m.content
  /\ Audit(c, m.run, m.event, "duplicate", "none")
  /\ PrepareReply(c, m.event, "duplicate")
  /\ UNCHANGED <<runs, report, events, effects, evidence, server, backlog,
                 bound, sent, bounds>>

\* Sequences start at 1, so an empty run has the previous maximum 0.
PreviousMax(r) == Max({SourceSequence[e] : e \in EventsOf(r)} \cup {0})

\* Mutant: the gap is not cut off at 0.
RowWithOpenGap(m) ==
  LET sequence == SourceSequence[m.event]
      previous == PreviousMax(m.run)
  IN [run |-> m.run, content |-> m.content, order |-> Cardinality(Stored) + 1,
      arrival |-> Cardinality(EventsOf(m.run)) + 1, outOfOrder |-> sequence < previous,
      gap |-> sequence - previous - 1, acked |-> FALSE, processed |-> FALSE]

\* Mutant: order and gap are taken against the last arrival, not the maximum.
RowAgainstLastArrival(m) ==
  LET sequence == SourceSequence[m.event]
      arrival  == Cardinality(EventsOf(m.run)) + 1
      previous == Max({SourceSequence[e] : e \in
                         {d \in EventsOf(m.run) : events[d].arrival = arrival - 1}} \cup {0})
  IN [run |-> m.run, content |-> m.content, order |-> Cardinality(Stored) + 1,
      arrival |-> arrival, outOfOrder |-> sequence < previous,
      gap |-> Max({0, sequence - previous - 1}), acked |-> FALSE, processed |-> FALSE]

CanonicalRow(m) ==
  LET sequence == SourceSequence[m.event]
      previous == PreviousMax(m.run)
  IN [run |-> m.run, content |-> m.content,
      order |-> Cardinality(Stored) + 1,
      arrival |-> Cardinality(EventsOf(m.run)) + 1,
      outOfOrder |-> sequence < previous,
      gap |-> Max({0, sequence - previous - 1}),
      acked |-> FALSE, processed |-> FALSE]

\* The attempt and the canonical row commit together.
PersistAccepted(c, m) ==
  /\ Receiving(c)
  /\ Category(m, bound[c]) = "none"
  /\ ~Persisted(m.event)
  /\ Audit(c, m.run, m.event, "accepted", "none")
  /\ events' = [events EXCEPT ![m.event] = CanonicalRow(m)]
  /\ PrepareReply(c, m.event, "accepted")
  /\ UNCHANGED <<runs, report, effects, evidence, server, backlog, bound, sent, bounds>>

\* RunNotAcceptingDeliveriesError: no row, close with 4409.
RefuseDelivery(c) ==
  /\ LoopFree
  /\ pc[c] = "receiving"
  /\ ~AcceptingDeliveries(bound[c])
  /\ pc' = [pc EXCEPT ![c] = "closing"]
  /\ UNCHANGED <<database, server, backlog, bound, reply, sent, bounds>>

\* The transaction rolls back; an INTERNAL_ERROR attempt is stored if it can be,
\* and the socket is closed with 1011 and no reply.
IngestFails(c) ==
  /\ Receiving(c)
  /\ Fault
  /\ \/ Audit(c, bound[c], NoEvent, "rejected", "internal_error")
     \/ UNCHANGED attempts
  /\ pc' = [pc EXCEPT ![c] = "closing"]
  /\ UNCHANGED <<runs, report, events, effects, evidence, server, backlog,
                 bound, reply, sent, crashes>>

Ingest(c, m) ==
  \/ RecordRejected(c, m)
  \/ RecordConflicted(c, m)
  \/ PersistDuplicate(c, m)
  \/ PersistAccepted(c, m)

-----------------------------------------------------------------------------
(* The reply, and what follows it without another await *)

\* send_json returned.  The client may or may not come to read the reply.
SendReply(c) ==
  /\ LoopFree
  /\ pc[c] = "replying"
  /\ sent' = sent \cup {reply[c]}
  /\ pc' = [pc EXCEPT ![c] = "marking"]
  /\ UNCHANGED <<database, server, backlog, bound, reply, bounds>>

\* Mutant: a reply that failed is marked like one that was sent.
ReplyFailureIgnored(c) ==
  /\ LoopFree
  /\ pc[c] = "replying"
  /\ pc' = [pc EXCEPT ![c] = "marking"]
  /\ UNCHANGED <<database, server, backlog, bound, reply, sent, bounds>>

\* send_json raised: neither the reply nor the event is marked or processed, and
\* the reply does not count as sent.
ReplyFails(c) ==
  /\ LoopFree
  /\ pc[c] = "replying"
  /\ EndHandler(c)

\* The handler awaits its next message.
Resume(c) ==
  /\ pc' = [pc EXCEPT ![c] = "receiving"]
  /\ reply' = [reply EXCEPT ![c] = NoReply]

\* Mutant: the event is marked whatever the reply said.
MarkAnyReply(c) ==
  LET rep == reply[c] IN
  /\ server = "up"
  /\ pc[c] = "marking"
  /\ attempts' = [attempts EXCEPT ![rep.attempt].replied = TRUE]
  /\ events' = [e \in Event |-> IF e = rep.event /\ Persisted(e)
                                THEN [events[e] EXCEPT !.acked = TRUE]
                                ELSE events[e]]
  /\ IF MayProcess(rep.status)
     THEN pc' = [pc EXCEPT ![c] = "processing"] /\ UNCHANGED reply
     ELSE Resume(c)
  /\ UNCHANGED <<runs, report, effects, evidence, server, backlog, bound, sent, bounds>>

\* mark_delivery_reply_sent, the first transaction of record_reply_and_process.
MarkReplySent(c) ==
  LET rep == reply[c] IN
  /\ server = "up"
  /\ pc[c] = "marking"
  /\ attempts' = [attempts EXCEPT ![rep.attempt].replied = TRUE]
  /\ events' = [e \in Event |-> IF e = rep.event /\ MayProcess(rep.status)
                                THEN [events[e] EXCEPT !.acked = TRUE]
                                ELSE events[e]]
  /\ IF MayProcess(rep.status)
     THEN pc' = [pc EXCEPT ![c] = "processing"] /\ UNCHANGED reply
     ELSE Resume(c)
  /\ UNCHANGED <<runs, report, effects, evidence, server, backlog, bound, sent, bounds>>

\* The exception is logged and the loop continues: process_event is not reached.
MarkFails(c) ==
  /\ server = "up"
  /\ pc[c] = "marking"
  /\ Fault
  /\ Resume(c)
  /\ UNCHANGED <<database, server, backlog, bound, sent, crashes>>

\* The one successful processing attempt of an event.
StoreEffect(e) ==
  /\ effects' = [effects EXCEPT ![e].success = @ + 1]
  /\ events' = [events EXCEPT ![e].processed = TRUE]

\* Mutant: an event already processed gets another effect.
ProcessAgain(c) ==
  /\ server = "up"
  /\ pc[c] = "processing"
  /\ pc' = [pc EXCEPT ![c] = "broadcasting"]
  /\ StoreEffect(reply[c].event)
  /\ UNCHANGED <<runs, report, attempts, evidence, server, backlog, bound, reply,
                 sent, bounds>>

\* process_event: a processed event yields no second effect and no broadcast.
ProcessEvent(c) ==
  LET e == reply[c].event IN
  /\ server = "up"
  /\ pc[c] = "processing"
  /\ IF events[e].processed
     THEN Resume(c) /\ UNCHANGED <<effects, events>>
     ELSE /\ pc' = [pc EXCEPT ![c] = "broadcasting"]
          /\ StoreEffect(e)
          /\ UNCHANGED reply
  /\ UNCHANGED <<runs, report, attempts, evidence, server, backlog, bound, sent, bounds>>

\* A rolled-back process_event leaves a failed attempt, if that can be stored.
ProcessingFailure(e) ==
  /\ Fault
  /\ \/ effects' = [effects EXCEPT ![e].failure = @ + 1]
     \/ UNCHANGED effects

ProcessFails(c) ==
  /\ server = "up"
  /\ pc[c] = "processing"
  /\ ProcessingFailure(reply[c].event)
  /\ Resume(c)
  /\ UNCHANGED <<runs, report, attempts, events, evidence, server, backlog, bound,
                 sent, crashes>>

\* hub.broadcast is awaited; its failures are logged.
BroadcastEnds(c) ==
  /\ LoopFree
  /\ pc[c] = "broadcasting"
  /\ Resume(c)
  /\ UNCHANGED <<database, server, backlog, bound, sent, bounds>>

-----------------------------------------------------------------------------
(* The API process *)

\* Transactions are atomic, so a crash falls between two of them.  A reply whose
\* send_json had not returned may have left all the same.
Crash ==
  /\ server # "down"
  /\ crashes < MaxCrashes
  /\ crashes' = crashes + 1
  /\ server' = "down"
  /\ backlog' = {}
  /\ pc' = [c \in Conn |-> IF pc[c] = "idle" THEN "idle" ELSE "closed"]
  /\ reply' = [c \in Conn |-> NoReply]
  /\ sent' = sent \cup {reply[c] : c \in {d \in Conn : pc[d] = "replying"}}
  /\ UNCHANGED <<database, bound, faults>>

\* Mutant: nothing is recovered.
StartWithoutRecovery ==
  /\ server = "down"
  /\ server' = "recovering"
  /\ UNCHANGED <<database, backlog, handlers, sent, bounds>>

\* Mutant: only events marked as acknowledged are recovered.
StartWithMarkedEvents ==
  /\ server = "down"
  /\ server' = "recovering"
  /\ backlog' = {e \in Unprocessed : events[e].acked}
  /\ UNCHANGED <<database, handlers, sent, bounds>>

\* lifespan: recover_unprocessed first reads the events left unprocessed.
Start ==
  /\ server = "down"
  /\ server' = "recovering"
  /\ backlog' = Unprocessed
  /\ UNCHANGED <<database, handlers, sent, bounds>>

\* The next event in persisted order.
NextToRecover(e) ==
  /\ server = "recovering"
  /\ e \in backlog
  /\ \A d \in backlog : events[e].order <= events[d].order
  /\ backlog' = backlog \ {e}

\* Nothing is broadcast: no browser is connected yet.
RecoverEvent(e) ==
  /\ NextToRecover(e)
  /\ IF events[e].processed THEN UNCHANGED <<effects, events>> ELSE StoreEffect(e)
  /\ UNCHANGED <<runs, report, attempts, evidence, server, handlers, sent, bounds>>

RecoverFails(e) ==
  /\ NextToRecover(e)
  /\ ProcessingFailure(e)
  /\ UNCHANGED <<runs, report, attempts, events, evidence, server, handlers, sent, crashes>>

Serve ==
  /\ server = "recovering"
  /\ backlog = {}
  /\ server' = "up"
  /\ UNCHANGED <<database, backlog, handlers, sent, bounds>>

-----------------------------------------------------------------------------
Handler(c) ==
  \/ \E r \in Run : OpenSocket(c, r)
  \/ AcceptSocket(c)
  \/ AbortHandshake(c)
  \/ CloseSocket(c)
  \/ \E m \in Message : Ingest(c, m)
  \/ RefuseDelivery(c)
  \/ IngestFails(c)
  \/ SendReply(c)
  \/ ReplyFails(c)
  \/ MarkReplySent(c)
  \/ MarkFails(c)
  \/ ProcessEvent(c)
  \/ ProcessFails(c)
  \/ BroadcastEnds(c)

Recovery(e) == RecoverEvent(e) \/ RecoverFails(e)

Next ==
  \/ \E r \in Run : CreateRun(r)
  \/ \E r \in Run : \E acked \in 0 .. Cardinality(Manifest[r]) : CompleteRun(r, acked)
  \/ \E c \in Conn : Handler(c)
  \/ Crash
  \/ Start
  \/ \E e \in Event : Recovery(e)
  \/ Serve

Spec == Init /\ [][Next]_vars

\* The event loop runs every handler on: code between two awaits finishes, and so
\* does startup.  A crashed API is started again.  Peers owe nothing.
Fairness ==
  /\ \A c \in Conn : WF_vars(MarkReplySent(c) \/ MarkFails(c))
  /\ \A c \in Conn : WF_vars(ProcessEvent(c) \/ ProcessFails(c))
  /\ WF_vars(Start)
  /\ \A e \in Event : WF_vars(Recovery(e))
  /\ WF_vars(Serve)

FairSpec == Spec /\ Fairness

-----------------------------------------------------------------------------
(* Properties *)

\* Every variable keeps to the values its table or handler can hold.
TypeOK ==
  /\ runs \in [Run -> {"absent", "running", "completed"}]
  /\ report \in [Run -> Nat \cup {-1}]
  /\ attempts \in Seq(Attempts)
  /\ events \in [Event -> Rows \cup {NoRow}]
  /\ effects \in [Event -> [success : Nat, failure : Nat]]
  /\ evidence \in [Conn -> Seq({"connected", "disconnected"})]
  /\ server \in {"up", "down", "recovering"}
  /\ backlog \subseteq Event
  /\ pc \in [Conn -> States]
  /\ bound \in [Conn -> Run \cup {NoRun}]
  /\ reply \in [Conn -> Replies]
  /\ sent \subseteq Replies
  /\ crashes \in Nat /\ faults \in Nat

\* The database holds what a reply says.
Durable(rep) ==
  /\ rep.attempt \in Positions
  /\ attempts[rep.attempt].event = rep.event
  /\ attempts[rep.attempt].outcome = rep.status
  /\ MayProcess(rep.status) => rep.event \in Stored

\* Durability of what a source was told: a reply on the wire names a stored attempt
\* with the same event and outcome, and an acknowledged event is a canonical row,
\* whatever crashed or rolled back since (persist, then ACK: main.py, service.py).
RepliesAreDurable == \A rep \in sent : Durable(rep)

\* A canonical row is what one accepted attempt made of it: a persisted event has
\* exactly one accepted attempt, of its run, and every duplicate came after it.
OneAcceptedAttempt ==
  \A e \in Event :
    LET accepted == {i \in Positions : attempts[i].event = e /\ attempts[i].outcome = "accepted"}
    IN /\ Cardinality(accepted) = (IF Persisted(e) THEN 1 ELSE 0)
       /\ \A i \in accepted : attempts[i].run = events[e].run
       /\ \A j \in Positions :
            attempts[j].event = e /\ attempts[j].outcome = "duplicate"
              => \E i \in accepted : i < j

\* Every canonical row is, in content and in run, an event of that run's manifest:
\* neither a payload nor a socket of another run can create anything else.
CanonicalFromManifest ==
  \A e \in Stored :
    /\ e \in Registered(events[e].run)
    /\ events[e].content = "manifest"

\* Attempts are evidence of the run their socket is bound to, never of the run an
\* untrusted payload names.
AttemptsFollowSocket ==
  \A i \in Positions : attempts[i].run = bound[attempts[i].conn]

\* acknowledged_at and response_sent_at agree: an event is marked acknowledged
\* exactly when one of its accepted or duplicate attempts has its reply marked.
AckEvidence ==
  \A e \in Stored :
    events[e].acked <=>
      \E i \in Positions : /\ attempts[i].event = e
                           /\ MayProcess(attempts[i].outcome)
                           /\ attempts[i].replied

\* A reply is only ever marked as sent when it was sent.
MarkedRepliesWereSent ==
  \A i \in Positions : attempts[i].replied => \E rep \in sent : rep.attempt = i

\* Live processing, duplicates, retries after failures and startup recovery
\* together store one successful effect per processed event, and none without it.
OneEffect ==
  \A e \in Event :
    effects[e].success = IF Persisted(e) /\ events[e].processed THEN 1 ELSE 0

\* The sequences an arrival moved the maximum of its run across, its own included.
Advance(e) == SourceSequence[e] - events[e].gap .. SourceSequence[e]

\* The ordering evidence of a run is exact: arrival indexes are 1..n, an event is
\* out of order iff a later sequence arrived before it, and the gaps add up: each
\* sequence up to the maximum arrived on time or was skipped by exactly one gap.
ArrivalEvidence ==
  \A r \in Run :
    LET stored == EventsOf(r)
        onTime == {e \in stored : ~events[e].outOfOrder}
    IN /\ {events[e].arrival : e \in stored} = 1 .. Cardinality(stored)
       /\ \A e \in stored : events[e].outOfOrder <=>
            \E d \in stored : /\ events[d].arrival < events[e].arrival
                             /\ SourceSequence[d] > SourceSequence[e]
       /\ \A e \in stored \ onTime : events[e].gap = 0
       /\ UNION {Advance(e) : e \in onTime} = 1 .. PreviousMax(r)
       /\ \A d, e \in onTime : d # e => Advance(d) \cap Advance(e) = {}

\* Completion is final: it closes ingestion of the run atomically.  Neither the
\* counters it reported, nor the run's attempts, nor its events change afterwards,
\* though replies, marks and processing already under way go on.
CompletionCloses ==
  [][\A r \in Run : runs[r] = "completed" =>
        /\ runs'[r] = "completed"
        /\ report'[r] = report[r]
        /\ AttemptsOf(r)' = AttemptsOf(r)
        /\ EventsOf(r)' = EventsOf(r)]_vars

\* Evidence only grows: attempts are appended, a reply mark, a canonical row, an
\* acknowledgment, an effect and a failure are never taken back or rewritten.
EvidenceGrows ==
  [][/\ \A i \in Positions :
          /\ i \in Positions'
          /\ [attempts'[i] EXCEPT !.replied = FALSE] = [attempts[i] EXCEPT !.replied = FALSE]
          /\ attempts[i].replied => attempts'[i].replied
     /\ \A e \in Stored :
          /\ [events'[e] EXCEPT !.acked = FALSE, !.processed = FALSE]
               = [events[e] EXCEPT !.acked = FALSE, !.processed = FALSE]
          /\ events[e].acked => events'[e].acked
          /\ events[e].processed => events'[e].processed
     /\ \A e \in Event : effects'[e].failure >= effects[e].failure]_vars

\* While no transaction fails, an event whose acknowledgment left the API (its send
\* returned, or was under way at a crash) is processed in the end, across crashes
\* between any two steps.
AcknowledgedIsProcessed ==
  \A e \in Event :
    (\E rep \in sent : rep.event = e /\ MayProcess(rep.status))
      ~> (Persisted(e) /\ events[e].processed)

-----------------------------------------------------------------------------
(* What Ingestion implements *)

Acknowledged == {rep.event : rep \in {r \in sent : MayProcess(r.status)}}

Contract == INSTANCE StreamContract WITH
  Delivery     <- 1 .. MaxAttempts,
  phase        <- runs,
  origin       <- [e \in Event |-> events[e].run],
  audited      <- [r \in Run |-> AttemptsOf(r)],
  acknowledged <- Acknowledged,
  effected     <- Stored \ Unprocessed

\* Every step of the handlers, of a crash and of recovery is a step of the contract
\* or invisible to it.
ImplementsContract == Contract!Spec

\* Without failing transactions the contract's promise of an effect for every
\* acknowledged event is kept too.
ImplementsFairContract == Contract!FairSpec

=============================================================================
