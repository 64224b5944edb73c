----------------------------- MODULE OverlayHub -----------------------------
(***************************************************************************)
(* The browser side of one run: the OverlayHub and the /ws/overlay handler *)
(* of main.py, the session, dispatch and render transactions of            *)
(* repository.py, and the document overlay.js keeps (a session is one      *)
(* document: it draws its session id once).                                *)
(*                                                                         *)
(* A send_effect or send_json call is a task: it looks its session up,     *)
(* waits for that connection's send_lock and awaits the WebSocket, and     *)
(* only after that await records the dispatch and gives the lock up.  A    *)
(* handler has one task of its own and a broadcast starts one for each     *)
(* registered session.  hub._guard is never held across an await, so no    *)
(* one ever waits for it and it needs no state.                            *)
(***************************************************************************)
EXTENDS Integers, Sequences, FiniteSets, Functions

CONSTANTS Event,      \* source sequences of the run's events
          Session,    \* browser documents
          MaxConns,   \* bound: WebSocket connections
          MaxCrashes, \* bound: API crashes
          MaxFaults   \* bound: transactions that fail

ASSUME EventAssumption == Event \subseteq Nat \ {0} /\ IsFiniteSet(Event)
ASSUME BoundAssumption == MaxConns \in Nat /\ MaxCrashes \in Nat /\ MaxFaults \in Nat

Conn  == 1 .. MaxConns
None  == 0
Ready == -1   \* the overlay_ready message
Reply == -2   \* render_acknowledged or render_nack
Items == Event \cup {Ready, Reply}

HandlerTask(c) == <<"handler", c>>
CastTask(e, s) == <<"cast", e, s>>
HandlerTasks   == {HandlerTask(c) : c \in Conn}
CastTasks      == {CastTask(e, s) : e \in Event, s \in Session}
Task           == HandlerTasks \cup CastTasks

VARIABLES
  processed,  \* events with a successful effect
  dispatches, \* overlay_dispatches: the outcomes stored for each (event, session)
  acks,       \* render_acknowledgments
  milestones, \* events.first_dispatched_at and rendered_at that are set
  sessions,   \* overlay_sessions
  evidence,   \* connection_events rows of each session, by kind
  up,         \* the API process is running
  registry,   \* OverlayHub._connections
  pc, owner, replay, \* each handler: where it is, its session, effects left to replay
  tasks,      \* sends under way
  link,       \* the transport of each connection
  toBrowser, toServer, \* effects and render acks in flight
  client,     \* the connection each document uses
  cards,      \* cards in each document
  nacked,     \* history: the acks refused while the transport worked
  crashes, faults

database == <<processed, dispatches, acks, milestones, sessions, evidence>>
handlers == <<registry, pc, owner, replay>>
browser  == <<client, cards>>
network  == <<link, toBrowser, toServer>>
bounds   == <<crashes, faults>>
vars     == <<database, up, handlers, tasks, network, browser, nacked, bounds>>

Idle     == [stage |-> "off", item |-> Reply, to |-> None]
Rendered(s)   == {e \in Event : cards[s][e] > 0}
SessionOf(t)  == IF t[1] = "handler" THEN owner[t[2]] ELSE t[3]
Locked(c)     == \E t \in Task : tasks[t].stage = "sending" /\ tasks[t].to = c
Fault         == faults < MaxFaults /\ faults' = faults + 1

Init ==
  /\ processed = {}
  /\ dispatches = [e \in Event |-> [s \in Session |-> {}]]
  /\ acks = {}
  /\ milestones = [e \in Event |-> {}]
  /\ sessions = [s \in Session |-> [known |-> FALSE, connected |-> FALSE, reconnects |-> 0]]
  /\ evidence = [s \in Session |-> [connected |-> 0, disconnected |-> 0]]
  /\ up = TRUE
  /\ registry = [s \in Session |-> None]
  /\ pc = [c \in Conn |-> "idle"]
  /\ owner = [c \in Conn |-> None]
  /\ replay = [c \in Conn |-> {}]
  /\ tasks = [t \in Task |-> Idle]
  /\ link = [c \in Conn |-> "none"]
  /\ toBrowser = [c \in Conn |-> <<>>]
  /\ toServer = [c \in Conn |-> <<>>]
  /\ client = [s \in Session |-> None]
  /\ cards = [s \in Session |-> [e \in Event |-> 0]]
  /\ nacked = {}
  /\ crashes = 0
  /\ faults = 0

-----------------------------------------------------------------------------
(* Where effects come from *)

\* process_event committed; broadcast takes its snapshot of the sessions before
\* anything else runs, and gather starts one send_effect for each.
ProcessAndBroadcast(e) ==
  /\ up
  /\ e \notin processed
  /\ processed' = processed \cup {e}
  /\ tasks' = [t \in Task |->
       IF \E s \in Session : t = CastTask(e, s) /\ registry[s] # None
       THEN [stage |-> "start", item |-> e, to |-> None] ELSE tasks[t]]
  /\ UNCHANGED <<dispatches, acks, milestones, sessions, evidence, up, handlers,
                 network, browser, nacked, bounds>>

\* Startup recovery broadcasts nothing.
RecoverEffect(e) ==
  /\ ~up
  /\ e \notin processed
  /\ processed' = processed \cup {e}
  /\ UNCHANGED <<dispatches, acks, milestones, sessions, evidence, up, handlers,
                 tasks, network, browser, nacked, bounds>>

-----------------------------------------------------------------------------
(* The overlay_socket handler *)

StartTask(c, item) ==
  tasks' = [tasks EXCEPT ![HandlerTask(c)] = [stage |-> "start", item |-> item, to |-> None]]

\* The document connects, or reconnects by its timer after a close event; the server
\* awaits accept().
Connect(s) ==
  LET c == 1 + Cardinality({d \in Conn : pc[d] # "idle"}) IN
  /\ up
  /\ client[s] # None => link[client[s]] = "closed"
  /\ c \in Conn
  /\ pc' = [pc EXCEPT ![c] = "accepting"]
  /\ owner' = [owner EXCEPT ![c] = s]
  /\ link' = [link EXCEPT ![c] = "open"]
  /\ client' = [client EXCEPT ![s] = c]
  /\ UNCHANGED <<database, up, registry, replay, tasks, toBrowser, toServer, cards,
                 nacked, bounds>>

\* open_overlay_session creates or reopens the session's row.
OpenSession(s) ==
  sessions' = [sessions EXCEPT ![s] =
    [known |-> TRUE, connected |-> TRUE,
     reconnects |-> IF @.known THEN @.reconnects + 1 ELSE 0]]

\* From accept() to the registry entry nothing is awaited; then a replaced
\* connection is closed with 4001 before the new one is greeted.
Register(c) ==
  LET s == owner[c] IN
  /\ up
  /\ pc[c] = "accepting"
  /\ link[c] = "open"
  /\ OpenSession(s)
  /\ evidence' = [evidence EXCEPT ![s].connected = @ + 1]
  /\ registry' = [registry EXCEPT ![s] = c]
  /\ IF registry[s] = None
     THEN /\ pc' = [pc EXCEPT ![c] = "greeting"]
          /\ StartTask(c, Ready)
          /\ UNCHANGED <<link, toBrowser>>
     ELSE /\ pc' = [pc EXCEPT ![c] = "replacing"]
          /\ link' = [link EXCEPT ![registry[s]] = "closed"]
          /\ toBrowser' = [toBrowser EXCEPT ![registry[s]] = <<>>]
          /\ UNCHANGED tasks
  /\ UNCHANGED <<processed, dispatches, acks, milestones, up, owner, replay,
                 toServer, browser, nacked, bounds>>

\* accept() fails on a peer that has gone: nothing was stored yet.
AcceptFails(c) ==
  /\ up
  /\ pc[c] = "accepting"
  /\ link[c] = "closed"
  /\ pc' = [pc EXCEPT ![c] = "ended"]
  /\ UNCHANGED <<database, up, registry, owner, replay, tasks, network, browser,
                 nacked, bounds>>

\* What a handler that ends leaves unread or unsent.
Forget(c) ==
  /\ replay' = [replay EXCEPT ![c] = {}]
  /\ toServer' = [toServer EXCEPT ![c] = <<>>]

\* An exception before the try block ends the handler with nothing undone: its
\* registry entry and its session row stay, and the ASGI server closes the socket.
HandlerDies(c) ==
  /\ pc' = [pc EXCEPT ![c] = "ended"]
  /\ tasks' = [tasks EXCEPT ![HandlerTask(c)] = Idle]
  /\ link' = [link EXCEPT ![c] = "closed"]
  /\ toBrowser' = [toBrowser EXCEPT ![c] = <<>>]
  /\ Forget(c)

\* previous.websocket.close() returned.
PreviousClosed(c) ==
  /\ up
  /\ pc[c] = "replacing"
  /\ pc' = [pc EXCEPT ![c] = "greeting"]
  /\ StartTask(c, Ready)
  /\ UNCHANGED <<database, up, registry, owner, replay, network, browser, nacked, bounds>>

\* It may raise on a peer that has gone, and nothing catches that.
PreviousCloseRaises(c) ==
  /\ up
  /\ pc[c] = "replacing"
  /\ c < MaxConns
  /\ HandlerDies(c)
  /\ UNCHANGED <<database, up, registry, owner, browser, nacked, bounds>>

\* One of the two transactions before the registry entry fails.
OpenFails(c) ==
  /\ up
  /\ pc[c] = "accepting"
  /\ link[c] = "open"
  /\ Fault
  /\ OpenSession(owner[c]) \/ UNCHANGED sessions
  /\ HandlerDies(c)
  /\ UNCHANGED <<processed, dispatches, acks, milestones, evidence, up, registry,
                 owner, browser, nacked, crashes>>

\* Mutant: the replay leaves out what was dispatched before.
PendingUndispatched(s) ==
  {e \in processed : "sent" \notin dispatches[e][s]}

\* Mutant: an acknowledgment by one document counts for all of them.
PendingEverywhere(s) ==
  {e \in processed : \A d \in Session : <<e, d>> \notin acks}

\* pending_effects_for_session: processed and not acknowledged by this session.
Pending(s) ==
  {e \in processed : <<e, s>> \notin acks}

\* ORDER BY source_sequence.
First(S) == CHOOSE e \in S : \A d \in S : e <= d

\* The handler's own send is over: it reads what to replay after the greeting,
\* sends the next effect, or returns to its receive loop.
NextStep(c) ==
  LET rest == IF pc[c] = "greeting" THEN Pending(owner[c]) ELSE replay[c] IN
  IF pc[c] \in {"greeting", "replaying"} /\ rest # {}
  THEN /\ pc' = [pc EXCEPT ![c] = "replaying"]
       /\ replay' = [replay EXCEPT ![c] = rest \ {First(rest)}]
       /\ StartTask(c, First(rest))
  ELSE /\ pc' = [pc EXCEPT ![c] = "serving"]
       /\ replay' = replay
       /\ tasks' = [tasks EXCEPT ![HandlerTask(c)] = Idle]

CloseSession(s) == sessions' = [sessions EXCEPT ![s].connected = FALSE]

\* Mutant: whatever connection the session has is removed.
RemoveAnyConnection(s, c) == registry' = [registry EXCEPT ![s] = None]

\* OverlayHub.remove: a connection that was replaced removes nothing.
RemoveConnection(s, c) ==
  registry' = IF registry[s] = c THEN [registry EXCEPT ![s] = None] ELSE registry

\* Mutant: the session's row is closed whoever ends.
EndHandlerAndSession(c) ==
  /\ pc' = [pc EXCEPT ![c] = "ended"]
  /\ RemoveConnection(owner[c], c)
  /\ CloseSession(owner[c])
  /\ evidence' = [evidence EXCEPT ![owner[c]].disconnected = @ + 1]
  /\ Forget(c)

\* The finally block: only the handler whose connection is still registered
\* closes the session's row.
EndHandler(c) ==
  /\ pc' = [pc EXCEPT ![c] = "ended"]
  /\ RemoveConnection(owner[c], c)
  /\ IF registry[owner[c]] = c THEN CloseSession(owner[c]) ELSE UNCHANGED sessions
  /\ evidence' = [evidence EXCEPT ![owner[c]].disconnected = @ + 1]
  /\ Forget(c)

\* receive_json sees that the peer has gone; acks still queued are lost.
Disconnect(c) ==
  /\ up
  /\ pc[c] = "serving"
  /\ link[c] = "closed"
  /\ EndHandler(c)
  /\ UNCHANGED <<processed, dispatches, acks, milestones, up, owner, tasks,
                 link, toBrowser, browser, nacked, bounds>>

\* A transaction of the finally block fails: the connection is out of the registry,
\* the row of the session may be closed, the disconnect row is missing.
DisconnectFails(c) ==
  /\ up
  /\ pc[c] = "serving"
  /\ link[c] = "closed"
  /\ Fault
  /\ pc' = [pc EXCEPT ![c] = "ended"]
  /\ RemoveConnection(owner[c], c)
  /\ \/ UNCHANGED sessions
     \/ registry[owner[c]] = c /\ CloseSession(owner[c])
  /\ Forget(c)
  /\ UNCHANGED <<processed, dispatches, acks, milestones, evidence, up, owner,
                 tasks, link, toBrowser, browser, nacked, crashes>>

\* Mutant: any stored dispatch will do.
EligibleByAnyDispatch(e, s) == e \in processed /\ dispatches[e][s] # {}

\* Mutant: the dispatch may be one to another document.
EligibleByAnySession(e, s) == e \in processed /\ \E d \in Session : "sent" \in dispatches[e][d]

\* record_render_ack refuses an event not dispatched to this session.
Eligible(e, s) == e \in processed /\ "sent" \in dispatches[e][s]

\* Mutant: the acknowledgment does not wait for the send_lock.
AckWithoutLock(c) ==
  LET e == Head(toServer[c])
      s == owner[c]
  IN
  /\ up
  /\ pc[c] = "serving"
  /\ toServer[c] # <<>>
  /\ toServer' = [toServer EXCEPT ![c] = Tail(@)]
  /\ IF Eligible(e, s)
     THEN /\ acks' = acks \cup {<<e, s>>}
          /\ milestones' = [milestones EXCEPT ![e] = @ \cup {"rendered"}]
          /\ UNCHANGED nacked
     ELSE /\ nacked' = IF link[c] = "open" THEN nacked \cup {<<e, s>>} ELSE nacked
          /\ UNCHANGED <<acks, milestones>>
  /\ pc' = [pc EXCEPT ![c] = "replying"]
  /\ StartTask(c, Reply)
  /\ UNCHANGED <<processed, dispatches, sessions, evidence, up, registry, owner,
                 replay, link, toBrowser, browser, bounds>>

\* The transaction runs under the connection's send_lock; the reply is a send.
HandleRenderAck(c) ==
  LET e == Head(toServer[c])
      s == owner[c]
  IN
  /\ up
  /\ pc[c] = "serving"
  /\ toServer[c] # <<>>
  /\ ~Locked(c)
  /\ toServer' = [toServer EXCEPT ![c] = Tail(@)]
  /\ IF Eligible(e, s)
     THEN /\ acks' = acks \cup {<<e, s>>}
          /\ milestones' = [milestones EXCEPT ![e] = @ \cup {"rendered"}]
          /\ UNCHANGED nacked
     ELSE /\ nacked' = IF link[c] = "open" THEN nacked \cup {<<e, s>>} ELSE nacked
          /\ UNCHANGED <<acks, milestones>>
  /\ pc' = [pc EXCEPT ![c] = "replying"]
  /\ StartTask(c, Reply)
  /\ UNCHANGED <<processed, dispatches, sessions, evidence, up, registry, owner,
                 replay, link, toBrowser, browser, bounds>>

\* A failing transaction is no ValueError: the handler ends through its finally.
HandleRenderAckFails(c) ==
  /\ up
  /\ pc[c] = "serving"
  /\ toServer[c] # <<>>
  /\ ~Locked(c)
  /\ Fault
  /\ EndHandler(c)
  /\ link' = [link EXCEPT ![c] = "closed"]
  /\ toBrowser' = [toBrowser EXCEPT ![c] = <<>>]
  /\ UNCHANGED <<processed, dispatches, acks, milestones, up, owner, tasks,
                 browser, nacked, crashes>>

-----------------------------------------------------------------------------
(* send_effect and send_json *)

IsEffect(t) == tasks[t].item \in Event

RecordDispatch(t, outcome) ==
  /\ dispatches' = [dispatches EXCEPT ![tasks[t].item][SessionOf(t)] = @ \cup {outcome}]
  /\ milestones' = IF outcome = "sent"
                   THEN [milestones EXCEPT ![tasks[t].item] = @ \cup {"dispatched"}]
                   ELSE milestones

\* The call returned.
Finish(t) ==
  IF t \in HandlerTasks THEN NextStep(t[2])
  ELSE /\ tasks' = [tasks EXCEPT ![t] = Idle]
       /\ UNCHANGED <<pc, replay>>

\* The call raised.
Raise(t) ==
  IF t \in HandlerTasks THEN HandlerDies(t[2])
  ELSE /\ tasks' = [tasks EXCEPT ![t] = Idle]
       /\ UNCHANGED <<pc, replay, link, toBrowser, toServer>>

\* The call has the lock and writes the frame; the browser may have it long before
\* the await returns.
Transmit(t, c) ==
  /\ tasks' = [tasks EXCEPT ![t].stage = "sending", ![t].to = c]
  /\ toBrowser' = IF IsEffect(t) /\ link[c] = "open"
                  THEN [toBrowser EXCEPT ![c] = Append(@, tasks[t].item)] ELSE toBrowser

\* Mutant: a call that waits does not remember its connection.
BeginSendUnbound(t) ==
  LET c == registry[SessionOf(t)] IN
  /\ up
  /\ tasks[t].stage = "start"
  /\ c # None
  /\ IF Locked(c)
     THEN tasks' = [tasks EXCEPT ![t].stage = "waiting"] /\ UNCHANGED toBrowser
     ELSE Transmit(t, c)
  /\ UNCHANGED <<database, up, handlers, link, toServer, browser, nacked, bounds>>

\* The connection registered now is the one the call uses from here on.
BeginSend(t) ==
  LET c == registry[SessionOf(t)] IN
  /\ up
  /\ tasks[t].stage = "start"
  /\ c # None
  /\ IF Locked(c)
     THEN tasks' = [tasks EXCEPT ![t].stage = "waiting", ![t].to = c] /\ UNCHANGED toBrowser
     ELSE Transmit(t, c)
  /\ UNCHANGED <<database, up, handlers, link, toServer, browser, nacked, bounds>>

\* The lock has become free for this call.
TakeLock(t) ==
  /\ up
  /\ tasks[t].stage = "waiting"
  /\ ~Locked(tasks[t].to)
  /\ Transmit(t, tasks[t].to)
  /\ UNCHANGED <<database, up, handlers, link, toServer, browser, nacked, bounds>>

\* No connection: an effect leaves a failed dispatch, other messages nothing.
NoConnection(t) ==
  /\ up
  /\ tasks[t].stage = "start"
  /\ registry[SessionOf(t)] = None
  /\ IF IsEffect(t) THEN RecordDispatch(t, "failed") ELSE UNCHANGED <<dispatches, milestones>>
  /\ Finish(t)
  /\ UNCHANGED <<processed, acks, sessions, evidence, up, registry, owner, network,
                 browser, nacked, bounds>>

\* The await returned: the dispatch is recorded before the lock is given up.
SendReturns(t) ==
  /\ up
  /\ tasks[t].stage = "sending"
  /\ IF IsEffect(t) THEN RecordDispatch(t, "sent") ELSE UNCHANGED <<dispatches, milestones>>
  /\ Finish(t)
  /\ UNCHANGED <<processed, acks, sessions, evidence, up, registry, owner, network,
                 browser, nacked, bounds>>

\* The await raised on a closed transport: after the lock is given up the
\* connection is removed, but its session row is left as it is.
SendFails(t) ==
  /\ up
  /\ tasks[t].stage = "sending"
  /\ link[tasks[t].to] = "closed"
  /\ RemoveConnection(SessionOf(t), tasks[t].to)
  /\ IF IsEffect(t) THEN RecordDispatch(t, "failed") ELSE UNCHANGED <<dispatches, milestones>>
  /\ Finish(t)
  /\ UNCHANGED <<processed, acks, sessions, evidence, up, owner, network, browser,
                 nacked, bounds>>

\* record_dispatch fails, whatever became of the frame, or the query of the
\* effects to replay does.
SendRaises(t) ==
  /\ up
  /\ Fault
  /\ \/ /\ tasks[t].stage = "start"
        /\ IsEffect(t)
        /\ registry[SessionOf(t)] = None
        /\ UNCHANGED registry
     \/ /\ tasks[t].stage = "sending"
        /\ tasks[t].item # Reply
        /\ UNCHANGED registry
     \/ /\ tasks[t].stage = "sending"
        /\ tasks[t].item # Reply
        /\ link[tasks[t].to] = "closed"
        /\ RemoveConnection(SessionOf(t), tasks[t].to)
  /\ Raise(t)
  /\ UNCHANGED <<database, up, owner, browser, nacked, crashes>>

-----------------------------------------------------------------------------
(* The document *)

\* renderEffect: one card per event, and an acknowledgment every time.
ReceiveEffect(s) ==
  LET c == client[s]
      e == Head(toBrowser[c])
  IN
  /\ c # None
  /\ toBrowser[c] # <<>>
  /\ toBrowser' = [toBrowser EXCEPT ![c] = Tail(@)]
  /\ cards' = IF e \in Rendered(s) THEN cards ELSE [cards EXCEPT ![s][e] = @ + 1]
  /\ toServer' = [toServer EXCEPT ![c] = Append(@, e)]
  /\ UNCHANGED <<database, up, handlers, tasks, link, client, nacked, bounds>>

\* A connection breaks (bound: the last one does not); effects in flight are lost,
\* acks that reached the server may still be read.
Break(c) ==
  /\ link[c] = "open"
  /\ c < MaxConns
  /\ link' = [link EXCEPT ![c] = "closed"]
  /\ toBrowser' = [toBrowser EXCEPT ![c] = <<>>]
  /\ UNCHANGED <<database, up, handlers, tasks, toServer, browser, nacked, bounds>>

-----------------------------------------------------------------------------
(* The API process *)

Crash ==
  /\ up
  /\ crashes < MaxCrashes
  /\ link[MaxConns] = "none"
  /\ up' = FALSE
  /\ crashes' = crashes + 1
  /\ registry' = [s \in Session |-> None]
  /\ pc' = [c \in Conn |-> IF pc[c] = "idle" THEN "idle" ELSE "ended"]
  /\ replay' = [c \in Conn |-> {}]
  /\ tasks' = [t \in Task |-> Idle]
  /\ link' = [c \in Conn |-> IF link[c] = "none" THEN "none" ELSE "closed"]
  /\ toBrowser' = [c \in Conn |-> <<>>]
  /\ toServer' = [c \in Conn |-> <<>>]
  /\ UNCHANGED <<database, owner, browser, nacked, faults>>

Restart ==
  /\ ~up
  /\ up' = TRUE
  /\ UNCHANGED <<database, handlers, tasks, network, browser, nacked, bounds>>

-----------------------------------------------------------------------------
Send(t) ==
  \/ BeginSend(t)
  \/ TakeLock(t)
  \/ NoConnection(t)
  \/ SendReturns(t)
  \/ SendFails(t)
  \/ SendRaises(t)

Handle(c) ==
  \/ Register(c)
  \/ AcceptFails(c)
  \/ OpenFails(c)
  \/ PreviousClosed(c)
  \/ PreviousCloseRaises(c)
  \/ Disconnect(c)
  \/ DisconnectFails(c)
  \/ HandleRenderAck(c)
  \/ HandleRenderAckFails(c)

Document(s) == Connect(s) \/ ReceiveEffect(s)

Next ==
  \/ \E e \in Event : ProcessAndBroadcast(e) \/ RecoverEffect(e)
  \/ \E c \in Conn : Handle(c) \/ Break(c)
  \/ \E t \in Task : Send(t)
  \/ \E s \in Session : Document(s)
  \/ Crash
  \/ Restart

Spec == Init /\ [][Next]_vars

\* asyncio resumes every ready task, a document reconnects by its timer and reads
\* its socket, and the operator (or Compose) restarts the API.
Fairness ==
  /\ WF_vars(Restart)
  /\ \A c \in Conn : WF_vars(Handle(c))
  /\ \A t \in Task : WF_vars(Send(t))
  /\ \A s \in Session : WF_vars(Connect(s)) /\ WF_vars(ReceiveEffect(s))

FairSpec == Spec /\ Fairness

-----------------------------------------------------------------------------
(* Properties *)

\* The shape of the state; a send knows its connection once it has looked it up.
TypeOK ==
  /\ processed \subseteq Event
  /\ dispatches \in [Event -> [Session -> SUBSET {"sent", "failed"}]]
  /\ acks \subseteq Event \X Session
  /\ milestones \in [Event -> SUBSET {"dispatched", "rendered"}]
  /\ sessions \in [Session -> [known : BOOLEAN, connected : BOOLEAN, reconnects : Nat]]
  /\ evidence \in [Session -> [connected : Nat, disconnected : Nat]]
  /\ up \in BOOLEAN
  /\ registry \in [Session -> Conn \cup {None}]
  /\ pc \in [Conn -> {"idle", "accepting", "replacing", "greeting", "replaying",
                     "serving", "replying", "ended"}]
  /\ owner \in [Conn -> Session \cup {None}]
  /\ replay \in [Conn -> SUBSET Event]
  /\ tasks \in [Task -> [stage : {"off", "start"}, item : Items, to : {None}]
                      \cup [stage : {"waiting", "sending"}, item : Items, to : Conn]]
  /\ link \in [Conn -> {"none", "open", "closed"}]
  /\ toBrowser \in [Conn -> Seq(Event)]
  /\ toServer \in [Conn -> Seq(Event)]
  /\ client \in [Session -> Conn \cup {None}]
  /\ cards \in [Session -> [Event -> Nat]]
  /\ nacked \subseteq Event \X Session
  /\ crashes \in 0 .. MaxCrashes
  /\ faults \in 0 .. MaxFaults

\* RELIABILITY_MODEL invariants 6 to 8 together: a stored render acknowledgment
\* stands for a processed event, a dispatch to this session that succeeded, the
\* event's own milestones and exactly one card in the document, over replays,
\* broadcasts and reconnects.
RenderEvidence ==
  \A e \in Event, s \in Session : <<e, s>> \in acks =>
    /\ e \in processed
    /\ "sent" \in dispatches[e][s]
    /\ milestones[e] = {"dispatched", "rendered"}
    /\ cards[s][e] = 1

\* Invariant 12: the acknowledgment of a browser that answers before the send has
\* returned waits for the dispatch, so none is refused on a connection that works
\* unless a transaction failed.
NoGenuineAckRefused ==
  faults = 0 => nacked = {}

\* A handler past its registration whose transport works is the registered one:
\* neither the end of a replaced handler nor a send that fails late on a replaced
\* connection takes the entry of its successor.
LiveConnectionIsRegistered ==
  \A c \in Conn :
    pc[c] \in {"replacing", "greeting", "replaying", "serving", "replying"} /\ link[c] = "open"
      => registry[owner[c]] = c

\* A session with a registered connection is recorded as connected, also when an
\* older handler of the same session ends after the newer one began.
RegisteredSessionIsOpen ==
  \A s \in Session : registry[s] # None => sessions[s].known /\ sessions[s].connected

\* The replay query comes after the registration, so an effect cannot fall between
\* replay and broadcast: once a handler serves a working connection, each processed
\* event is a card, a frame under way to it, or a broadcast still to be sent to it.
NoEffectLost ==
  \A c \in Conn : pc[c] \in {"serving", "replying"} /\ link[c] = "open" =>
    \A e \in processed :
      LET t == CastTask(e, owner[c]) IN
      \/ e \in Rendered(owner[c])
      \/ e \in Range(toBrowser[c])
      \/ tasks[t].stage = "start"
      \/ tasks[t].stage = "waiting" /\ tasks[t].to = c

\* Every processed event is in the end rendered and acknowledged by the document,
\* however connections break and the API restarts in between.
ProcessedIsAcknowledged ==
  \A e \in Event, s \in Session : e \in processed ~> <<e, s>> \in acks

=============================================================================
