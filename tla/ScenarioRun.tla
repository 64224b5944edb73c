----------------------------- MODULE ScenarioRun -----------------------------
(***************************************************************************)
(* One run from creation to verdict: ScenarioRunner of simulator.py in     *)
(* composition with the server of Ingestion and the evidence of Verdict.   *)
(*                                                                         *)
(* The runner is one coroutine that suspends at each request, send, read   *)
(* and timer; at names where.  A socket carries at most one message and    *)
(* one reply at a time, and its n-th connection is n.  A reply can be read *)
(* as soon as the server has begun to send it.                             *)
(***************************************************************************)
EXTENDS Verdict

CONSTANTS TheRun,       \* the run this runner creates
          MaxTries,     \* exchanges of one delivery: 5 in _deliver_with_retry
          Mutations,    \* kinds of invalid payload: 6, the last of them cut-off JSON
          AwaitOverlay, \* --overlay-wait was given
          MaxLosses,    \* bound: exchanges that time out or break
          MaxExpiries   \* bound: other timers that run out

ASSUME RunnerAssumption ==
  /\ TheRun \in Run
  /\ Conn \subseteq Nat \ {0}
  /\ MaxTries \in Nat \ {0} /\ Mutations \in Nat \ {0}
  /\ AwaitOverlay \in BOOLEAN
  /\ MaxLosses \in Nat /\ MaxExpiries \in Nat
  /\ \A p \in Plan : /\ Range(p.order) = Manifest[TheRun]
                    /\ p.invalid \cup p.duplicate \cup p.delayed \subseteq Manifest[TheRun]
                    /\ p.disconnect \in Manifest[TheRun] \cup {None}

\* Message holds what the runner can send.
ASSUME PayloadAssumption ==
  /\ [shape |-> "malformed", event |-> NoEvent, run |-> NoRun, content |-> "altered"] \in Message
  /\ \A e \in Manifest[TheRun] :
       /\ [shape |-> "invalid", event |-> e, run |-> TheRun, content |-> "altered"] \in Message
       /\ [shape |-> "valid", event |-> e, run |-> TheRun, content |-> "manifest"] \in Message

VARIABLES
  at,         \* where the runner is suspended
  position,   \* len(delivered_sequences)
  leg,        \* which delivery of the current event is under way
  try,        \* exchanges of it that failed
  socket,     \* the runner's connection
  peer,       \* the client's end of each connection
  wire,       \* the message on its way over each connection
  read,       \* attempts whose replies the runner has read
  acked, refusals, confirmed, \* acked_event_ids, rejected and conflict replies, confirmed_duplicate_sequences
  retryCount, forcedReconnects,
  losses, expiries \* counters for the bounds

counted    == <<acked, refusals, confirmed, retryCount, forcedReconnects>>
runnerVars == <<at, position, leg, try, socket, peer, wire, read, counted, losses, expiries>>
allVars    == <<vars, verdictVars, runnerVars>>

Stops     == {"creating", "awaiting_overlay", "dialing", "handshaking", "reconnected",
              "next", "delaying", "sending", "awaiting", "polling", "forcing",
              "recovering", "completing", "done", "failed"}
Legs      == {"planned", "retried", "duplicate"}
NoMessage == [shape |-> "none"]

plan    == config[TheRun]
Current == plan.order[position]

RunInit ==
  /\ Init
  /\ VerdictInit
  /\ at = "creating"
  /\ position = 0
  /\ leg = "planned"
  /\ try = 0
  /\ socket = 0
  /\ peer = [c \in Conn |-> "none"]
  /\ wire = [c \in Conn |-> NoMessage]
  /\ read = {}
  /\ acked = {}
  /\ refusals = [rejected |-> 0, conflict |-> 0]
  /\ confirmed = {}
  /\ retryCount = 0
  /\ forcedReconnects = 0
  /\ losses = 0
  /\ expiries = 0

Lost    == losses < MaxLosses /\ losses' = losses + 1
Expired == expiries < MaxExpiries /\ expiries' = expiries + 1

\* The runner's own steps leave the server alone.
ServerRests == UNCHANGED <<vars, verdictVars>>
Proceed(stop) == at' = stop

\* socket.close(): what was sent may still be read by the server.
Close(c) == peer' = IF c = 0 THEN peer ELSE [peer EXCEPT ![c] = "closed"]

\* An exception leaves run() through its finally block.
Abort == Proceed("failed") /\ Close(socket)

-----------------------------------------------------------------------------
(* The server, as this client meets it *)

\* A step of Ingestion, its rows on the timeline.
Server(action) ==
  /\ action
  /\ Stamp
  /\ UNCHANGED <<config, retries, overlays, rendered>>

RunnerRests == UNCHANGED <<at, position, leg, try, socket, read, counted, losses, expiries>>
Network     == <<peer, wire>>

\* receive_text returned the message.
Receive(c) ==
  /\ \E m \in Message : wire[c] = m /\ Server(Ingest(c, m) \/ RefuseDelivery(c) \/ IngestFails(c))
  /\ wire' = [wire EXCEPT ![c] = NoMessage]
  /\ RunnerRests /\ UNCHANGED peer

\* The handshake can break before accept() has returned.
ServeHandshake(c) ==
  /\ Server(AcceptSocket(c) \/ (peer[c] # "open" /\ AbortHandshake(c)))
  /\ RunnerRests /\ UNCHANGED Network

\* Mutant: the handler ends without its finally block.
EndSocketSilently(c) ==
  /\ pc[c] = "closing" \/ peer[c] \in {"closed", "broken"}
  /\ Server(/\ LoopFree
            /\ pc[c] \in {"receiving", "closing"}
            /\ pc' = [pc EXCEPT ![c] = "closed"]
            /\ UNCHANGED <<database, server, backlog, bound, reply, sent, bounds>>)
  /\ wire' = [wire EXCEPT ![c] = NoMessage]
  /\ RunnerRests /\ UNCHANGED peer

\* A handler learns that its peer is gone between two messages, or has closed the
\* socket itself; a message it did not read is lost.
EndSocket(c) ==
  /\ pc[c] = "closing" \/ peer[c] \in {"closed", "broken"}
  /\ Server(CloseSocket(c))
  /\ wire' = [wire EXCEPT ![c] = NoMessage]
  /\ RunnerRests /\ UNCHANGED peer

Answer(c) ==
  /\ Server(SendReply(c) \/ (peer[c] # "open" /\ ReplyFails(c)))
  /\ RunnerRests /\ UNCHANGED Network

\* What follows the reply, up to the handler's next await.
Settle(c) ==
  /\ Server(MarkReplySent(c) \/ MarkFails(c) \/ ProcessEvent(c) \/ ProcessFails(c)
              \/ BroadcastEnds(c))
  /\ RunnerRests /\ UNCHANGED Network

CrashServer ==
  /\ Server(Crash)
  /\ peer' = [c \in Conn |-> IF peer[c] = "open" THEN "broken" ELSE peer[c]]
  /\ wire' = [c \in Conn |-> NoMessage]
  /\ RunnerRests

RestartServer ==
  /\ Server(Start \/ (\E e \in Event : Recovery(e)) \/ Serve)
  /\ RunnerRests /\ UNCHANGED Network

\* The overlay side, and a connection that breaks: the message on it may be lost.
Environment ==
  \/ /\ OpenOverlay(TheRun) \/ \E e \in Event \ rendered : RenderEvent(e)
     /\ UNCHANGED runnerVars
  \/ \E c \in Conn :
       /\ peer[c] = "open"
       /\ Lost
       /\ peer' = [peer EXCEPT ![c] = "broken"]
       /\ wire' \in {wire, [wire EXCEPT ![c] = NoMessage]}
       /\ ServerRests
       /\ UNCHANGED <<at, position, leg, try, socket, read, counted, expiries>>

ServerStep ==
  \/ \E c \in Conn : \/ Receive(c) \/ ServeHandshake(c) \/ EndSocket(c)
                     \/ Answer(c) \/ Settle(c)
  \/ CrashServer
  \/ RestartServer

-----------------------------------------------------------------------------
(* Requests *)

\* POST /api/runs: any failure ends the runner before it has a socket.
CreateScenarioRun ==
  /\ at = "creating"
  /\ Server(CreateRun(TheRun))
  /\ Proceed("awaiting_overlay")
  /\ UNCHANGED <<position, leg, try, socket, Network, read, counted, losses, expiries>>

\* _wait_for_overlay polls the overview.
OverlaySeen ==
  /\ at = "awaiting_overlay"
  /\ AwaitOverlay => TheRun \in overlays
  /\ Proceed("dialing")
  /\ ServerRests
  /\ UNCHANGED <<position, leg, try, socket, Network, read, counted, losses, expiries>>

Mark(kind, e, stop) ==
  /\ RecordMarker(kind, TheRun, socket, e)
  /\ Proceed(stop)
  /\ UNCHANGED <<position, leg, try, socket, Network, read, counted, losses, expiries>>

RecordReconnected == at = "reconnected" /\ Mark("reconnected", 0, "sending")

\* The marker is followed by the hold.
RecordDelay == at = "delaying" /\ Mark("delay_injected", Current, "sending")

\* _wait_for_sent_acceptance polls the event's attempts.
AcceptanceSeen ==
  /\ at = "polling"
  /\ LoopFree
  /\ \E i \in Positions :
       /\ attempts[i].event = Current
       /\ attempts[i].outcome = "accepted"
       /\ attempts[i].conn = socket
       /\ attempts[i].replied
  /\ Proceed("forcing")
  /\ ServerRests
  /\ UNCHANGED <<position, leg, try, socket, Network, read, counted, losses, expiries>>

\* The marker, the close and the counters; then the runner dials again.
ForceDisconnect ==
  /\ at = "forcing"
  /\ RecordMarker("forced_disconnect", TheRun, socket, Current)
  /\ Close(socket)
  /\ retryCount' = retryCount + 1
  /\ forcedReconnects' = forcedReconnects + 1
  /\ leg' = "retried"
  /\ Proceed("dialing")
  /\ UNCHANGED <<position, try, socket, wire, read, acked, refusals, confirmed, losses, expiries>>

\* POST complete.  The response may be lost after the run has been completed.
CompleteScenarioRun ==
  /\ at = "completing"
  /\ CompleteRun(TheRun, Cardinality(acked))
  /\ retries' = [retries EXCEPT ![TheRun] = retryCount]
  /\ \/ Proceed("done") /\ UNCHANGED expiries
     \/ Proceed("failed") /\ Expired
  /\ UNCHANGED <<config, timeline, overlays, rendered>>
  /\ UNCHANGED <<position, leg, try, socket, Network, read, counted, losses>>

\* Mutant: the poll for the acceptance has no deadline.
PollingForever ==
  /\ at \in {"creating", "awaiting_overlay", "dialing", "handshaking", "reconnected",
             "delaying", "polling", "forcing", "recovering", "completing"}
  /\ \/ at # "polling" /\ Expired
     \/ server # "up" /\ UNCHANGED expiries
  /\ Abort
  /\ ServerRests
  /\ UNCHANGED <<position, leg, try, socket, wire, read, counted, losses>>

\* A request meets no server, a poll or a handshake its deadline.  Whether the server
\* stored what a failed request asked for changes nothing: the runner is over.
RequestFails ==
  /\ at \in {"creating", "awaiting_overlay", "dialing", "handshaking", "reconnected",
             "delaying", "polling", "forcing", "recovering", "completing"}
  /\ \/ Expired
     \/ server # "up" /\ UNCHANGED expiries
  /\ Abort
  /\ ServerRests
  /\ UNCHANGED <<position, leg, try, socket, wire, read, counted, losses>>

-----------------------------------------------------------------------------
(* The socket *)

\* The server reads the run's status when the handshake arrives.
Dial ==
  LET c == socket + 1 IN
  /\ at = "dialing"
  /\ c \in Conn
  /\ Server(OpenSocket(c, TheRun))
  /\ socket' = c
  /\ Proceed("handshaking")
  /\ UNCHANGED <<position, leg, try, Network, read, counted, losses, expiries>>

\* Mutant: a reconnect leaves no marker either.
ConnectedUnmarked ==
  /\ at = "handshaking"
  /\ pc[socket] \in {"accepting", "receiving"}
  /\ peer' = [peer EXCEPT ![socket] = "open"]
  /\ Proceed(IF position = 0 THEN "next" ELSE "sending")
  /\ ServerRests
  /\ UNCHANGED <<position, leg, try, socket, wire, read, counted, losses, expiries>>

\* connect() returns when the upgrade arrives, maybe before the server's accept()
\* has.  The first connection leaves no marker.
Connected ==
  /\ at = "handshaking"
  /\ pc[socket] \in {"accepting", "receiving"}
  /\ peer' = [peer EXCEPT ![socket] = "open"]
  /\ Proceed(IF position = 0 THEN "next" ELSE "reconnected")
  /\ ServerRests
  /\ UNCHANGED <<position, leg, try, socket, wire, read, counted, losses, expiries>>

\* A refused or broken handshake is not retried.
ConnectRefused ==
  /\ at = "handshaking"
  /\ pc[socket] = "closed"
  /\ Abort
  /\ ServerRests
  /\ UNCHANGED <<position, leg, try, socket, wire, read, counted, losses, expiries>>

-----------------------------------------------------------------------------
(* The deliveries *)

NextSequence ==
  /\ at = "next"
  /\ position < Len(plan.order)
  /\ position' = position + 1
  /\ leg' = "planned"
  /\ try' = 0
  /\ Proceed(IF plan.order[position + 1] \in plan.delayed THEN "delaying" ELSE "sending")
  /\ ServerRests
  /\ UNCHANGED <<socket, Network, read, counted, losses, expiries>>

\* The finally block closes the socket before the completion request.
EndDeliveries ==
  /\ at = "next"
  /\ position = Len(plan.order)
  /\ Close(socket)
  /\ Proceed("completing")
  /\ ServerRests
  /\ UNCHANGED <<position, leg, try, socket, wire, read, counted, losses, expiries>>

Ordinal(e) == Cardinality({d \in plan.invalid : d < e})

\* invalid_delivery, or the event's canonical form; a duplicate is always canonical.
Payload ==
  IF leg # "duplicate" /\ Current \in plan.invalid
  THEN IF Ordinal(Current) % Mutations = Mutations - 1
       THEN [shape |-> "malformed", event |-> NoEvent, run |-> NoRun, content |-> "altered"]
       ELSE [shape |-> "invalid", event |-> Current, run |-> TheRun, content |-> "altered"]
  ELSE [shape |-> "valid", event |-> Current, run |-> TheRun, content |-> "manifest"]

\* A send on a socket that is broken goes nowhere.
Transmit ==
  wire' = IF peer[socket] = "open" THEN [wire EXCEPT ![socket] = Payload] ELSE wire

\* The target of the forced reconnect is sent and its reply not read.
SendUnread ==
  /\ at = "sending"
  /\ leg = "planned"
  /\ Current = plan.disconnect
  /\ Transmit
  /\ Proceed("polling")
  /\ ServerRests
  /\ UNCHANGED <<position, leg, try, socket, peer, read, counted, losses, expiries>>

\* A socket known to be broken raises ConnectionClosed, which nobody retries here.
SendRaises ==
  /\ at = "sending"
  /\ leg = "planned"
  /\ Current = plan.disconnect
  /\ peer[socket] = "broken"
  /\ Abort
  /\ ServerRests
  /\ UNCHANGED <<position, leg, try, socket, wire, read, counted, losses, expiries>>

\* _exchange: send, then wait for the next message of the socket.
SendAndAwait ==
  /\ at = "sending"
  /\ leg = "planned" => Current # plan.disconnect
  /\ Transmit
  /\ Proceed("awaiting")
  /\ ServerRests
  /\ UNCHANGED <<position, leg, try, socket, peer, read, counted, losses, expiries>>

\* Replies over a connection that its client has not read.
Unread(c) ==
  {rep \in sent \cup {reply[d] : d \in {d \in Conn : pc[d] = "replying"}} :
     /\ rep.attempt \in Positions \ read
     /\ attempts[rep.attempt].conn = c}

\* Mutant: a negative reply acknowledges too.
ObserveEveryReply(rep) ==
  /\ acked' = IF rep.event # NoEvent THEN acked \cup {rep.event} ELSE acked
  /\ refusals' = IF rep.status \in DOMAIN refusals
                 THEN [refusals EXCEPT ![rep.status] = @ + 1] ELSE refusals

\* Mutant: a refusal that names no event is not counted.
ObserveNamedReplies(rep) ==
  /\ acked' = IF MayProcess(rep.status) THEN acked \cup {rep.event} ELSE acked
  /\ refusals' = IF rep.status \in DOMAIN refusals /\ rep.event # NoEvent
                 THEN [refusals EXCEPT ![rep.status] = @ + 1] ELSE refusals

\* _observe_reply
Observe(rep) ==
  /\ acked' = IF MayProcess(rep.status) THEN acked \cup {rep.event} ELSE acked
  /\ refusals' = IF rep.status \in DOMAIN refusals
                 THEN [refusals EXCEPT ![rep.status] = @ + 1] ELSE refusals

\* The event's planned duplicate, if there is one, or the next event.
FollowUp ==
  IF leg # "duplicate" /\ Current \in plan.duplicate
  THEN Proceed("sending") /\ leg' = "duplicate" /\ try' = 0
  ELSE Proceed("next") /\ UNCHANGED <<leg, try>>

\* A planned duplicate counts if it was answered as one.
Continue(rep) ==
  /\ confirmed' = IF leg = "duplicate" /\ rep.status = "duplicate"
                  THEN confirmed \cup {Current} ELSE confirmed
  /\ IF leg = "retried" THEN Proceed("recovering") /\ UNCHANGED <<leg, try>> ELSE FollowUp

\* The first reply to arrive is taken for the message just sent.
ReadReply ==
  /\ at = "awaiting"
  /\ peer[socket] # "closed"
  /\ \E rep \in Unread(socket) :
       /\ \A other \in Unread(socket) : rep.attempt <= other.attempt
       /\ read' = read \cup {rep.attempt}
       /\ Observe(rep)
       /\ Continue(rep)
  /\ ServerRests
  /\ UNCHANGED <<position, socket, Network, retryCount, forcedReconnects, losses, expiries>>

RecordRecovery ==
  /\ at = "recovering"
  /\ RecordMarker("recovery_complete", TheRun, socket, Current)
  /\ FollowUp
  /\ UNCHANGED <<position, socket, Network, read, counted, losses, expiries>>

\* Mutant: the runner resends over the socket it has.
ResendOnSameSocket ==
  /\ at = "awaiting"
  /\ Lost
  /\ retryCount' = retryCount + 1
  /\ try' = try + 1
  /\ Proceed("sending")
  /\ ServerRests
  /\ UNCHANGED <<position, leg, socket, Network, read, acked, refusals, confirmed,
                 forcedReconnects, expiries>>

\* Mutant: one exchange too many.
RetryOnceMore ==
  /\ at = "awaiting"
  /\ Lost
  /\ retryCount' = retryCount + 1
  /\ Close(socket)
  /\ try' = try + 1
  /\ Proceed(IF try = MaxTries THEN "failed" ELSE "dialing")
  /\ ServerRests
  /\ UNCHANGED <<position, leg, socket, wire, read, acked, refusals, confirmed,
                 forcedReconnects, expiries>>

\* Mutant: the new connection goes on with the next event.
SkipFailedDelivery ==
  /\ at = "awaiting"
  /\ Lost
  /\ retryCount' = retryCount + 1
  /\ Close(socket)
  /\ position' = Min({position + 1, Len(plan.order)})
  /\ leg' = "planned"
  /\ try' = 0
  /\ Proceed("dialing")
  /\ ServerRests
  /\ UNCHANGED <<socket, wire, read, acked, refusals, confirmed, forcedReconnects, expiries>>

\* recv times out, or the socket is found broken: close, then retry over a new one.
ExchangeFails ==
  /\ at = "awaiting"
  /\ \/ Lost
     \/ /\ peer[socket] = "broken" \/ pc[socket] \in {"closing", "closed"}
        /\ UNCHANGED losses
  /\ retryCount' = retryCount + 1
  /\ Close(socket)
  /\ try' = try + 1
  /\ Proceed(IF try + 1 = MaxTries THEN "failed" ELSE "dialing")
  /\ ServerRests
  /\ UNCHANGED <<position, leg, socket, wire, read, acked, refusals, confirmed,
                 forcedReconnects, expiries>>

RunnerStep ==
  \/ CreateScenarioRun \/ OverlaySeen \/ CompleteScenarioRun \/ RequestFails
  \/ Dial \/ Connected \/ ConnectRefused \/ RecordReconnected
  \/ NextSequence \/ EndDeliveries \/ RecordDelay
  \/ SendAndAwait \/ ReadReply \/ ExchangeFails
  \/ SendUnread \/ SendRaises \/ AcceptanceSeen \/ ForceDisconnect \/ RecordRecovery

RunNext == RunnerStep \/ ServerStep \/ Environment

RunSpec == RunInit /\ [][RunNext]_allVars

\* The runner's coroutine and the server's handlers are run on, and a document draws
\* and acknowledges what is processed (OverlayHub!ProcessedIsAcknowledged).
RunFairness ==
  /\ WF_allVars(RunnerStep)
  /\ \A c \in Conn : /\ WF_allVars(Receive(c))
                     /\ WF_allVars(ServeHandshake(c))
                     /\ WF_allVars(EndSocket(c))
                     /\ WF_allVars(Answer(c))
                     /\ WF_allVars(Settle(c))
  /\ WF_allVars(RestartServer)
  /\ \A e \in Event : WF_allVars(e \notin rendered /\ RenderEvent(e) /\ UNCHANGED runnerVars)

FairRunSpec == RunSpec /\ RunFairness

-----------------------------------------------------------------------------
(* Properties *)

\* scenario_client_reconciles: the exit status of the simulator.
Reconciled ==
  /\ acked = Manifest[TheRun] \ plan.invalid
  /\ refusals.rejected = Cardinality(plan.invalid)
  /\ refusals.conflict = 0
  /\ position = Len(plan.order)
  /\ plan.duplicate \subseteq confirmed
  /\ plan.disconnect # None => retryCount >= 1 /\ forcedReconnects >= 1

TheVerdict == OverviewVerdict(TheRun)

\* The shape of the evidence and of the runner's state; no delivery is tried more
\* often than the retry loop says.
RunTypeOK ==
  /\ config \in [Run -> Plan]
  /\ retries \in [Run -> Nat]
  /\ timeline \in Seq(Entries)
  /\ overlays \subseteq Run /\ rendered \subseteq Event
  /\ at \in Stops /\ leg \in Legs
  /\ position \in 0 .. Len(plan.order)
  /\ try \in 0 .. MaxTries /\ (at # "failed" => try < MaxTries)
  /\ socket \in Conn \cup {0}
  /\ peer \in [Conn -> {"none", "open", "broken", "closed"}]
  /\ wire \in [Conn -> Message \cup {NoMessage}]
  /\ read \subseteq Positions
  /\ acked \subseteq Event /\ confirmed \subseteq Event
  /\ refusals \in [{"rejected", "conflict"} -> Nat]
  /\ retryCount \in Nat /\ forcedReconnects \in {0, 1}
  /\ losses \in 0 .. MaxLosses /\ expiries \in 0 .. MaxExpiries

\* The composition takes no liberty with its parts: whatever the runner, its sockets
\* and the evidence do, the server's variables take steps of Ingestion only.
ServerRefines == Spec

\* The runner never matches a reply with what it sent: it takes the next message of the
\* socket.  That is sound because a late reply stays behind on a socket that was
\* closed: what can be read is always about the payload under way.
ReplyAnswersRequest ==
  at = "awaiting" /\ peer[socket] # "closed" =>
    \A rep \in Unread(socket) :
      /\ rep.event = ClaimedEvent(Payload)
      /\ Payload.shape = "valid" <=> MayProcess(rep.status)

\* End to end: an event that the client counts as acknowledged is a canonical row with
\* the manifest's content, whatever was lost, retried, rolled back or crashed.
AckedIsStored ==
  \A e \in acked : /\ Persisted(e)
                   /\ events[e].run = TheRun
                   /\ events[e].content = "manifest"

\* Retries and handlers of abandoned sockets never reorder a run: at every moment the
\* canonical rows in order of arrival are the first ones of the planned order.
ArrivalFollowsPlan == IsPrefix(Arrivals(TheRun), PlannedArrivals(plan))

\* The server's PASS implies the client's own reconciliation, of which it sees two
\* counters only, also when the response to the completion was lost.
PassIsEarned == TheVerdict = "pass" => Reconciled

\* The server stored the end of the forced socket after the start of the new one or
\* not at all, the start of the new one after the client's own marker of it, or the
\* old connection broke before the runner could say that it was closing it.
UnorderedHandover ==
  \E w \in Reconnects(TheRun, plan.disconnect) :
    \A closed \in TimesAt("disconnected", TheRun, timeline[w.forced].conn),
       again \in TimesAt("connected", TheRun, timeline[w.back].conn) :
      closed > again \/ again > w.back \/ (closed < w.forced /\ losses > 0)

\* The retry's reply was read and the recovery recorded before the reply was marked.
LateMark ==
  \E w \in Reconnects(TheRun, plan.disconnect) :
    AttemptsWithin(TheRun, plan.disconnect, timeline[w.back].conn, "duplicate",
                   w.back, w.recovery) = {}

\* Why a run whose client reconciles can fail, with nothing crashed or rolled back:
\* a retry stored an invalid payload twice or moved a held event to another socket, a
\* handler was slow to see its socket end or to return from accept(), the connection
\* broke just before it was to be closed, a reply was read before it was marked, or
\* processing and rendering are not there yet.  Nothing else
\* fails it: not the order, the counts, the duplicates or the markers.
FailuresAreExplained ==
  at = "done" /\ Reconciled /\ crashes = 0 /\ faults = 0 =>
    LET failures == Failures(TheRun) IN
    /\ failures \subseteq {"acknowledged", "processed", "rendered", "rejections",
                           "delays", "reconnect"}
    /\ failures \cap {"rejections", "delays"} # {} => retryCount > forcedReconnects
    /\ "reconnect" \in failures => UnorderedHandover \/ LateMark

\* A PASS stays a PASS after completion (DECISIONS.md, "Run completion closes source
\* ingestion"), unless a processing attempt fails later.
PassIsFinal ==
  [][TheVerdict = "pass" =>
       \/ TheVerdict' = "pass"
       \/ \E e \in Event : effects'[e].failure > effects[e].failure]_allVars

\* The runner ends: its retries are bounded and its other waits have deadlines.
RunnerEnds == <>(at \in {"done", "failed"})

\* A reconciled run of which only processing or rendering is outstanding is judged
\* PASS in the end, also when the API crashes before it is.
JudgedInTheEnd ==
  (/\ at = "done" /\ Reconciled /\ TheRun \in overlays
   /\ Failures(TheRun) \subseteq {"processed", "rendered"})
  ~> (TheVerdict = "pass" \/ faults > 0)

=============================================================================
