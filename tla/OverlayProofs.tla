---------------------------- MODULE OverlayProofs ----------------------------
(***************************************************************************)
(* The registry, the sessions and the sends of OverlayHub, for any events, *)
(* documents, connections, crashes and failing transactions.               *)
(***************************************************************************)
EXTENDS OverlayHub, TLAPS, FiniteSetTheorems, SequenceTheorems, WellFoundedInduction

SendStates == {"greeting", "replaying", "replying"}
LiveStates == SendStates \cup {"replacing", "serving"}

-----------------------------------------------------------------------------
(* The inductive invariant *)

\* Connections are numbered as they are opened; an unused one carries nothing.
Sockets ==
  /\ \E k \in 0 .. MaxConns : {d \in Conn : pc[d] # "idle"} = 1 .. k
  /\ \A c \in Conn :
       /\ pc[c] = "idle" => link[c] = "none" /\ toBrowser[c] = <<>> /\ toServer[c] = <<>>
       /\ pc[c] # "idle" => owner[c] \in Session

\* Whoever refers to a connection for a session refers to one of that session.
Owned ==
  /\ \A s \in Session : registry[s] # None =>
       pc[registry[s]] \notin {"idle", "accepting"} /\ owner[registry[s]] = s
  /\ \A s \in Session : client[s] # None => pc[client[s]] # "idle" /\ owner[client[s]] = s
  /\ \A t \in Task : tasks[t].stage \in {"waiting", "sending"} =>
       pc[tasks[t].to] # "idle" /\ owner[tasks[t].to] = SessionOf(t)

\* A handler sends in three of its states, over its own connection while that works,
\* and only processed effects are sent.
Tasked ==
  /\ \A c \in Conn : tasks[HandlerTask(c)].stage # "off" => pc[c] \in SendStates
  /\ \A c \in Conn : replay[c] \subseteq processed
  /\ \A t \in Task :
       tasks[t].stage # "off" /\ tasks[t].item \in Event => tasks[t].item \in processed
  /\ \A e \in Event, s \in Session :
       tasks[CastTask(e, s)].stage # "off" => tasks[CastTask(e, s)].item = e
  /\ \A c \in Conn :
       tasks[HandlerTask(c)].stage \in {"waiting", "sending"} /\ link[c] = "open"
         => tasks[HandlerTask(c)].to = c

\* The registry and the sends agree with the handlers.
HubInv ==
  /\ TypeOK /\ Sockets /\ Owned /\ Tasked
  /\ LiveConnectionIsRegistered /\ RegisteredSessionIsOpen

-----------------------------------------------------------------------------
(* Tasks, ranges and the order of the replay *)

LEMMA TaskKinds ==
  /\ \A c \in Conn : /\ HandlerTask(c) \in Task /\ HandlerTask(c) \in HandlerTasks
                     /\ HandlerTask(c)[1] = "handler" /\ HandlerTask(c)[2] = c
  /\ \A e \in Event, s \in Session :
       /\ CastTask(e, s) \in Task /\ CastTask(e, s) \notin HandlerTasks
       /\ CastTask(e, s)[1] = "cast" /\ CastTask(e, s)[2] = e /\ CastTask(e, s)[3] = s
  /\ \A t \in Task :
       \/ \E c \in Conn : t = HandlerTask(c)
       \/ \E e \in Event, s \in Session : t = CastTask(e, s)
BY DEF Task, HandlerTasks, CastTasks, HandlerTask, CastTask

LEMMA SessionOfTask ==
  /\ \A c \in Conn : SessionOf(HandlerTask(c)) = owner[c]
  /\ \A e \in Event, s \in Session : SessionOf(CastTask(e, s)) = s
BY TaskKinds DEF SessionOf

LEMMA NextSessionOfTask ==
  /\ \A c \in Conn : SessionOf(HandlerTask(c))' = owner'[c]
  /\ \A e \in Event, s \in Session : SessionOf(CastTask(e, s))' = s
BY TaskKinds DEF SessionOf

LEMMA RangeFacts ==
  ASSUME NEW S, NEW q \in Seq(S)
  PROVE  /\ Range(q) \subseteq S
         /\ \A e \in S : Append(q, e) \in Seq(S) /\ Range(Append(q, e)) = Range(q) \cup {e}
         /\ q # <<>> => /\ Head(q) \in Range(q) /\ Tail(q) \in Seq(S)
                        /\ Range(q) = {Head(q)} \cup Range(Tail(q))
<1>1. Range(q) \subseteq S
  BY DEF Range
<1>2. ASSUME NEW e \in S
      PROVE  Append(q, e) \in Seq(S) /\ Range(Append(q, e)) = Range(q) \cup {e}
  <2>1. /\ Append(q, e) \in Seq(S) /\ DOMAIN Append(q, e) = 1 .. Len(q) + 1
        /\ DOMAIN q = 1 .. Len(q) /\ Len(q) \in Nat
        /\ \A i \in 1 .. Len(q) : Append(q, e)[i] = q[i]
        /\ Append(q, e)[Len(q) + 1] = e
    OBVIOUS
  <2>2. Range(Append(q, e)) = {Append(q, e)[i] : i \in 1 .. Len(q) + 1}
    BY <2>1 DEF Range
  <2> QED
    BY <2>1, <2>2 DEF Range
<1>3. ASSUME q # <<>>
      PROVE  /\ Head(q) \in Range(q) /\ Tail(q) \in Seq(S)
             /\ Range(q) = {Head(q)} \cup Range(Tail(q))
  <2>1. /\ Tail(q) \in Seq(S) /\ DOMAIN q = 1 .. Len(q) /\ Len(q) \in Nat \ {0}
        /\ DOMAIN Tail(q) = 1 .. Len(q) - 1 /\ Head(q) = q[1]
        /\ \A i \in 1 .. Len(q) - 1 : Tail(q)[i] = q[i + 1]
    BY <1>3
  <2>2. \A i \in 1 .. Len(q) : i = 1 \/ (i - 1 \in 1 .. Len(q) - 1 /\ q[i] = Tail(q)[i - 1])
    BY <2>1
  <2>3. Head(q) \in Range(q) /\ Range(Tail(q)) \subseteq Range(q)
    <3>1. \A i \in 1 .. Len(q) - 1 : i + 1 \in 1 .. Len(q)
      BY <2>1
    <3> QED
      BY <2>1, <3>1 DEF Range
  <2>4. Range(q) \subseteq {Head(q)} \cup Range(Tail(q))
    <3>1. ASSUME NEW i \in 1 .. Len(q) PROVE q[i] \in {Head(q)} \cup Range(Tail(q))
      <4>1. i = 1 \/ (i - 1 \in DOMAIN Tail(q) /\ q[i] = Tail(q)[i - 1])
        BY <2>1, <2>2
      <4> QED
        BY <2>1, <4>1 DEF Range
    <3> QED
      BY <2>1, <3>1 DEF Range
  <2> QED
    BY <2>1, <2>3, <2>4
<1> QED
  BY <1>1, <1>2, <1>3

LEMMA RangeEmpty == Range(<<>>) = {}
BY DEF Range

LEMMA FirstIsOne ==
  ASSUME NEW S \in SUBSET Event, S # {}
  PROVE  First(S) \in S
<1>1. S \subseteq Nat
  BY EventAssumption
<1>2. PICK e \in S : \A d \in S : <<d, e>> \notin OpToRel(<, Nat)
  BY <1>1, NatLessThanWellFounded, WFMin
<1>3. ASSUME NEW d \in S PROVE e <= d
  <2>1. d \in Nat /\ e \in Nat
    BY <1>1
  <2>2. <<d, e>> \notin OpToRel(<, Nat)
    BY <1>2
  <2>3. <<d, e>> \in Nat \X Nat /\ <<d, e>>[1] = d /\ <<d, e>>[2] = e
    BY <2>1
  <2>4. ~ (d < e)
    BY <2>2, <2>3 DEF OpToRel
  <2> QED
    BY <2>1, <2>4
<1> QED
  BY <1>3 DEF First


-----------------------------------------------------------------------------
(* What a call leaves when it returns or raises *)

TaskStates == [stage : {"off", "start"}, item : Items, to : {None}]
                \cup [stage : {"waiting", "sending"}, item : Items, to : Conn]

Rest(c) == IF pc[c] = "greeting" THEN Pending(owner[c]) ELSE replay[c]

LEMMA SenderSession ==
  ASSUME HubInv, NEW t \in Task, tasks[t].stage # "off"
  PROVE  SessionOf(t) \in Session
<1>1. ASSUME NEW c \in Conn, t = HandlerTask(c)
      PROVE  owner[c] \in Session
  BY <1>1 DEF HubInv, Tasked, Sockets, SendStates
<1> QED
  BY <1>1, TaskKinds, SessionOfTask

LEMMA NextStepFacts ==
  ASSUME HubInv, NEW c \in Conn, NextStep(c)
  PROVE  /\ \A u \in Task : u # HandlerTask(c) => tasks'[u] = tasks[u]
         /\ tasks' \in [Task -> TaskStates]
         /\ \A d \in Conn : d # c => pc'[d] = pc[d] /\ replay'[d] = replay[d]
         /\ DOMAIN pc' = Conn /\ replay' \in [Conn -> SUBSET Event]
         /\ \/ /\ pc[c] \in {"greeting", "replaying"} /\ pc'[c] = "replaying"
               /\ tasks'[HandlerTask(c)].stage = "start"
               /\ tasks'[HandlerTask(c)].item \in Rest(c)
               /\ replay'[c] = Rest(c) \ {tasks'[HandlerTask(c)].item}
            \/ /\ pc'[c] = "serving" /\ tasks'[HandlerTask(c)] = Idle
               /\ replay'[c] = replay[c]
               /\ pc[c] \in {"greeting", "replaying"} => Rest(c) = {}
<1>1. HandlerTask(c) \in Task
  BY TaskKinds
<1>2. Rest(c) \in SUBSET Event
  BY DEF Rest, Pending, HubInv, TypeOK
<1>3. tasks \in [Task -> TaskStates] /\ pc \in [Conn -> {"idle", "accepting", "replacing",
        "greeting", "replaying", "serving", "replying", "ended"}]
      /\ replay \in [Conn -> SUBSET Event]
  BY DEF HubInv, TypeOK, TaskStates
<1>4. CASE pc[c] \in {"greeting", "replaying"} /\ Rest(c) # {}
  <2>1. First(Rest(c)) \in Rest(c)
    BY <1>2, <1>4, FirstIsOne
  <2>2. /\ pc' = [pc EXCEPT ![c] = "replaying"]
        /\ replay' = [replay EXCEPT ![c] = Rest(c) \ {First(Rest(c))}]
        /\ tasks' = [tasks EXCEPT ![HandlerTask(c)] =
                       [stage |-> "start", item |-> First(Rest(c)), to |-> None]]
    BY <1>4 DEF NextStep, Rest, StartTask
  <2>3. First(Rest(c)) \in Items
    BY <2>1, <1>2 DEF Items
  <2> QED
    BY <1>1, <1>2, <1>3, <1>4, <2>1, <2>2, <2>3 DEF TaskStates
<1>5. CASE ~ (pc[c] \in {"greeting", "replaying"} /\ Rest(c) # {})
  <2>1. /\ pc' = [pc EXCEPT ![c] = "serving"]
        /\ replay' = replay
        /\ tasks' = [tasks EXCEPT ![HandlerTask(c)] = Idle]
    BY <1>5 DEF NextStep, Rest
  <2> QED
    BY <1>1, <1>3, <1>5, <2>1 DEF TaskStates, Idle, Items
<1> QED
  BY <1>4, <1>5

\* A call that returned leaves the other tasks and handlers alone.
LEMMA FinishFacts ==
  ASSUME HubInv, NEW t \in Task, tasks[t].stage # "off", Finish(t)
  PROVE  /\ \A u \in Task : u # t => tasks'[u] = tasks[u]
         /\ tasks' \in [Task -> TaskStates]
         /\ tasks'[t].stage \in {"off", "start"}
         /\ \A c \in Conn : t # HandlerTask(c) => pc'[c] = pc[c] /\ replay'[c] = replay[c]
         /\ pc' \in [Conn -> {"idle", "accepting", "replacing", "greeting", "replaying",
                              "serving", "replying", "ended"}]
         /\ replay' \in [Conn -> SUBSET Event]
         /\ \A c \in Conn : t = HandlerTask(c) =>
              \/ /\ pc[c] \in {"greeting", "replaying"} /\ pc'[c] = "replaying"
                 /\ tasks'[t].stage = "start" /\ tasks'[t].item \in Rest(c)
                 /\ replay'[c] = Rest(c) \ {tasks'[t].item}
              \/ /\ pc'[c] = "serving" /\ tasks'[t] = Idle /\ replay'[c] = replay[c]
                 /\ pc[c] \in {"greeting", "replaying"} => Rest(c) = {}
         /\ \A e \in Event, s \in Session : t = CastTask(e, s) => tasks'[t] = Idle
<1>1. ASSUME NEW c \in Conn, t = HandlerTask(c)
      PROVE  NextStep(c) /\ \A d \in Conn : t = HandlerTask(d) => d = c
  BY <1>1, TaskKinds DEF Finish
<1>2. ASSUME NEW e \in Event, NEW s \in Session, t = CastTask(e, s)
      PROVE  /\ tasks' = [tasks EXCEPT ![t] = Idle] /\ UNCHANGED <<pc, replay>>
             /\ \A d \in Conn : t # HandlerTask(d)
  BY <1>2, TaskKinds DEF Finish
<1>3. ASSUME NEW c \in Conn, t = HandlerTask(c)
      PROVE  \A e \in Event, s \in Session : t # CastTask(e, s)
  BY <1>3, TaskKinds
<1>4. tasks \in [Task -> TaskStates] /\ replay \in [Conn -> SUBSET Event]
      /\ pc \in [Conn -> {"idle", "accepting", "replacing", "greeting", "replaying",
                          "serving", "replying", "ended"}]
  BY DEF HubInv, TypeOK, TaskStates
<1>5. CASE \E c \in Conn : t = HandlerTask(c)
  <2>1. PICK c \in Conn : t = HandlerTask(c)
    BY <1>5
  <2>2. pc' \in [Conn -> {"idle", "accepting", "replacing", "greeting", "replaying",
                          "serving", "replying", "ended"}]
    <3>1. NextStep(c)
      BY <1>1, <2>1
    <3> QED
      BY <1>4, <3>1 DEF NextStep
  <2> QED
    BY <1>1, <1>3, <2>1, <2>2, NextStepFacts DEF Idle
<1>6. CASE \E e \in Event, s \in Session : t = CastTask(e, s)
  <2>1. PICK e \in Event, s \in Session : t = CastTask(e, s)
    BY <1>6
  <2>2. tasks' = [tasks EXCEPT ![t] = Idle] /\ UNCHANGED <<pc, replay>>
        /\ \A d \in Conn : t # HandlerTask(d)
    BY <1>2, <2>1
  <2> QED
    BY <1>4, <2>2 DEF TaskStates, Idle, Items
<1> QED
  BY <1>5, <1>6, TaskKinds


-----------------------------------------------------------------------------
(* Types *)

PcStates == {"idle", "accepting", "replacing", "greeting", "replaying", "serving",
             "replying", "ended"}

\* TypeOK in parts, one for each group of variables that change together.
StoreTypes ==
  /\ processed \subseteq Event
  /\ dispatches \in [Event -> [Session -> SUBSET {"sent", "failed"}]]
  /\ acks \subseteq Event \X Session
  /\ milestones \in [Event -> SUBSET {"dispatched", "rendered"}]
  /\ nacked \subseteq Event \X Session
RowTypes ==
  /\ sessions \in [Session -> [known : BOOLEAN, connected : BOOLEAN, reconnects : Nat]]
  /\ evidence \in [Session -> [connected : Nat, disconnected : Nat]]
HandlerTypes ==
  /\ registry \in [Session -> Conn \cup {None}]
  /\ pc \in [Conn -> PcStates]
  /\ owner \in [Conn -> Session \cup {None}]
  /\ replay \in [Conn -> SUBSET Event]
  /\ client \in [Session -> Conn \cup {None}]
TaskTypes == tasks \in [Task -> TaskStates]
WireTypes ==
  /\ link \in [Conn -> {"none", "open", "closed"}]
  /\ toBrowser \in [Conn -> Seq(Event)]
  /\ toServer \in [Conn -> Seq(Event)]
CardTypes == cards \in [Session -> [Event -> Nat]]
BoundTypes == up \in BOOLEAN /\ crashes \in 0 .. MaxCrashes /\ faults \in 0 .. MaxFaults

LEMMA TypeParts ==
  TypeOK <=> /\ StoreTypes /\ RowTypes /\ HandlerTypes /\ TaskTypes /\ WireTypes
             /\ CardTypes /\ BoundTypes
BY DEF TypeOK, StoreTypes, RowTypes, HandlerTypes, TaskTypes, WireTypes, CardTypes, BoundTypes,
  PcStates, TaskStates

LEMMA NextTypeParts ==
  /\ StoreTypes' /\ RowTypes' /\ HandlerTypes' /\ TaskTypes' /\ WireTypes'
  /\ CardTypes' /\ BoundTypes'
  => TypeOK'
BY DEF TypeOK, StoreTypes, RowTypes, HandlerTypes, TaskTypes, WireTypes, CardTypes, BoundTypes,
  PcStates, TaskStates

LEMMA TypeInit == Init => TypeOK
<1> SUFFICES ASSUME Init
             PROVE  /\ StoreTypes /\ RowTypes /\ HandlerTypes /\ TaskTypes /\ WireTypes
                    /\ CardTypes /\ BoundTypes
  BY TypeParts
<1>1. StoreTypes /\ RowTypes
  BY DEF Init, StoreTypes, RowTypes
<1>2. HandlerTypes
  BY DEF Init, HandlerTypes, PcStates
<1>3. TaskTypes
  BY DEF Init, TaskTypes, TaskStates, Idle, Items
<1>4. WireTypes /\ CardTypes
  BY DEF Init, WireTypes, CardTypes
<1>5. BoundTypes
  BY BoundAssumption DEF Init, BoundTypes
<1> QED
  BY <1>1, <1>2, <1>3, <1>4, <1>5

\* A call at a handler or at a broadcast is of a session that exists.
LEMMA SendIsActive ==
  ASSUME NEW t \in Task, Send(t)
  PROVE  tasks[t].stage # "off"
<1>1. ASSUME BeginSend(t) \/ NoConnection(t) PROVE tasks[t].stage = "start"
  BY <1>1 DEF BeginSend, NoConnection
<1>2. ASSUME TakeLock(t) PROVE tasks[t].stage = "waiting"
  BY <1>2 DEF TakeLock
<1>3. ASSUME SendReturns(t) \/ SendFails(t) PROVE tasks[t].stage = "sending"
  BY <1>3 DEF SendReturns, SendFails
<1>4. ASSUME SendRaises(t) PROVE tasks[t].stage \in {"start", "sending"}
  BY <1>4 DEF SendRaises
<1> QED
  BY <1>1, <1>2, <1>3, <1>4 DEF Send

\* What a stored outcome changes.
LEMMA OutcomeFacts ==
  ASSUME StoreTypes, NEW t \in Task, SessionOf(t) \in Session, NEW outcome \in {"sent", "failed"},
         IF IsEffect(t) THEN RecordDispatch(t, outcome) ELSE UNCHANGED <<dispatches, milestones>>
  PROVE  /\ dispatches' \in [Event -> [Session -> SUBSET {"sent", "failed"}]]
         /\ milestones' \in [Event -> SUBSET {"dispatched", "rendered"}]
         /\ \A e \in Event, s \in Session :
              /\ dispatches[e][s] \subseteq dispatches'[e][s]
              /\ dispatches'[e][s] \subseteq dispatches[e][s] \cup {outcome}
              /\ tasks[t].item = e /\ s = SessionOf(t) => outcome \in dispatches'[e][s]
              /\ dispatches'[e][s] # dispatches[e][s] => tasks[t].item = e /\ s = SessionOf(t)
         /\ \A e \in Event :
              /\ milestones[e] \subseteq milestones'[e]
              /\ milestones'[e] \subseteq milestones[e] \cup {"dispatched"}
              /\ tasks[t].item = e /\ outcome = "sent" => "dispatched" \in milestones'[e]
<1> DEFINE i == tasks[t].item
           s == SessionOf(t)
<1>1. /\ dispatches \in [Event -> [Session -> SUBSET {"sent", "failed"}]]
      /\ milestones \in [Event -> SUBSET {"dispatched", "rendered"}]
  BY DEF StoreTypes
<1>2. CASE IsEffect(t)
  <2>1. i \in Event
    BY <1>2 DEF IsEffect
  <2>2. /\ dispatches' = [dispatches EXCEPT ![i][s] = @ \cup {outcome}]
        /\ milestones' = IF outcome = "sent" THEN [milestones EXCEPT ![i] = @ \cup {"dispatched"}]
                         ELSE milestones
    BY <1>2 DEF RecordDispatch
  <2>3. /\ dispatches' \in [Event -> [Session -> SUBSET {"sent", "failed"}]]
        /\ \A e \in Event, d \in Session :
             dispatches'[e][d] = IF e = i /\ d = s THEN dispatches[e][d] \cup {outcome}
                                 ELSE dispatches[e][d]
    BY <1>1, <2>1, <2>2
  <2>4. /\ milestones' \in [Event -> SUBSET {"dispatched", "rendered"}]
        /\ \A e \in Event :
             milestones'[e] = IF e = i /\ outcome = "sent" THEN milestones[e] \cup {"dispatched"}
                              ELSE milestones[e]
    BY <1>1, <2>1, <2>2
  <2> QED
    BY <2>3, <2>4
<1>3. CASE ~ IsEffect(t)
  BY <1>1, <1>3 DEF IsEffect
<1> QED
  BY <1>2, <1>3

LEMMA StoreTypesNext ==
  ASSUME HubInv, [Next]_vars
  PROVE  StoreTypes'
<1>1. StoreTypes
  BY TypeParts DEF HubInv
<1>2. ASSUME NEW t \in Task, Send(t)
      PROVE  SessionOf(t) \in Session
  BY <1>2, SendIsActive, SenderSession
<1>3. ASSUME NEW c \in Conn, HandleRenderAck(c)
      PROVE  StoreTypes'
  <2>1. /\ owner[c] \in Session
        /\ Head(toServer[c]) \in Event
    <3>1. pc[c] = "serving" /\ toServer[c] # <<>>
      BY <1>3 DEF HandleRenderAck
    <3>2. toServer[c] \in Seq(Event)
      BY DEF HubInv, TypeOK
    <3> QED
      BY <3>1, <3>2 DEF HubInv, Sockets
  <2>2. /\ acks' \in {acks, acks \cup {<<Head(toServer[c]), owner[c]>>}}
        /\ nacked' \in {nacked, nacked \cup {<<Head(toServer[c]), owner[c]>>}}
        /\ milestones' \in {milestones,
             [milestones EXCEPT ![Head(toServer[c])] = @ \cup {"rendered"}]}
        /\ UNCHANGED <<processed, dispatches>>
    BY <1>3 DEF HandleRenderAck
  <2>3. milestones' \in [Event -> SUBSET {"dispatched", "rendered"}]
    BY <1>1, <2>1, <2>2 DEF StoreTypes
  <2> QED
    BY <1>1, <2>1, <2>2, <2>3 DEF StoreTypes
<1>4. ASSUME NEW t \in Task, NoConnection(t) \/ SendReturns(t) \/ SendFails(t)
      PROVE  StoreTypes'
  <2>1. SessionOf(t) \in Session
    BY <1>4, <1>2 DEF Send
  <2>2. PICK outcome \in {"sent", "failed"} :
          IF IsEffect(t) THEN RecordDispatch(t, outcome) ELSE UNCHANGED <<dispatches, milestones>>
    BY <1>4 DEF NoConnection, SendReturns, SendFails
  <2>3. UNCHANGED <<processed, acks, nacked>>
    BY <1>4 DEF NoConnection, SendReturns, SendFails
  <2> QED
    BY <1>1, <2>1, <2>2, <2>3, OutcomeFacts DEF StoreTypes
<1>5. ASSUME NEW e \in Event, ProcessAndBroadcast(e) \/ RecoverEffect(e)
      PROVE  StoreTypes'
  BY <1>1, <1>5 DEF ProcessAndBroadcast, RecoverEffect, StoreTypes
<1>6. ASSUME UNCHANGED <<processed, dispatches, acks, milestones, nacked>>
      PROVE  StoreTypes'
  BY <1>6, <1>1 DEF StoreTypes
<1>7. ASSUME NEW c \in Conn, Register(c) \/ AcceptFails(c) \/ OpenFails(c)
                             \/ PreviousClosed(c) \/ PreviousCloseRaises(c) \/ Disconnect(c)
                             \/ DisconnectFails(c) \/ HandleRenderAckFails(c) \/ Break(c)
      PROVE  UNCHANGED <<processed, dispatches, acks, milestones, nacked>>
  BY <1>7 DEF Register, AcceptFails, OpenFails, PreviousClosed, PreviousCloseRaises, Disconnect,
    DisconnectFails, HandleRenderAckFails, Break, database
<1>8. ASSUME NEW t \in Task, BeginSend(t) \/ TakeLock(t) \/ SendRaises(t)
      PROVE  UNCHANGED <<processed, dispatches, acks, milestones, nacked>>
  BY <1>8 DEF BeginSend, TakeLock, SendRaises, Raise, database
<1>9. ASSUME NEW s \in Session, Connect(s) \/ ReceiveEffect(s)
      PROVE  UNCHANGED <<processed, dispatches, acks, milestones, nacked>>
  BY <1>9 DEF Connect, ReceiveEffect, database
<1>10. ASSUME Crash \/ Restart \/ UNCHANGED vars
      PROVE  UNCHANGED <<processed, dispatches, acks, milestones, nacked>>
  BY <1>10 DEF Crash, Restart, vars, database
<1> QED
  BY <1>3, <1>4, <1>5, <1>6, <1>7, <1>8, <1>9, <1>10 DEF Next, Handle, Send, Document

LEMMA RowTypesNext ==
  ASSUME HubInv, [Next]_vars
  PROVE  RowTypes'
<1>1. RowTypes
  BY TypeParts DEF HubInv
<1>2. ASSUME NEW c \in Conn, OpenSession(owner[c]) \/ CloseSession(owner[c]) \/ UNCHANGED sessions
      PROVE  sessions' \in [Session -> [known : BOOLEAN, connected : BOOLEAN, reconnects : Nat]]
  <2>1. sessions \in [Session -> [known : BOOLEAN, connected : BOOLEAN, reconnects : Nat]]
    BY <1>1 DEF RowTypes
  <2>2. CASE OpenSession(owner[c])
    <3> DEFINE row == [known |-> TRUE, connected |-> TRUE,
                       reconnects |-> IF sessions[owner[c]].known
                                      THEN sessions[owner[c]].reconnects + 1 ELSE 0]
    <3>1. sessions' = [sessions EXCEPT ![owner[c]] = row]
      BY <2>2 DEF OpenSession
    <3>2. owner[c] \in Session => row \in [known : BOOLEAN, connected : BOOLEAN, reconnects : Nat]
      BY <2>1
    <3> HIDE DEF row
    <3> QED
      BY <2>1, <3>1, <3>2
  <2>3. CASE CloseSession(owner[c])
    BY <2>1, <2>3 DEF CloseSession
  <2> QED
    BY <1>2, <2>1, <2>2, <2>3
<1>3. ASSUME NEW c \in Conn, Register(c) \/ OpenFails(c) \/ Disconnect(c)
                             \/ DisconnectFails(c) \/ HandleRenderAckFails(c)
      PROVE  RowTypes'
  <2>1. OpenSession(owner[c]) \/ CloseSession(owner[c]) \/ UNCHANGED sessions
    BY <1>3 DEF Register, OpenFails, Disconnect, DisconnectFails, HandleRenderAckFails, EndHandler
  <2>2. \/ UNCHANGED evidence
        \/ evidence' = [evidence EXCEPT ![owner[c]].connected = @ + 1]
        \/ evidence' = [evidence EXCEPT ![owner[c]].disconnected = @ + 1]
    BY <1>3 DEF Register, OpenFails, Disconnect, DisconnectFails, HandleRenderAckFails, EndHandler
  <2>3. evidence' \in [Session -> [connected : Nat, disconnected : Nat]]
    BY <1>1, <2>2 DEF RowTypes
  <2> QED
    BY <1>2, <2>1, <2>3 DEF RowTypes
<1>4. ASSUME UNCHANGED <<sessions, evidence>>
      PROVE  RowTypes'
  BY <1>4, <1>1 DEF RowTypes
<1>5. ASSUME NEW c \in Conn, AcceptFails(c) \/ PreviousClosed(c) \/ PreviousCloseRaises(c)
                             \/ HandleRenderAck(c) \/ Break(c)
      PROVE  UNCHANGED <<sessions, evidence>>
  BY <1>5 DEF AcceptFails, PreviousClosed, PreviousCloseRaises, HandleRenderAck, Break, database
<1>6. ASSUME NEW t \in Task, BeginSend(t) \/ TakeLock(t) \/ NoConnection(t) \/ SendReturns(t)
                             \/ SendFails(t) \/ SendRaises(t)
      PROVE  UNCHANGED <<sessions, evidence>>
  BY <1>6 DEF BeginSend, TakeLock, NoConnection, SendReturns, SendFails, SendRaises, Finish,
    Raise, database
<1>7. ASSUME NEW e \in Event, ProcessAndBroadcast(e) \/ RecoverEffect(e)
      PROVE  UNCHANGED <<sessions, evidence>>
  BY <1>7 DEF ProcessAndBroadcast, RecoverEffect
<1>8. ASSUME NEW s \in Session, Connect(s) \/ ReceiveEffect(s)
      PROVE  UNCHANGED <<sessions, evidence>>
  BY <1>8 DEF Connect, ReceiveEffect, database
<1>9. ASSUME Crash \/ Restart \/ UNCHANGED vars
      PROVE  UNCHANGED <<sessions, evidence>>
  BY <1>9 DEF Crash, Restart, vars, database
<1> QED
  BY <1>3, <1>4, <1>5, <1>6, <1>7, <1>8, <1>9 DEF Next, Handle, Send, Document

LEMMA BoundTypesNext ==
  ASSUME HubInv, [Next]_vars
  PROVE  BoundTypes'
<1>1. BoundTypes
  BY TypeParts DEF HubInv
<1>2. Fault /\ UNCHANGED <<up, crashes>> => BoundTypes'
  BY <1>1, BoundAssumption DEF Fault, BoundTypes
<1>3. ASSUME NEW c \in Conn, OpenFails(c) \/ DisconnectFails(c) \/ HandleRenderAckFails(c)
      PROVE  BoundTypes'
  BY <1>2, <1>3 DEF OpenFails, DisconnectFails, HandleRenderAckFails
<1>4. ASSUME NEW t \in Task, SendRaises(t)
      PROVE  BoundTypes'
  BY <1>2, <1>4 DEF SendRaises
<1>5. CASE Crash
  <2>1. crashes < MaxCrashes /\ crashes' = crashes + 1 /\ up' = FALSE /\ faults' = faults
    BY <1>5 DEF Crash
  <2>2. crashes' \in 0 .. MaxCrashes
    BY <1>1, <2>1, BoundAssumption DEF BoundTypes
  <2> QED
    BY <1>1, <2>1, <2>2 DEF BoundTypes
<1>6. CASE Restart
  BY <1>1, <1>6 DEF Restart, BoundTypes, bounds
<1>7. ASSUME UNCHANGED <<up, crashes, faults>>
      PROVE  BoundTypes'
  BY <1>7, <1>1 DEF BoundTypes
<1>8. ASSUME NEW c \in Conn, Register(c) \/ AcceptFails(c) \/ PreviousClosed(c)
                             \/ PreviousCloseRaises(c) \/ Disconnect(c) \/ HandleRenderAck(c)
                             \/ Break(c)
      PROVE  UNCHANGED <<up, crashes, faults>>
  BY <1>8 DEF Register, AcceptFails, PreviousClosed, PreviousCloseRaises, Disconnect,
    HandleRenderAck, Break, bounds
<1>9. ASSUME NEW t \in Task, BeginSend(t) \/ TakeLock(t) \/ NoConnection(t) \/ SendReturns(t)
                             \/ SendFails(t)
      PROVE  UNCHANGED <<up, crashes, faults>>
  BY <1>9 DEF BeginSend, TakeLock, NoConnection, SendReturns, SendFails, Finish, bounds
<1>10. ASSUME NEW e \in Event, ProcessAndBroadcast(e) \/ RecoverEffect(e)
      PROVE  UNCHANGED <<up, crashes, faults>>
  BY <1>10 DEF ProcessAndBroadcast, RecoverEffect, bounds
<1>11. ASSUME NEW s \in Session, Connect(s) \/ ReceiveEffect(s)
      PROVE  UNCHANGED <<up, crashes, faults>>
  BY <1>11 DEF Connect, ReceiveEffect, bounds
<1>12. ASSUME UNCHANGED vars
      PROVE  UNCHANGED <<up, crashes, faults>>
  BY <1>12 DEF vars, bounds
<1> QED
  BY <1>3, <1>4, <1>5, <1>6, <1>7, <1>8, <1>9, <1>10, <1>11, <1>12
  DEF Next, Handle, Send, Document

LEMMA CardTypesNext ==
  ASSUME HubInv, [Next]_vars
  PROVE  CardTypes'
<1>1. CardTypes
  BY TypeParts DEF HubInv
<1>2. ASSUME NEW s \in Session, ReceiveEffect(s)
      PROVE  CardTypes'
  <2>1. /\ toBrowser[client[s]] \in Seq(Event) /\ toBrowser[client[s]] # <<>>
    BY <1>2 DEF HubInv, TypeOK, ReceiveEffect
  <2>2. Head(toBrowser[client[s]]) \in Event
    BY <2>1
  <2>3. cards' \in {cards, [cards EXCEPT ![s][Head(toBrowser[client[s]])] = @ + 1]}
    BY <1>2 DEF ReceiveEffect
  <2> QED
    BY <1>1, <2>2, <2>3 DEF CardTypes
<1>3. ASSUME UNCHANGED cards
      PROVE  CardTypes'
  BY <1>3, <1>1 DEF CardTypes
<1>4. ASSUME NEW c \in Conn, Register(c) \/ AcceptFails(c) \/ OpenFails(c)
                             \/ PreviousClosed(c) \/ PreviousCloseRaises(c) \/ Disconnect(c)
                             \/ DisconnectFails(c) \/ HandleRenderAck(c)
                             \/ HandleRenderAckFails(c) \/ Break(c)
      PROVE  UNCHANGED cards
  BY <1>4 DEF Register, AcceptFails, OpenFails, PreviousClosed, PreviousCloseRaises, Disconnect,
    DisconnectFails, HandleRenderAck, HandleRenderAckFails, Break, browser
<1>5. ASSUME NEW t \in Task, BeginSend(t) \/ TakeLock(t) \/ NoConnection(t) \/ SendReturns(t)
                             \/ SendFails(t) \/ SendRaises(t)
      PROVE  UNCHANGED cards
  BY <1>5 DEF BeginSend, TakeLock, NoConnection, SendReturns, SendFails, SendRaises, Finish,
    Raise, browser
<1>6. ASSUME NEW e \in Event, ProcessAndBroadcast(e) \/ RecoverEffect(e)
      PROVE  UNCHANGED cards
  BY <1>6 DEF ProcessAndBroadcast, RecoverEffect, browser
<1>7. ASSUME NEW s \in Session, Connect(s)
      PROVE  UNCHANGED cards
  BY <1>7 DEF Connect
<1>8. ASSUME Crash \/ Restart \/ UNCHANGED vars
      PROVE  UNCHANGED cards
  BY <1>8 DEF Crash, Restart, vars, browser
<1> QED
  BY <1>2, <1>3, <1>4, <1>5, <1>6, <1>7, <1>8 DEF Next, Handle, Send, Document


\* A call that raised ends its handler, or only itself.
LEMMA RaiseFacts ==
  ASSUME TypeOK, NEW t \in Task, Raise(t)
  PROVE  /\ tasks' = [tasks EXCEPT ![t] = Idle]
         /\ \/ \E c \in Conn : t = HandlerTask(c) /\ HandlerDies(c)
            \/ /\ \A c \in Conn : t # HandlerTask(c)
               /\ UNCHANGED <<pc, replay, link, toBrowser, toServer>>
<1>1. CASE \E c \in Conn : t = HandlerTask(c)
  <2>1. PICK c \in Conn : t = HandlerTask(c)
    BY <1>1
  <2>2. HandlerDies(c)
    BY <2>1, TaskKinds DEF Raise
  <2> QED
    BY <2>1, <2>2 DEF HandlerDies
<1>2. CASE \A c \in Conn : t # HandlerTask(c)
  <2>1. t \notin HandlerTasks
    BY <1>2 DEF HandlerTasks
  <2> QED
    BY <1>2, <2>1 DEF Raise
<1> QED
  BY <1>1, <1>2

LEMMA IdleIsTask == Idle \in TaskStates
BY DEF Idle, TaskStates, Items

Opens(s, c) ==
  /\ pc' = [pc EXCEPT ![c] = "accepting"]
  /\ owner' = [owner EXCEPT ![c] = s]
  /\ link' = [link EXCEPT ![c] = "open"]
  /\ client' = [client EXCEPT ![s] = c]

\* A connection that is opened is the next unused one.
LEMMA ConnectFacts ==
  ASSUME HubInv, NEW s \in Session, Connect(s)
  PROVE  \E c \in Conn :
           /\ pc[c] = "idle"
           /\ {d \in Conn : pc'[d] # "idle"} = 1 .. c
           /\ Opens(s, c)
<1> DEFINE used == {d \in Conn : pc[d] # "idle"}
           c == 1 + Cardinality(used)
<1>1. PICK k \in 0 .. MaxConns : used = 1 .. k
  BY DEF HubInv, Sockets
<1>2. c = 1 + k
  <2>1. Cardinality(1 .. k) = k
    BY FS_Interval, BoundAssumption
  <2> QED
    BY <1>1, <2>1
<1>3. c \in Conn /\ Opens(s, c)
  BY DEF Connect, Opens
<1>4. c \notin used
  BY <1>1, <1>2
<1>5. pc[c] = "idle"
  BY <1>3, <1>4
<1>6. {d \in Conn : pc'[d] # "idle"} = used \cup {c}
  <2>1. pc \in [Conn -> PcStates]
    BY DEF HubInv, TypeOK, PcStates
  <2>2. \A d \in Conn : pc'[d] = IF d = c THEN "accepting" ELSE pc[d]
    BY <1>3, <2>1 DEF Opens
  <2> QED
    BY <1>3, <2>2
<1>7. used \cup {c} = 1 .. c
  BY <1>1, <1>2
<1> QED
  BY <1>3, <1>5, <1>6, <1>7

LEMMA WireTypesNext ==
  ASSUME HubInv, [Next]_vars
  PROVE  WireTypes'
<1>1. WireTypes
  BY TypeParts DEF HubInv
<1>2. ASSUME NEW c \in Conn, HandlerDies(c)
      PROVE  WireTypes'
  BY <1>1, <1>2 DEF HandlerDies, Forget, WireTypes
<1>3. ASSUME NEW t \in Task, NEW c \in Conn, Transmit(t, c)
      PROVE  toBrowser' \in [Conn -> Seq(Event)]
  <2>1. toBrowser \in [Conn -> Seq(Event)]
    BY <1>1 DEF WireTypes
  <2>2. CASE IsEffect(t) /\ link[c] = "open"
    <3>1. tasks[t].item \in Event /\ toBrowser[c] \in Seq(Event)
      BY <2>1, <2>2 DEF IsEffect
    <3>2. Append(toBrowser[c], tasks[t].item) \in Seq(Event)
      BY <3>1
    <3>3. toBrowser' = [toBrowser EXCEPT ![c] = Append(toBrowser[c], tasks[t].item)]
      BY <1>3, <2>2 DEF Transmit
    <3> QED
      BY <2>1, <3>2, <3>3
  <2>3. CASE ~ (IsEffect(t) /\ link[c] = "open")
    BY <1>3, <2>1, <2>3 DEF Transmit
  <2> QED
    BY <2>2, <2>3
<1>4. ASSUME NEW c \in Conn, Register(c)
      PROVE  WireTypes'
  <2>1. /\ \/ UNCHANGED <<link, toBrowser>>
           \/ /\ link' = [link EXCEPT ![registry[owner[c]]] = "closed"]
              /\ toBrowser' = [toBrowser EXCEPT ![registry[owner[c]]] = <<>>]
        /\ UNCHANGED toServer
    BY <1>4 DEF Register
  <2>2. link' \in [Conn -> {"none", "open", "closed"}]
    BY <1>1, <2>1 DEF WireTypes
  <2>3. toBrowser' \in [Conn -> Seq(Event)]
    <3>1. toBrowser \in [Conn -> Seq(Event)] /\ <<>> \in Seq(Event)
      BY <1>1 DEF WireTypes
    <3> QED
      BY <2>1, <3>1
  <2> QED
    BY <1>1, <2>1, <2>2, <2>3 DEF WireTypes
<1>5. ASSUME NEW c \in Conn, OpenFails(c) \/ PreviousCloseRaises(c)
      PROVE  WireTypes'
  BY <1>2, <1>5 DEF OpenFails, PreviousCloseRaises
<1>6. ASSUME NEW c \in Conn, Disconnect(c) \/ DisconnectFails(c)
      PROVE  WireTypes'
  <2>1. Forget(c) /\ UNCHANGED <<link, toBrowser>>
    BY <1>6 DEF Disconnect, DisconnectFails, EndHandler
  <2> QED
    BY <1>1, <2>1 DEF WireTypes, Forget
<1>7. ASSUME NEW c \in Conn, HandleRenderAckFails(c)
      PROVE  WireTypes'
  BY <1>1, <1>7 DEF HandleRenderAckFails, EndHandler, Forget, WireTypes
<1>8. ASSUME NEW c \in Conn, HandleRenderAck(c)
      PROVE  WireTypes'
  <2>1. toServer[c] \in Seq(Event) /\ toServer[c] # <<>>
    BY <1>1, <1>8 DEF HandleRenderAck, WireTypes
  <2>2. toServer' = [toServer EXCEPT ![c] = Tail(toServer[c])] /\ UNCHANGED <<link, toBrowser>>
    BY <1>8 DEF HandleRenderAck
  <2>3. Tail(toServer[c]) \in Seq(Event)
    BY <2>1
  <2> QED
    BY <1>1, <2>2, <2>3 DEF WireTypes
<1>9. ASSUME NEW c \in Conn, Break(c)
      PROVE  WireTypes'
  BY <1>1, <1>9 DEF Break, WireTypes
<1>10. ASSUME NEW t \in Task, BeginSend(t)
      PROVE  WireTypes'
  <2>1. registry[SessionOf(t)] \in Conn
    <3>1. registry[SessionOf(t)] # None /\ SessionOf(t) \in Session
      BY <1>10, SendIsActive, SenderSession DEF Send, BeginSend
    <3> QED
      BY <3>1 DEF HubInv, TypeOK
  <2>2. /\ Transmit(t, registry[SessionOf(t)]) \/ UNCHANGED toBrowser
        /\ UNCHANGED <<link, toServer>>
    BY <1>10 DEF BeginSend
  <2> QED
    BY <1>1, <1>3, <2>1, <2>2 DEF WireTypes
<1>11. ASSUME NEW t \in Task, TakeLock(t)
      PROVE  WireTypes'
  <2>1. tasks[t].to \in Conn /\ Transmit(t, tasks[t].to) /\ UNCHANGED <<link, toServer>>
    BY <1>11 DEF TakeLock, HubInv, TypeOK
  <2> QED
    BY <1>1, <1>3, <2>1 DEF WireTypes
<1>12. ASSUME NEW t \in Task, SendRaises(t)
      PROVE  WireTypes'
  <2>1. Raise(t)
    BY <1>12 DEF SendRaises
  <2> QED
    BY <1>1, <1>2, <2>1, RaiseFacts DEF HubInv, WireTypes
<1>13. ASSUME NEW s \in Session, Connect(s)
      PROVE  WireTypes'
  BY <1>1, <1>13 DEF Connect, WireTypes
<1>14. ASSUME NEW s \in Session, ReceiveEffect(s)
      PROVE  WireTypes'
  <2>1. /\ client[s] \in Conn
        /\ toBrowser[client[s]] \in Seq(Event) /\ toBrowser[client[s]] # <<>>
        /\ toServer[client[s]] \in Seq(Event)
    <3>1. client[s] # None /\ toBrowser[client[s]] # <<>>
      BY <1>14 DEF ReceiveEffect
    <3>2. client[s] \in Conn \cup {None}
      BY DEF HubInv, TypeOK
    <3> QED
      BY <1>1, <3>1, <3>2 DEF WireTypes
  <2>2. /\ Tail(toBrowser[client[s]]) \in Seq(Event)
        /\ Append(toServer[client[s]], Head(toBrowser[client[s]])) \in Seq(Event)
    BY <2>1
  <2>3. /\ toBrowser' = [toBrowser EXCEPT ![client[s]] = Tail(toBrowser[client[s]])]
        /\ toServer' = [toServer EXCEPT ![client[s]] =
                          Append(toServer[client[s]], Head(toBrowser[client[s]]))]
        /\ UNCHANGED link
    BY <1>14 DEF ReceiveEffect
  <2> QED
    BY <1>1, <2>1, <2>2, <2>3 DEF WireTypes
<1>15. CASE Crash
  BY <1>15 DEF Crash, WireTypes
<1>16. ASSUME UNCHANGED <<link, toBrowser, toServer>>
      PROVE  WireTypes'
  BY <1>16, <1>1 DEF WireTypes
<1>17. ASSUME NEW c \in Conn, AcceptFails(c) \/ PreviousClosed(c)
      PROVE  UNCHANGED <<link, toBrowser, toServer>>
  BY <1>17 DEF AcceptFails, PreviousClosed, network
<1>18. ASSUME NEW t \in Task, NoConnection(t) \/ SendReturns(t) \/ SendFails(t)
      PROVE  UNCHANGED <<link, toBrowser, toServer>>
  BY <1>18 DEF NoConnection, SendReturns, SendFails, Finish, network
<1>19. ASSUME NEW e \in Event, ProcessAndBroadcast(e) \/ RecoverEffect(e)
      PROVE  UNCHANGED <<link, toBrowser, toServer>>
  BY <1>19 DEF ProcessAndBroadcast, RecoverEffect, network
<1>20. ASSUME Restart \/ UNCHANGED vars
      PROVE  UNCHANGED <<link, toBrowser, toServer>>
  BY <1>20 DEF Restart, vars, network
<1> QED
  BY <1>4, <1>5, <1>6, <1>7, <1>8, <1>9, <1>10, <1>11, <1>12, <1>13, <1>14, <1>15, <1>16, <1>17,
    <1>18, <1>19, <1>20 DEF Next, Handle, Send, Document

LEMMA TaskTypesNext ==
  ASSUME HubInv, [Next]_vars
  PROVE  TaskTypes'
<1>1. /\ tasks \in [Task -> TaskStates]
      /\ Ready \in Items /\ Reply \in Items /\ Event \subseteq Items
  BY TypeParts DEF HubInv, TaskTypes, Items
<1>2. ASSUME NEW c \in Conn, NEW item \in Items, StartTask(c, item)
      PROVE  TaskTypes'
  BY <1>1, <1>2, TaskKinds DEF StartTask, TaskStates, TaskTypes
<1>3. ASSUME NEW t \in Task, tasks' = [tasks EXCEPT ![t] = Idle]
      PROVE  TaskTypes'
  BY <1>1, <1>3, IdleIsTask DEF TaskTypes
<1>4. ASSUME NEW t \in Task, NEW c \in Conn, NEW stage \in {"waiting", "sending"},
             tasks' = [tasks EXCEPT ![t].stage = stage, ![t].to = c]
      PROVE  TaskTypes'
  <2>1. tasks[t] \in TaskStates
    BY <1>1
  <2>2. [tasks[t] EXCEPT !.stage = stage, !.to = c] \in TaskStates
    BY <2>1 DEF TaskStates
  <2>3. tasks' = [tasks EXCEPT ![t] = [tasks[t] EXCEPT !.stage = stage, !.to = c]]
    BY <1>1, <1>4
  <2> QED
    BY <1>1, <2>2, <2>3 DEF TaskTypes
<1>5. ASSUME NEW c \in Conn, Register(c) \/ PreviousClosed(c) \/ HandleRenderAck(c)
      PROVE  TaskTypes'
  <2>1. StartTask(c, Ready) \/ StartTask(c, Reply) \/ UNCHANGED tasks
    BY <1>5 DEF Register, PreviousClosed, HandleRenderAck
  <2> QED
    BY <1>1, <1>2, <2>1 DEF TaskTypes
<1>6. ASSUME NEW c \in Conn, OpenFails(c) \/ PreviousCloseRaises(c)
      PROVE  TaskTypes'
  <2>1. tasks' = [tasks EXCEPT ![HandlerTask(c)] = Idle]
    BY <1>6 DEF OpenFails, PreviousCloseRaises, HandlerDies
  <2> QED
    BY <1>3, <2>1, TaskKinds
<1>7. ASSUME NEW t \in Task, BeginSend(t)
      PROVE  TaskTypes'
  <2>1. registry[SessionOf(t)] \in Conn
    <3>1. registry[SessionOf(t)] # None /\ SessionOf(t) \in Session
      BY <1>7, SendIsActive, SenderSession DEF Send, BeginSend
    <3> QED
      BY <3>1 DEF HubInv, TypeOK
  <2>2. \E stage \in {"waiting", "sending"} :
          tasks' = [tasks EXCEPT ![t].stage = stage, ![t].to = registry[SessionOf(t)]]
    BY <1>7 DEF BeginSend, Transmit
  <2> QED
    BY <1>4, <2>1, <2>2
<1>8. ASSUME NEW t \in Task, TakeLock(t)
      PROVE  TaskTypes'
  <2>1. tasks[t].to \in Conn
    BY <1>8 DEF TakeLock, HubInv, TypeOK
  <2>2. tasks' = [tasks EXCEPT ![t].stage = "sending", ![t].to = tasks[t].to]
    BY <1>8 DEF TakeLock, Transmit
  <2> QED
    BY <1>4, <2>1, <2>2
<1>9. ASSUME NEW t \in Task, NoConnection(t) \/ SendReturns(t) \/ SendFails(t)
      PROVE  TaskTypes'
  <2>1. Finish(t) /\ tasks[t].stage # "off"
    BY <1>9, SendIsActive DEF NoConnection, SendReturns, SendFails, Send
  <2> QED
    BY <2>1, FinishFacts DEF TaskTypes
<1>10. ASSUME NEW t \in Task, SendRaises(t)
      PROVE  TaskTypes'
  BY <1>3, <1>10, RaiseFacts DEF SendRaises, HubInv
<1>11. ASSUME NEW e \in Event, ProcessAndBroadcast(e)
      PROVE  TaskTypes'
  <2>1. \A t \in Task : tasks'[t] \in {[stage |-> "start", item |-> e, to |-> None], tasks[t]}
    BY <1>11 DEF ProcessAndBroadcast
  <2>2. \A t \in Task : tasks'[t] \in TaskStates
    BY <1>1, <2>1 DEF TaskStates
  <2>3. tasks' = [t \in Task |-> tasks'[t]]
    BY <1>11 DEF ProcessAndBroadcast
  <2> QED
    BY <2>2, <2>3 DEF TaskTypes
<1>12. CASE Crash
  BY <1>12, IdleIsTask DEF Crash, TaskTypes
<1>13. ASSUME UNCHANGED tasks
      PROVE  TaskTypes'
  BY <1>13, <1>1 DEF TaskTypes
<1>14. ASSUME NEW c \in Conn, AcceptFails(c) \/ Disconnect(c) \/ DisconnectFails(c)
                              \/ HandleRenderAckFails(c) \/ Break(c)
      PROVE  UNCHANGED tasks
  BY <1>14 DEF AcceptFails, Disconnect, DisconnectFails, HandleRenderAckFails, Break
<1>15. ASSUME NEW e \in Event, RecoverEffect(e)
      PROVE  UNCHANGED tasks
  BY <1>15 DEF RecoverEffect
<1>16. ASSUME NEW s \in Session, Connect(s) \/ ReceiveEffect(s)
      PROVE  UNCHANGED tasks
  BY <1>16 DEF Connect, ReceiveEffect
<1>17. ASSUME Restart \/ UNCHANGED vars
      PROVE  UNCHANGED tasks
  BY <1>17 DEF Restart, vars
<1> QED
  BY <1>5, <1>6, <1>7, <1>8, <1>9, <1>10, <1>11, <1>12, <1>13, <1>14, <1>15, <1>16, <1>17
  DEF Next, Handle, Send, Document

LEMMA HandlerTypesNext ==
  ASSUME HubInv, [Next]_vars
  PROVE  HandlerTypes'
<1>1. HandlerTypes
  BY TypeParts DEF HubInv
<1>2. ASSUME NEW s, NEW c, RemoveConnection(s, c)
      PROVE  registry' \in [Session -> Conn \cup {None}]
  BY <1>1, <1>2 DEF RemoveConnection, HandlerTypes
<1>3. ASSUME NEW c \in Conn, HandlerDies(c), UNCHANGED <<owner, client>>,
             registry' \in [Session -> Conn \cup {None}]
      PROVE  HandlerTypes'
  BY <1>1, <1>3 DEF HandlerDies, Forget, HandlerTypes, PcStates
<1>4. ASSUME NEW c \in Conn, Register(c)
      PROVE  HandlerTypes'
  <2>1. /\ registry' = [registry EXCEPT ![owner[c]] = c]
        /\ pc' \in {[pc EXCEPT ![c] = "greeting"], [pc EXCEPT ![c] = "replacing"]}
        /\ UNCHANGED <<owner, replay, client>>
    BY <1>4 DEF Register, browser
  <2> QED
    BY <1>1, <2>1 DEF HandlerTypes, PcStates
<1>5. ASSUME NEW c \in Conn, AcceptFails(c) \/ PreviousClosed(c) \/ HandleRenderAck(c)
      PROVE  HandlerTypes'
  <2>1. /\ \/ pc' = [pc EXCEPT ![c] = "ended"]
           \/ pc' = [pc EXCEPT ![c] = "greeting"]
           \/ pc' = [pc EXCEPT ![c] = "replying"]
        /\ UNCHANGED <<registry, owner, replay, client>>
    BY <1>5 DEF AcceptFails, PreviousClosed, HandleRenderAck, browser
  <2> QED
    BY <1>1, <2>1 DEF HandlerTypes, PcStates
<1>6. ASSUME NEW c \in Conn, OpenFails(c) \/ PreviousCloseRaises(c)
      PROVE  HandlerTypes'
  BY <1>1, <1>3, <1>6 DEF OpenFails, PreviousCloseRaises, browser, HandlerTypes
<1>7. ASSUME NEW c \in Conn, Disconnect(c) \/ DisconnectFails(c) \/ HandleRenderAckFails(c)
      PROVE  HandlerTypes'
  <2>1. /\ RemoveConnection(owner[c], c)
        /\ pc' = [pc EXCEPT ![c] = "ended"]
        /\ replay' = [replay EXCEPT ![c] = {}]
        /\ UNCHANGED <<owner, client>>
    BY <1>7 DEF Disconnect, DisconnectFails, HandleRenderAckFails, EndHandler, Forget, browser
  <2>2. registry' \in [Session -> Conn \cup {None}]
    BY <1>2, <2>1
  <2> QED
    BY <1>1, <2>1, <2>2 DEF HandlerTypes, PcStates
<1>8. ASSUME NEW t \in Task, NoConnection(t) \/ SendReturns(t) \/ SendFails(t)
      PROVE  HandlerTypes'
  <2>1. Finish(t) /\ tasks[t].stage # "off"
    BY <1>8, SendIsActive DEF NoConnection, SendReturns, SendFails, Send
  <2>2. pc' \in [Conn -> PcStates] /\ replay' \in [Conn -> SUBSET Event]
    BY <2>1, FinishFacts DEF PcStates
  <2>3. /\ UNCHANGED registry \/ RemoveConnection(SessionOf(t), tasks[t].to)
        /\ UNCHANGED <<owner, client>>
    BY <1>8 DEF NoConnection, SendReturns, SendFails, browser
  <2> QED
    BY <1>1, <1>2, <2>2, <2>3 DEF HandlerTypes
<1>9. ASSUME NEW t \in Task, SendRaises(t)
      PROVE  HandlerTypes'
  <2>1. /\ Raise(t) /\ UNCHANGED <<owner, client>>
        /\ UNCHANGED registry \/ RemoveConnection(SessionOf(t), tasks[t].to)
    BY <1>9 DEF SendRaises, browser
  <2>2. registry' \in [Session -> Conn \cup {None}]
    BY <1>1, <1>2, <2>1 DEF HandlerTypes
  <2> QED
    BY <1>1, <1>3, <2>1, <2>2, RaiseFacts DEF HubInv, HandlerTypes
<1>10. ASSUME NEW s \in Session, Connect(s)
      PROVE  HandlerTypes'
  <2>1. PICK c \in Conn : Opens(s, c)
    BY <1>10, ConnectFacts
  <2>2. UNCHANGED <<registry, replay>>
    BY <1>10 DEF Connect
  <2> QED
    BY <1>1, <2>1, <2>2 DEF Opens, HandlerTypes, PcStates
<1>11. CASE Crash
  <2>1. /\ registry' = [s \in Session |-> None]
        /\ pc' = [c \in Conn |-> IF pc[c] = "idle" THEN "idle" ELSE "ended"]
        /\ replay' = [c \in Conn |-> {}]
        /\ UNCHANGED <<owner, client>>
    BY <1>11 DEF Crash, browser
  <2> QED
    BY <1>1, <2>1 DEF HandlerTypes, PcStates
<1>12. ASSUME UNCHANGED <<registry, pc, owner, replay, client>>
      PROVE  HandlerTypes'
  BY <1>12, <1>1 DEF HandlerTypes
<1>13. ASSUME NEW c \in Conn, Break(c)
      PROVE  UNCHANGED <<registry, pc, owner, replay, client>>
  BY <1>13 DEF Break, handlers, browser
<1>14. ASSUME NEW t \in Task, BeginSend(t) \/ TakeLock(t)
      PROVE  UNCHANGED <<registry, pc, owner, replay, client>>
  BY <1>14 DEF BeginSend, TakeLock, handlers, browser
<1>15. ASSUME NEW e \in Event, ProcessAndBroadcast(e) \/ RecoverEffect(e)
      PROVE  UNCHANGED <<registry, pc, owner, replay, client>>
  BY <1>15 DEF ProcessAndBroadcast, RecoverEffect, handlers, browser
<1>16. ASSUME NEW s \in Session, ReceiveEffect(s)
      PROVE  UNCHANGED <<registry, pc, owner, replay, client>>
  BY <1>16 DEF ReceiveEffect, handlers
<1>17. ASSUME Restart \/ UNCHANGED vars
      PROVE  UNCHANGED <<registry, pc, owner, replay, client>>
  BY <1>17 DEF Restart, vars, handlers, browser
<1> QED
  BY <1>4, <1>5, <1>6, <1>7, <1>8, <1>9, <1>10, <1>11, <1>12, <1>13, <1>14, <1>15, <1>16, <1>17
  DEF Next, Handle, Send, Document

LEMMA TypeNext ==
  ASSUME HubInv, [Next]_vars
  PROVE  TypeOK'
BY StoreTypesNext, RowTypesNext, BoundTypesNext, CardTypesNext, WireTypesNext, TaskTypesNext,
  HandlerTypesNext, NextTypeParts


-----------------------------------------------------------------------------
(* What a step may do to a handler, a transport, a registry entry, a task *)

PcMove(d) ==
  /\ pc[d] = "idle" => pc'[d] \in {"idle", "accepting"}
  /\ pc[d] # "idle" => pc'[d] # "idle" /\ owner'[d] = owner[d]
  /\ pc[d] \notin {"idle", "accepting"} => pc'[d] \notin {"idle", "accepting"}
  /\ pc'[d] \in LiveStates => pc[d] \in LiveStates \/ Register(d)
  /\ pc[d] \in SendStates => pc'[d] \in SendStates \/ tasks'[HandlerTask(d)].stage = "off"

\* A transport is opened once, with its handler, and an unused one carries nothing.
WireMove(d) ==
  /\ pc[d] = "idle" /\ pc'[d] = "idle" =>
       link'[d] = link[d] /\ toBrowser'[d] = toBrowser[d] /\ toServer'[d] = toServer[d]
  /\ link'[d] = "open" => link[d] = "open" \/ pc[d] = "idle"

\* An entry is replaced by a registration or removed, and its transport works no longer.
RegistryMove(s) ==
  registry'[s] # registry[s] =>
    /\ registry[s] # None => link'[registry[s]] # "open"
    /\ registry'[s] # None => Register(registry'[s]) /\ owner[registry'[s]] = s

\* A send learns its connection from the registry and keeps it.
TaskMove(t) ==
  /\ tasks'[t].stage \in {"waiting", "sending"} =>
       /\ tasks'[t].item = tasks[t].item
       /\ \/ tasks[t].stage \in {"waiting", "sending"} /\ tasks'[t].to = tasks[t].to
          \/ /\ tasks[t].stage = "start"
             /\ tasks'[t].to = registry[SessionOf(t)] /\ registry[SessionOf(t)] # None
  /\ tasks'[t].stage = "start" =>
       \/ tasks'[t] = tasks[t]
       \/ \E e \in processed', s \in Session : t = CastTask(e, s) /\ tasks'[t].item = e
       \/ \E c \in Conn : /\ t = HandlerTask(c) /\ pc'[c] \in SendStates
                          /\ tasks'[t].item \in processed \cup {Ready, Reply}

LEMMA PcMoves ==
  ASSUME HubInv, [Next]_vars
  PROVE  \A d \in Conn : PcMove(d)
<1>1. pc \in [Conn -> PcStates] /\ owner \in [Conn -> Session \cup {None}]
  BY TypeParts DEF HubInv, HandlerTypes
<1>2. ASSUME NEW c \in Conn, HandlerDies(c), UNCHANGED owner, pc[c] # "idle"
      PROVE  \A d \in Conn : PcMove(d)
  <2>1. pc' = [pc EXCEPT ![c] = "ended"]
    BY <1>2 DEF HandlerDies
  <2>2. tasks'[HandlerTask(c)].stage = "off"
    <3>1. tasks' = [tasks EXCEPT ![HandlerTask(c)] = Idle]
      BY <1>2 DEF HandlerDies
    <3> QED
      BY <3>1, TaskKinds DEF HubInv, TypeOK, Idle
  <2> QED
    BY <1>1, <1>2, <2>1, <2>2 DEF PcMove, LiveStates, SendStates
<1>3. ASSUME NEW c \in Conn, Register(c)
      PROVE  \A d \in Conn : PcMove(d)
  <2>1. /\ pc[c] = "accepting" /\ UNCHANGED owner
        /\ pc' = [pc EXCEPT ![c] = "greeting"] \/ pc' = [pc EXCEPT ![c] = "replacing"]
    BY <1>3 DEF Register
  <2> QED
    BY <1>1, <1>3, <2>1 DEF PcMove, LiveStates, SendStates
<1>4. ASSUME NEW c \in Conn, AcceptFails(c) \/ PreviousClosed(c) \/ HandleRenderAck(c)
      PROVE  \A d \in Conn : PcMove(d)
  <2>1. /\ \/ pc[c] = "accepting" /\ pc' = [pc EXCEPT ![c] = "ended"]
           \/ pc[c] = "replacing" /\ pc' = [pc EXCEPT ![c] = "greeting"]
           \/ pc[c] = "serving" /\ pc' = [pc EXCEPT ![c] = "replying"]
        /\ UNCHANGED owner
    BY <1>4 DEF AcceptFails, PreviousClosed, HandleRenderAck
  <2> QED
    BY <1>1, <2>1 DEF PcMove, LiveStates, SendStates
<1>5. ASSUME NEW c \in Conn, OpenFails(c) \/ PreviousCloseRaises(c)
      PROVE  \A d \in Conn : PcMove(d)
  BY <1>2, <1>5 DEF OpenFails, PreviousCloseRaises
<1>6. ASSUME NEW c \in Conn, Disconnect(c) \/ DisconnectFails(c) \/ HandleRenderAckFails(c)
      PROVE  \A d \in Conn : PcMove(d)
  <2>1. pc[c] = "serving" /\ pc' = [pc EXCEPT ![c] = "ended"] /\ UNCHANGED owner
    BY <1>6 DEF Disconnect, DisconnectFails, HandleRenderAckFails, EndHandler
  <2> QED
    BY <1>1, <2>1 DEF PcMove, LiveStates, SendStates
<1>7. ASSUME NEW t \in Task, NoConnection(t) \/ SendReturns(t) \/ SendFails(t)
      PROVE  \A d \in Conn : PcMove(d)
  <2>1. Finish(t) /\ tasks[t].stage # "off" /\ UNCHANGED owner
    BY <1>7, SendIsActive DEF NoConnection, SendReturns, SendFails, Send
  <2>2. ASSUME NEW d \in Conn, t # HandlerTask(d)
        PROVE  PcMove(d)
    <3>1. pc'[d] = pc[d]
      BY <2>1, <2>2, FinishFacts
    <3> QED
      BY <2>1, <3>1 DEF PcMove
  <2>3. ASSUME NEW d \in Conn, t = HandlerTask(d)
        PROVE  PcMove(d)
    <3>1. pc[d] \in SendStates
      BY <2>1, <2>3 DEF HubInv, Tasked
    <3>2. pc'[d] = "replaying" \/ (pc'[d] = "serving" /\ tasks'[t] = Idle)
      BY <2>1, <2>3, FinishFacts
    <3> QED
      BY <2>1, <2>3, <3>1, <3>2 DEF PcMove, LiveStates, SendStates, Idle
  <2> QED
    BY <2>2, <2>3
<1>8. ASSUME NEW t \in Task, SendRaises(t)
      PROVE  \A d \in Conn : PcMove(d)
  <2>1. Raise(t) /\ tasks[t].stage # "off" /\ UNCHANGED owner
    BY <1>8, SendIsActive DEF SendRaises, Send
  <2>2. CASE \E c \in Conn : t = HandlerTask(c) /\ HandlerDies(c)
    BY <1>2, <2>1, <2>2 DEF HubInv, Tasked, SendStates
  <2>3. CASE UNCHANGED pc
    BY <2>1, <2>3 DEF PcMove
  <2> QED
    BY <2>1, <2>2, <2>3, RaiseFacts DEF HubInv
<1>9. ASSUME NEW s \in Session, Connect(s)
      PROVE  \A d \in Conn : PcMove(d)
  <2>1. PICK c \in Conn : pc[c] = "idle" /\ {d \in Conn : pc'[d] # "idle"} = 1 .. c /\ Opens(s, c)
    BY <1>9, ConnectFacts
  <2> QED
    BY <1>1, <2>1 DEF Opens, PcMove, LiveStates, SendStates
<1>10. CASE Crash
  <2>1. /\ pc' = [c \in Conn |-> IF pc[c] = "idle" THEN "idle" ELSE "ended"]
        /\ UNCHANGED owner /\ tasks' = [t \in Task |-> Idle]
    BY <1>10 DEF Crash
  <2> QED
    BY <2>1, TaskKinds DEF PcMove, LiveStates, SendStates, Idle
<1>11. ASSUME UNCHANGED <<pc, owner>>
      PROVE  \A d \in Conn : PcMove(d)
  BY <1>11 DEF PcMove
<1>12. ASSUME NEW c \in Conn, Break(c)
      PROVE  UNCHANGED <<pc, owner>>
  BY <1>12 DEF Break, handlers
<1>13. ASSUME NEW t \in Task, BeginSend(t) \/ TakeLock(t)
      PROVE  UNCHANGED <<pc, owner>>
  BY <1>13 DEF BeginSend, TakeLock, handlers
<1>14. ASSUME NEW e \in Event, ProcessAndBroadcast(e) \/ RecoverEffect(e)
      PROVE  UNCHANGED <<pc, owner>>
  BY <1>14 DEF ProcessAndBroadcast, RecoverEffect, handlers
<1>15. ASSUME NEW s \in Session, ReceiveEffect(s)
      PROVE  UNCHANGED <<pc, owner>>
  BY <1>15 DEF ReceiveEffect, handlers
<1>16. ASSUME Restart \/ UNCHANGED vars
      PROVE  UNCHANGED <<pc, owner>>
  BY <1>16 DEF Restart, vars, handlers
<1> QED
  BY <1>3, <1>4, <1>5, <1>6, <1>7, <1>8, <1>9, <1>10, <1>11, <1>12, <1>13, <1>14, <1>15, <1>16
  DEF Next, Handle, Send, Document

LEMMA RegistryMoves ==
  ASSUME HubInv, [Next]_vars
  PROVE  \A d \in Session : RegistryMove(d)
<1>1. registry \in [Session -> Conn \cup {None}] /\ link \in [Conn -> {"none", "open", "closed"}]
  BY TypeParts DEF HubInv, HandlerTypes, WireTypes
<1>2. ASSUME NEW s, NEW c \in Conn, RemoveConnection(s, c), link'[c] = "closed"
      PROVE  \A d \in Session : RegistryMove(d)
  BY <1>1, <1>2 DEF RemoveConnection, RegistryMove, None
<1>3. ASSUME NEW c \in Conn, HandlerDies(c) PROVE link'[c] = "closed"
  BY <1>1, <1>3 DEF HandlerDies
<1>4. ASSUME NEW c \in Conn, Register(c)
      PROVE  \A d \in Session : RegistryMove(d)
  <2>1. /\ owner[c] \in Session /\ pc[c] = "accepting"
        /\ registry' = [registry EXCEPT ![owner[c]] = c]
        /\ registry[owner[c]] # None => link' = [link EXCEPT ![registry[owner[c]]] = "closed"]
    BY <1>4 DEF Register, HubInv, Sockets
  <2> QED
    BY <1>1, <1>4, <2>1 DEF RegistryMove
<1>5. ASSUME NEW c \in Conn, Disconnect(c) \/ DisconnectFails(c) \/ HandleRenderAckFails(c)
      PROVE  \A d \in Session : RegistryMove(d)
  <2>1. /\ RemoveConnection(owner[c], c)
        /\ link'[c] = "closed"
    BY <1>1, <1>5 DEF Disconnect, DisconnectFails, HandleRenderAckFails, EndHandler
  <2> QED
    BY <1>2, <2>1
<1>6. ASSUME NEW t \in Task, SendFails(t)
      PROVE  \A d \in Session : RegistryMove(d)
  <2>1. RemoveConnection(SessionOf(t), tasks[t].to) /\ link'[tasks[t].to] = "closed"
    BY <1>6 DEF SendFails, network
  <2>2. tasks[t].to \in Conn
    BY <1>6 DEF SendFails, HubInv, TypeOK
  <2> QED
    BY <1>2, <2>1, <2>2
<1>7. ASSUME NEW t \in Task, SendRaises(t)
      PROVE  \A d \in Session : RegistryMove(d)
  <2>1. CASE UNCHANGED registry
    BY <2>1 DEF RegistryMove
  <2>2. CASE /\ tasks[t].stage = "sending" /\ link[tasks[t].to] = "closed"
             /\ RemoveConnection(SessionOf(t), tasks[t].to)
    <3>1. tasks[t].to \in Conn
      BY <2>2 DEF HubInv, TypeOK
    <3>2. link'[tasks[t].to] = "closed"
      <4>1. Raise(t)
        BY <1>7 DEF SendRaises
      <4>2. CASE UNCHANGED link
        BY <2>2, <4>2
      <4>3. CASE \E c \in Conn : HandlerDies(c)
        BY <1>1, <2>2, <3>1, <4>3 DEF HandlerDies
      <4> QED
        BY <4>1, <4>2, <4>3, RaiseFacts DEF HubInv
    <3> QED
      BY <1>2, <2>2, <3>1, <3>2
  <2> QED
    BY <1>7, <2>1, <2>2 DEF SendRaises
<1>8. CASE Crash
  <2>1. /\ registry' = [s \in Session |-> None]
        /\ link' = [c \in Conn |-> IF link[c] = "none" THEN "none" ELSE "closed"]
    BY <1>8 DEF Crash
  <2>2. ASSUME NEW s \in Session, registry[s] # None
        PROVE  link'[registry[s]] # "open"
    BY <1>1, <2>1, <2>2
  <2> QED
    BY <2>1, <2>2 DEF RegistryMove
<1>9. ASSUME UNCHANGED registry
      PROVE  \A d \in Session : RegistryMove(d)
  BY <1>9 DEF RegistryMove
<1>10. ASSUME NEW c \in Conn, AcceptFails(c) \/ OpenFails(c) \/ PreviousClosed(c)
                              \/ PreviousCloseRaises(c) \/ HandleRenderAck(c) \/ Break(c)
      PROVE  UNCHANGED registry
  BY <1>10 DEF AcceptFails, OpenFails, PreviousClosed, PreviousCloseRaises, HandleRenderAck,
    Break, handlers
<1>11. ASSUME NEW t \in Task, BeginSend(t) \/ TakeLock(t) \/ NoConnection(t) \/ SendReturns(t)
      PROVE  UNCHANGED registry
  BY <1>11 DEF BeginSend, TakeLock, NoConnection, SendReturns, Finish, handlers
<1>12. ASSUME NEW e \in Event, ProcessAndBroadcast(e) \/ RecoverEffect(e)
      PROVE  UNCHANGED registry
  BY <1>12 DEF ProcessAndBroadcast, RecoverEffect, handlers
<1>13. ASSUME NEW s \in Session, Connect(s) \/ ReceiveEffect(s)
      PROVE  UNCHANGED registry
  BY <1>13 DEF Connect, ReceiveEffect, handlers
<1>14. ASSUME Restart \/ UNCHANGED vars
      PROVE  UNCHANGED registry
  BY <1>14 DEF Restart, vars, handlers
<1> QED
  BY <1>4, <1>5, <1>6, <1>7, <1>8, <1>9, <1>10, <1>11, <1>12, <1>13, <1>14
  DEF Next, Handle, Send, Document

LEMMA WireMoves ==
  ASSUME HubInv, [Next]_vars
  PROVE  \A d \in Conn : WireMove(d)
<1>1. /\ link \in [Conn -> {"none", "open", "closed"}]
      /\ toBrowser \in [Conn -> Seq(Event)] /\ toServer \in [Conn -> Seq(Event)]
  BY TypeParts DEF HubInv, WireTypes
<1>2. ASSUME NEW c \in Conn, pc[c] # "idle", HandlerDies(c)
      PROVE  \A d \in Conn : WireMove(d)
  BY <1>1, <1>2 DEF HandlerDies, Forget, WireMove
<1>3. ASSUME NEW t \in Task, NEW c \in Conn, pc[c] # "idle", Transmit(t, c),
             UNCHANGED <<link, toServer>>
      PROVE  \A d \in Conn : WireMove(d)
  <2>1. \A d \in Conn : d # c => toBrowser'[d] = toBrowser[d]
    BY <1>1, <1>3 DEF Transmit
  <2> QED
    BY <1>3, <2>1 DEF WireMove
<1>4. ASSUME NEW c \in Conn, Register(c)
      PROVE  \A d \in Conn : WireMove(d)
  <2>1. /\ \/ UNCHANGED <<link, toBrowser>>
           \/ /\ registry[owner[c]] # None
              /\ link' = [link EXCEPT ![registry[owner[c]]] = "closed"]
              /\ toBrowser' = [toBrowser EXCEPT ![registry[owner[c]]] = <<>>]
        /\ UNCHANGED toServer /\ owner[c] \in Session
    BY <1>4 DEF Register, HubInv, Sockets
  <2>2. registry[owner[c]] # None => pc[registry[owner[c]]] # "idle"
    BY <2>1 DEF HubInv, Owned
  <2>3. \A d \in Conn : pc[d] = "idle" =>
          link'[d] = link[d] /\ toBrowser'[d] = toBrowser[d] /\ toServer'[d] = toServer[d]
    BY <1>1, <2>1, <2>2
  <2>4. \A d \in Conn : link'[d] = "open" => link[d] = "open"
    BY <1>1, <2>1
  <2> QED
    BY <2>3, <2>4 DEF WireMove
<1>5. ASSUME NEW c \in Conn, OpenFails(c) \/ PreviousCloseRaises(c)
      PROVE  \A d \in Conn : WireMove(d)
  BY <1>2, <1>5 DEF OpenFails, PreviousCloseRaises
<1>6. ASSUME NEW c \in Conn, Disconnect(c) \/ DisconnectFails(c)
      PROVE  \A d \in Conn : WireMove(d)
  <2>1. pc[c] # "idle" /\ Forget(c) /\ UNCHANGED <<link, toBrowser>>
    BY <1>6 DEF Disconnect, DisconnectFails, EndHandler
  <2> QED
    BY <1>1, <2>1 DEF Forget, WireMove
<1>7. ASSUME NEW c \in Conn, HandleRenderAckFails(c)
      PROVE  \A d \in Conn : WireMove(d)
  <2>1. /\ pc[c] # "idle" /\ Forget(c)
        /\ link' = [link EXCEPT ![c] = "closed"]
        /\ toBrowser' = [toBrowser EXCEPT ![c] = <<>>]
    BY <1>7 DEF HandleRenderAckFails, EndHandler
  <2> QED
    BY <1>1, <2>1 DEF Forget, WireMove
<1>8. ASSUME NEW c \in Conn, HandleRenderAck(c)
      PROVE  \A d \in Conn : WireMove(d)
  <2>1. /\ pc[c] # "idle" /\ toServer' = [toServer EXCEPT ![c] = Tail(toServer[c])]
        /\ UNCHANGED <<link, toBrowser>>
    BY <1>8 DEF HandleRenderAck
  <2> QED
    BY <1>1, <2>1 DEF WireMove
<1>9. ASSUME NEW c \in Conn, Break(c)
      PROVE  \A d \in Conn : WireMove(d)
  <2>1. pc[c] # "idle"
    BY <1>9 DEF Break, HubInv, Sockets
  <2> QED
    BY <1>1, <2>1, <1>9 DEF Break, WireMove
<1>10. ASSUME NEW t \in Task, BeginSend(t)
      PROVE  \A d \in Conn : WireMove(d)
  <2>1. registry[SessionOf(t)] \in Conn /\ pc[registry[SessionOf(t)]] # "idle"
    <3>1. registry[SessionOf(t)] # None /\ SessionOf(t) \in Session
      BY <1>10, SendIsActive, SenderSession DEF Send, BeginSend
    <3> QED
      BY <3>1 DEF HubInv, TypeOK, Owned
  <2>2. /\ Transmit(t, registry[SessionOf(t)]) \/ UNCHANGED toBrowser
        /\ UNCHANGED <<link, toServer>>
    BY <1>10 DEF BeginSend
  <2>3. CASE UNCHANGED toBrowser
    BY <2>2, <2>3 DEF WireMove
  <2> QED
    BY <1>3, <2>1, <2>2, <2>3
<1>11. ASSUME NEW t \in Task, TakeLock(t)
      PROVE  \A d \in Conn : WireMove(d)
  <2>1. tasks[t].to \in Conn /\ pc[tasks[t].to] # "idle"
    BY <1>11 DEF TakeLock, HubInv, TypeOK, Owned
  <2>2. Transmit(t, tasks[t].to) /\ UNCHANGED <<link, toServer>>
    BY <1>11 DEF TakeLock
  <2> QED
    BY <1>3, <2>1, <2>2
<1>12. ASSUME NEW t \in Task, SendRaises(t)
      PROVE  \A d \in Conn : WireMove(d)
  <2>1. Raise(t) /\ tasks[t].stage # "off"
    BY <1>12, SendIsActive DEF SendRaises, Send
  <2>2. CASE \E c \in Conn : t = HandlerTask(c) /\ HandlerDies(c)
    BY <1>2, <2>1, <2>2 DEF HubInv, Tasked, SendStates
  <2>3. CASE UNCHANGED <<link, toBrowser, toServer>>
    BY <2>3 DEF WireMove
  <2> QED
    BY <2>1, <2>2, <2>3, RaiseFacts DEF HubInv
<1>13. ASSUME NEW s \in Session, Connect(s)
      PROVE  \A d \in Conn : WireMove(d)
  <2>1. PICK c \in Conn : pc[c] = "idle" /\ {d \in Conn : pc'[d] # "idle"} = 1 .. c /\ Opens(s, c)
    BY <1>13, ConnectFacts
  <2>2. pc'[c] = "accepting"
    BY <2>1 DEF Opens, HubInv, TypeOK
  <2>3. link' = [link EXCEPT ![c] = "open"] /\ UNCHANGED <<toBrowser, toServer>>
    BY <2>1, <1>13 DEF Opens, Connect
  <2> QED
    BY <1>1, <2>1, <2>2, <2>3 DEF WireMove
<1>14. ASSUME NEW s \in Session, ReceiveEffect(s)
      PROVE  \A d \in Conn : WireMove(d)
  <2>1. client[s] # None /\ UNCHANGED link /\ pc[client[s]] # "idle"
    BY <1>14 DEF ReceiveEffect, HubInv, Owned
  <2>2. /\ toBrowser' = [toBrowser EXCEPT ![client[s]] = Tail(toBrowser[client[s]])]
        /\ toServer' = [toServer EXCEPT ![client[s]] =
                          Append(toServer[client[s]], Head(toBrowser[client[s]]))]
    BY <1>14 DEF ReceiveEffect
  <2>3. \A d \in Conn : d # client[s] => toBrowser'[d] = toBrowser[d] /\ toServer'[d] = toServer[d]
    BY <1>1, <2>2
  <2> QED
    BY <2>1, <2>3 DEF WireMove
<1>15. CASE Crash
  <2>1. /\ link' = [c \in Conn |-> IF link[c] = "none" THEN "none" ELSE "closed"]
        /\ toBrowser' = [c \in Conn |-> <<>>]
        /\ toServer' = [c \in Conn |-> <<>>]
    BY <1>15 DEF Crash
  <2> QED
    BY <2>1 DEF WireMove, HubInv, Sockets
<1>16. ASSUME UNCHANGED <<link, toBrowser, toServer>>
      PROVE  \A d \in Conn : WireMove(d)
  BY <1>16 DEF WireMove
<1>17. ASSUME NEW c \in Conn, AcceptFails(c) \/ PreviousClosed(c)
      PROVE  UNCHANGED <<link, toBrowser, toServer>>
  BY <1>17 DEF AcceptFails, PreviousClosed, network
<1>18. ASSUME NEW t \in Task, NoConnection(t) \/ SendReturns(t) \/ SendFails(t)
      PROVE  UNCHANGED <<link, toBrowser, toServer>>
  BY <1>18 DEF NoConnection, SendReturns, SendFails, Finish, network
<1>19. ASSUME NEW e \in Event, ProcessAndBroadcast(e) \/ RecoverEffect(e)
      PROVE  UNCHANGED <<link, toBrowser, toServer>>
  BY <1>19 DEF ProcessAndBroadcast, RecoverEffect, network
<1>20. ASSUME Restart \/ UNCHANGED vars
      PROVE  UNCHANGED <<link, toBrowser, toServer>>
  BY <1>20 DEF Restart, vars, network
<1> QED
  BY <1>4, <1>5, <1>6, <1>7, <1>8, <1>9, <1>10, <1>11, <1>12, <1>13, <1>14, <1>15, <1>16, <1>17,
    <1>18, <1>19, <1>20 DEF Next, Handle, Send, Document

LEMMA TaskMoves ==
  ASSUME HubInv, [Next]_vars
  PROVE  \A u \in Task : TaskMove(u)
<1>1. tasks \in [Task -> TaskStates]
  BY TypeParts DEF HubInv, TaskTypes
<1>2. ASSUME NEW t \in Task, tasks' = [tasks EXCEPT ![t] = Idle]
      PROVE  \A u \in Task : TaskMove(u)
  <2>1. \A u \in Task : tasks'[u] = tasks[u] \/ tasks'[u] = Idle
    BY <1>1, <1>2
  <2> QED
    BY <1>1, <2>1 DEF TaskMove, Idle
<1>3. ASSUME NEW c \in Conn, NEW item \in {Ready, Reply}, StartTask(c, item), pc'[c] \in SendStates
      PROVE  \A u \in Task : TaskMove(u)
  <2>1. /\ \A u \in Task : u # HandlerTask(c) => tasks'[u] = tasks[u]
        /\ tasks'[HandlerTask(c)] = [stage |-> "start", item |-> item, to |-> None]
    BY <1>1, <1>3, TaskKinds DEF StartTask
  <2> QED
    BY <1>3, <2>1 DEF TaskMove
<1>4. ASSUME UNCHANGED tasks
      PROVE  \A u \in Task : TaskMove(u)
  BY <1>4 DEF TaskMove
<1>5. ASSUME NEW t \in Task, NEW c, NEW stage \in {"waiting", "sending"},
             tasks' = [tasks EXCEPT ![t].stage = stage, ![t].to = c],
             \/ tasks[t].stage = "waiting" /\ c = tasks[t].to
             \/ tasks[t].stage = "start" /\ c = registry[SessionOf(t)] /\ c # None
      PROVE  \A u \in Task : TaskMove(u)
  <2>1. /\ \A u \in Task : u # t => tasks'[u] = tasks[u]
        /\ tasks'[t].stage = stage /\ tasks'[t].to = c /\ tasks'[t].item = tasks[t].item
    BY <1>1, <1>5 DEF TaskStates
  <2> QED
    BY <1>5, <2>1 DEF TaskMove
<1>6. ASSUME NEW c \in Conn, Register(c) \/ PreviousClosed(c) \/ HandleRenderAck(c)
      PROVE  \A u \in Task : TaskMove(u)
  <2>1. /\ pc \in [Conn -> PcStates]
        /\ \/ UNCHANGED tasks
           \/ pc' = [pc EXCEPT ![c] = "greeting"] /\ StartTask(c, Ready)
           \/ pc' = [pc EXCEPT ![c] = "replying"] /\ StartTask(c, Reply)
    BY <1>6, TypeParts DEF Register, PreviousClosed, HandleRenderAck, HubInv, HandlerTypes
  <2> QED
    BY <1>3, <1>4, <2>1 DEF SendStates
<1>7. ASSUME NEW c \in Conn, OpenFails(c) \/ PreviousCloseRaises(c)
      PROVE  \A u \in Task : TaskMove(u)
  <2>1. tasks' = [tasks EXCEPT ![HandlerTask(c)] = Idle]
    BY <1>7 DEF OpenFails, PreviousCloseRaises, HandlerDies
  <2> QED
    BY <1>2, <2>1, TaskKinds
<1>8. ASSUME NEW t \in Task, BeginSend(t)
      PROVE  \A u \in Task : TaskMove(u)
  <2>1. \E stage \in {"waiting", "sending"} :
          tasks' = [tasks EXCEPT ![t].stage = stage, ![t].to = registry[SessionOf(t)]]
    BY <1>8 DEF BeginSend, Transmit
  <2>2. tasks[t].stage = "start" /\ registry[SessionOf(t)] # None
    BY <1>8 DEF BeginSend
  <2> QED
    BY <1>5, <2>1, <2>2
<1>9. ASSUME NEW t \in Task, TakeLock(t)
      PROVE  \A u \in Task : TaskMove(u)
  <2>1. tasks' = [tasks EXCEPT ![t].stage = "sending", ![t].to = tasks[t].to]
    BY <1>9 DEF TakeLock, Transmit
  <2>2. tasks[t].stage = "waiting"
    BY <1>9 DEF TakeLock
  <2> QED
    BY <1>5, <2>1, <2>2
<1>10. ASSUME NEW t \in Task, NoConnection(t) \/ SendReturns(t) \/ SendFails(t)
      PROVE  \A u \in Task : TaskMove(u)
  <2>1. Finish(t) /\ tasks[t].stage # "off" /\ UNCHANGED <<processed, acks>>
    BY <1>10, SendIsActive DEF NoConnection, SendReturns, SendFails, Send
  <2>2. ASSUME NEW u \in Task, u # t
        PROVE  TaskMove(u)
    <3>1. tasks'[u] = tasks[u]
      BY <2>1, <2>2, FinishFacts
    <3> QED
      BY <3>1 DEF TaskMove
  <2>3. ASSUME NEW c \in Conn, t = HandlerTask(c)
        PROVE  TaskMove(t)
    <3>1. CASE pc'[c] = "replaying" /\ tasks'[t].stage = "start" /\ tasks'[t].item \in Rest(c)
      <4>1. Rest(c) \subseteq processed
        BY DEF Rest, Pending, HubInv, Tasked
      <4> QED
        BY <2>3, <3>1, <4>1 DEF TaskMove, SendStates
    <3>2. CASE tasks'[t] = Idle
      BY <3>2 DEF TaskMove, Idle
    <3> QED
      BY <2>1, <2>3, <3>1, <3>2, FinishFacts
  <2>4. ASSUME NEW e \in Event, NEW s \in Session, t = CastTask(e, s)
        PROVE  TaskMove(t)
    <3>1. tasks'[t] = Idle
      BY <2>1, <2>4, FinishFacts
    <3> QED
      BY <3>1 DEF TaskMove, Idle
  <2> QED
    BY <2>2, <2>3, <2>4, TaskKinds
<1>11. ASSUME NEW t \in Task, SendRaises(t)
      PROVE  \A u \in Task : TaskMove(u)
  <2>1. Raise(t)
    BY <1>11 DEF SendRaises
  <2>2. tasks' = [tasks EXCEPT ![t] = Idle]
    BY <2>1, RaiseFacts DEF HubInv
  <2> QED
    BY <1>2, <2>2
<1>12. ASSUME NEW e \in Event, ProcessAndBroadcast(e)
      PROVE  \A u \in Task : TaskMove(u)
  <2>1. ASSUME NEW u \in Task, ~ (\E s \in Session : u = CastTask(e, s))
        PROVE  tasks'[u] = tasks[u]
    BY <1>12, <2>1 DEF ProcessAndBroadcast
  <2>2. ASSUME NEW s \in Session, NEW u \in Task, u = CastTask(e, s)
        PROVE  tasks'[u] \in {tasks[u], [stage |-> "start", item |-> e, to |-> None]}
    BY <1>12, <2>2 DEF ProcessAndBroadcast
  <2>3. e \in processed'
    BY <1>12 DEF ProcessAndBroadcast
  <2>4. ASSUME NEW u \in Task PROVE TaskMove(u)
    <3>1. CASE tasks'[u] = tasks[u]
      BY <3>1 DEF TaskMove
    <3>2. CASE tasks'[u] # tasks[u]
      <4>1. PICK s \in Session : u = CastTask(e, s)
        BY <2>1, <3>2
      <4>2. tasks'[u] = [stage |-> "start", item |-> e, to |-> None]
        BY <2>2, <3>2, <4>1
      <4> QED
        BY <2>3, <4>1, <4>2 DEF TaskMove
    <3> QED
      BY <3>1, <3>2
  <2> QED
    BY <2>4
<1>13. CASE Crash
  <2>1. \A u \in Task : tasks'[u] = Idle
    BY <1>13 DEF Crash
  <2> QED
    BY <2>1 DEF TaskMove, Idle
<1>14. ASSUME UNCHANGED tasks
      PROVE  \A u \in Task : TaskMove(u)
  BY <1>14 DEF TaskMove
<1>15. ASSUME NEW c \in Conn, AcceptFails(c) \/ Disconnect(c) \/ DisconnectFails(c)
                              \/ HandleRenderAckFails(c) \/ Break(c)
      PROVE  UNCHANGED tasks
  BY <1>15 DEF AcceptFails, Disconnect, DisconnectFails, HandleRenderAckFails, Break
<1>16. ASSUME NEW e \in Event, RecoverEffect(e)
      PROVE  UNCHANGED tasks
  BY <1>16 DEF RecoverEffect
<1>17. ASSUME NEW s \in Session, Connect(s) \/ ReceiveEffect(s)
      PROVE  UNCHANGED tasks
  BY <1>17 DEF Connect, ReceiveEffect
<1>18. ASSUME Restart \/ UNCHANGED vars
      PROVE  UNCHANGED tasks
  BY <1>18 DEF Restart, vars
<1> QED
  BY <1>6, <1>7, <1>8, <1>9, <1>10, <1>11, <1>12, <1>13, <1>14, <1>15, <1>16, <1>17, <1>18
  DEF Next, Handle, Send, Document

\* Only a document's connection takes an unused number.
LEMMA UnusedStays ==
  ASSUME HubInv, [Next]_vars, \A s \in Session : ~ Connect(s)
  PROVE  \A d \in Conn : pc[d] = "idle" => pc'[d] = "idle"
<1>1. pc \in [Conn -> PcStates]
  BY TypeParts DEF HubInv, HandlerTypes
<1>2. ASSUME NEW c \in Conn, NEW state \in PcStates, pc[c] # "idle",
             pc' = [pc EXCEPT ![c] = state]
      PROVE  \A d \in Conn : pc[d] = "idle" => pc'[d] = "idle"
  BY <1>1, <1>2
<1>3. ASSUME NEW c \in Conn, Register(c) \/ AcceptFails(c) \/ OpenFails(c)
                             \/ PreviousClosed(c) \/ PreviousCloseRaises(c) \/ Disconnect(c)
                             \/ DisconnectFails(c) \/ HandleRenderAck(c)
                             \/ HandleRenderAckFails(c)
      PROVE  \A d \in Conn : pc[d] = "idle" => pc'[d] = "idle"
  <2>1. /\ pc[c] \in {"accepting", "replacing", "serving"}
        /\ \E state \in PcStates : pc' = [pc EXCEPT ![c] = state]
    BY <1>3
    DEF Register, AcceptFails, OpenFails, HandlerDies, PreviousClosed, PreviousCloseRaises,
      Disconnect, DisconnectFails, EndHandler, HandleRenderAck, HandleRenderAckFails, PcStates
  <2> QED
    BY <1>2, <2>1
<1>4. ASSUME NEW t \in Task, NoConnection(t) \/ SendReturns(t) \/ SendFails(t)
      PROVE  \A d \in Conn : pc[d] = "idle" => pc'[d] = "idle"
  <2>1. Finish(t) /\ tasks[t].stage # "off"
    BY <1>4, SendIsActive DEF NoConnection, SendReturns, SendFails, Send
  <2>2. ASSUME NEW d \in Conn, pc[d] = "idle"
        PROVE  pc'[d] = "idle"
    <3>1. t # HandlerTask(d)
      BY <2>1, <2>2 DEF HubInv, Tasked, SendStates
    <3> QED
      BY <2>1, <2>2, <3>1, FinishFacts
  <2> QED
    BY <2>2
<1>5. ASSUME NEW t \in Task, SendRaises(t)
      PROVE  \A d \in Conn : pc[d] = "idle" => pc'[d] = "idle"
  <2>1. Raise(t) /\ tasks[t].stage # "off"
    BY <1>5, SendIsActive DEF SendRaises, Send
  <2>2. CASE \E c \in Conn : t = HandlerTask(c) /\ HandlerDies(c)
    <3>1. PICK c \in Conn : t = HandlerTask(c) /\ HandlerDies(c)
      BY <2>2
    <3>2. pc[c] # "idle" /\ pc' = [pc EXCEPT ![c] = "ended"] /\ "ended" \in PcStates
      BY <2>1, <3>1 DEF HubInv, Tasked, SendStates, HandlerDies, PcStates
    <3> QED
      BY <1>2, <3>2
  <2>3. CASE UNCHANGED pc
    BY <2>3
  <2> QED
    BY <2>1, <2>2, <2>3, RaiseFacts DEF HubInv
<1>6. ASSUME NEW s \in Session, Connect(s)
      PROVE  \A d \in Conn : pc[d] = "idle" => pc'[d] = "idle"
  BY <1>6
<1>7. CASE Crash
  BY <1>7 DEF Crash
<1>8. ASSUME UNCHANGED pc
      PROVE  \A d \in Conn : pc[d] = "idle" => pc'[d] = "idle"
  BY <1>8
<1>9. ASSUME NEW c \in Conn, Break(c)
      PROVE  UNCHANGED pc
  BY <1>9 DEF Break, handlers
<1>10. ASSUME NEW t \in Task, BeginSend(t) \/ TakeLock(t)
      PROVE  UNCHANGED pc
  BY <1>10 DEF BeginSend, TakeLock, handlers
<1>11. ASSUME NEW e \in Event, ProcessAndBroadcast(e) \/ RecoverEffect(e)
      PROVE  UNCHANGED pc
  BY <1>11 DEF ProcessAndBroadcast, RecoverEffect, handlers
<1>12. ASSUME NEW s \in Session, ReceiveEffect(s)
      PROVE  UNCHANGED pc
  BY <1>12 DEF ReceiveEffect, handlers
<1>13. ASSUME Restart \/ UNCHANGED vars
      PROVE  UNCHANGED pc
  BY <1>13 DEF Restart, vars, handlers
<1> QED
  BY <1>3, <1>4, <1>5, <1>6, <1>7, <1>8, <1>9, <1>10, <1>11, <1>12, <1>13
  DEF Next, Handle, Send, Document

LEMMA ProcessedGrows ==
  ASSUME [Next]_vars
  PROVE  processed \subseteq processed'
<1>1. ASSUME NEW e \in Event, ProcessAndBroadcast(e) \/ RecoverEffect(e)
      PROVE  processed \subseteq processed'
  BY <1>1 DEF ProcessAndBroadcast, RecoverEffect
<1>2. ASSUME UNCHANGED processed
      PROVE  processed \subseteq processed'
  BY <1>2
<1>3. ASSUME NEW c \in Conn, Register(c) \/ AcceptFails(c) \/ OpenFails(c)
                             \/ PreviousClosed(c) \/ PreviousCloseRaises(c) \/ Disconnect(c)
                             \/ DisconnectFails(c) \/ HandleRenderAck(c)
                             \/ HandleRenderAckFails(c) \/ Break(c)
      PROVE  UNCHANGED processed
  BY <1>3 DEF Register, AcceptFails, OpenFails, PreviousClosed, PreviousCloseRaises, Disconnect,
    DisconnectFails, HandleRenderAck, HandleRenderAckFails, Break, database
<1>4. ASSUME NEW t \in Task, BeginSend(t) \/ TakeLock(t) \/ NoConnection(t) \/ SendReturns(t)
                             \/ SendFails(t) \/ SendRaises(t)
      PROVE  UNCHANGED processed
  BY <1>4 DEF BeginSend, TakeLock, NoConnection, SendReturns, SendFails, SendRaises, Finish,
    Raise, database
<1>5. ASSUME NEW s \in Session, Connect(s) \/ ReceiveEffect(s)
      PROVE  UNCHANGED processed
  BY <1>5 DEF Connect, ReceiveEffect, database
<1>6. ASSUME Crash \/ Restart \/ UNCHANGED vars
      PROVE  UNCHANGED processed
  BY <1>6 DEF Crash, Restart, vars, database
<1> QED
  BY <1>1, <1>2, <1>3, <1>4, <1>5, <1>6 DEF Next, Handle, Send, Document

LEMMA ClientMoves ==
  ASSUME HubInv, [Next]_vars
  PROVE  \A u \in Session : client'[u] # client[u] =>
           pc'[client'[u]] # "idle" /\ owner'[client'[u]] = u
<1>1. ASSUME NEW s \in Session, Connect(s)
      PROVE  \A u \in Session : client'[u] # client[u] =>
           pc'[client'[u]] # "idle" /\ owner'[client'[u]] = u
  <2>1. PICK c \in Conn : pc[c] = "idle" /\ {d \in Conn : pc'[d] # "idle"} = 1 .. c /\ Opens(s, c)
    BY <1>1, ConnectFacts
  <2>2. /\ pc \in [Conn -> PcStates] /\ owner \in [Conn -> Session \cup {None}]
        /\ client \in [Session -> Conn \cup {None}]
    BY TypeParts DEF HubInv, HandlerTypes
  <2> QED
    BY <2>1, <2>2 DEF Opens
<1>2. ASSUME UNCHANGED client
      PROVE  \A u \in Session : client'[u] # client[u] =>
           pc'[client'[u]] # "idle" /\ owner'[client'[u]] = u
  BY <1>2
<1>3. ASSUME NEW c \in Conn, Register(c) \/ AcceptFails(c) \/ OpenFails(c)
                             \/ PreviousClosed(c) \/ PreviousCloseRaises(c) \/ Disconnect(c)
                             \/ DisconnectFails(c) \/ HandleRenderAck(c)
                             \/ HandleRenderAckFails(c) \/ Break(c)
      PROVE  UNCHANGED client
  BY <1>3 DEF Register, AcceptFails, OpenFails, PreviousClosed, PreviousCloseRaises, Disconnect,
    DisconnectFails, HandleRenderAck, HandleRenderAckFails, Break, browser
<1>4. ASSUME NEW t \in Task, BeginSend(t) \/ TakeLock(t) \/ NoConnection(t) \/ SendReturns(t)
                             \/ SendFails(t) \/ SendRaises(t)
      PROVE  UNCHANGED client
  BY <1>4 DEF BeginSend, TakeLock, NoConnection, SendReturns, SendFails, SendRaises, Finish,
    Raise, browser
<1>5. ASSUME NEW e \in Event, ProcessAndBroadcast(e) \/ RecoverEffect(e)
      PROVE  UNCHANGED client
  BY <1>5 DEF ProcessAndBroadcast, RecoverEffect, browser
<1>6. ASSUME NEW s \in Session, ReceiveEffect(s)
      PROVE  UNCHANGED client
  BY <1>6 DEF ReceiveEffect
<1>7. ASSUME Crash \/ Restart \/ UNCHANGED vars
      PROVE  UNCHANGED client
  BY <1>7 DEF Crash, Restart, vars, browser
<1> QED
  BY <1>1, <1>2, <1>3, <1>4, <1>5, <1>6, <1>7 DEF Next, Handle, Send, Document

LEMMA ReplayMoves ==
  ASSUME HubInv, [Next]_vars
  PROVE  \A k \in Conn : replay'[k] \subseteq replay[k] \cup processed
<1>1. replay \in [Conn -> SUBSET Event]
  BY DEF HubInv, TypeOK
<1>2. ASSUME NEW d \in Conn, replay' = [replay EXCEPT ![d] = {}]
      PROVE  \A k \in Conn : replay'[k] \subseteq replay[k] \cup processed
  BY <1>1, <1>2
<1>3. ASSUME NEW c \in Conn, OpenFails(c) \/ PreviousCloseRaises(c) \/ Disconnect(c)
                             \/ DisconnectFails(c) \/ HandleRenderAckFails(c)
      PROVE  \A k \in Conn : replay'[k] \subseteq replay[k] \cup processed
  <2>1. replay' = [replay EXCEPT ![c] = {}]
    BY <1>3
    DEF OpenFails, HandlerDies, PreviousCloseRaises, Disconnect, DisconnectFails, EndHandler,
      HandleRenderAckFails, Forget
  <2> QED
    BY <1>2, <2>1
<1>4. ASSUME NEW t \in Task, NoConnection(t) \/ SendReturns(t) \/ SendFails(t)
      PROVE  \A k \in Conn : replay'[k] \subseteq replay[k] \cup processed
  <2>1. Finish(t) /\ tasks[t].stage # "off"
    BY <1>4, SendIsActive DEF NoConnection, SendReturns, SendFails, Send
  <2>2. ASSUME NEW c \in Conn
        PROVE  replay'[c] \subseteq replay[c] \cup processed
    <3>1. Rest(c) \subseteq replay[c] \cup processed
      BY DEF Rest, Pending
    <3>2. replay'[c] = replay[c] \/ replay'[c] \subseteq Rest(c)
      BY <2>1, FinishFacts
    <3> QED
      BY <3>1, <3>2
  <2> QED
    BY <2>2
<1>5. ASSUME NEW t \in Task, SendRaises(t)
      PROVE  \A k \in Conn : replay'[k] \subseteq replay[k] \cup processed
  <2>1. Raise(t)
    BY <1>5 DEF SendRaises
  <2>2. ASSUME NEW c \in Conn, HandlerDies(c)
        PROVE  \A k \in Conn : replay'[k] \subseteq replay[k] \cup processed
    BY <1>2, <2>2 DEF HandlerDies, Forget
  <2> QED
    BY <2>1, <2>2, RaiseFacts DEF HubInv
<1>6. CASE Crash
  BY <1>6 DEF Crash
<1>7. ASSUME UNCHANGED replay
      PROVE  \A k \in Conn : replay'[k] \subseteq replay[k] \cup processed
  BY <1>7
<1>8. ASSUME NEW c \in Conn, Register(c) \/ AcceptFails(c) \/ PreviousClosed(c)
                             \/ HandleRenderAck(c) \/ Break(c)
      PROVE  UNCHANGED replay
  BY <1>8 DEF Register, AcceptFails, PreviousClosed, HandleRenderAck, Break, handlers
<1>9. ASSUME NEW t \in Task, BeginSend(t) \/ TakeLock(t)
      PROVE  UNCHANGED replay
  BY <1>9 DEF BeginSend, TakeLock, handlers
<1>10. ASSUME NEW e \in Event, ProcessAndBroadcast(e) \/ RecoverEffect(e)
      PROVE  UNCHANGED replay
  BY <1>10 DEF ProcessAndBroadcast, RecoverEffect, handlers
<1>11. ASSUME NEW s \in Session, Connect(s) \/ ReceiveEffect(s)
      PROVE  UNCHANGED replay
  BY <1>11 DEF Connect, ReceiveEffect, handlers
<1>12. ASSUME Restart \/ UNCHANGED vars
      PROVE  UNCHANGED replay
  BY <1>12 DEF Restart, vars, handlers
<1> QED
  BY <1>3, <1>4, <1>5, <1>6, <1>7, <1>8, <1>9, <1>10, <1>11, <1>12
  DEF Next, Handle, Send, Document

\* A send stays with its session.
LEMMA SessionStays ==
  ASSUME HubInv, [Next]_vars, NEW t \in Task, tasks[t].stage # "off"
  PROVE  SessionOf(t)' = SessionOf(t)
<1>1. ASSUME NEW c \in Conn, t = HandlerTask(c)
      PROVE  SessionOf(t)' = SessionOf(t)
  <2>1. pc[c] # "idle"
    BY <1>1 DEF HubInv, Tasked, SendStates
  <2>2. owner'[c] = owner[c]
    BY <2>1, PcMoves DEF PcMove
  <2> QED
    BY <1>1, <2>2, SessionOfTask, NextSessionOfTask
<1>2. ASSUME NEW e \in Event, NEW s \in Session, t = CastTask(e, s)
      PROVE  SessionOf(t)' = SessionOf(t)
  BY <1>2, SessionOfTask, NextSessionOfTask
<1> QED
  BY <1>1, <1>2, TaskKinds

LEMMA NextTypeFacts ==
  ASSUME TypeOK'
  PROVE  /\ registry' \in [Session -> Conn \cup {None}]
         /\ client' \in [Session -> Conn \cup {None}]
BY DEF TypeOK


-----------------------------------------------------------------------------
(* The inductive step *)

LEMMA SocketsNext ==
  ASSUME HubInv, [Next]_vars
  PROVE  Sockets'
<1>1. ASSUME NEW s \in Session, Connect(s)
      PROVE  \E k \in 0 .. MaxConns : {d \in Conn : pc'[d] # "idle"} = 1 .. k
  <2>1. PICK c \in Conn : pc[c] = "idle" /\ {d \in Conn : pc'[d] # "idle"} = 1 .. c /\ Opens(s, c)
    BY <1>1, ConnectFacts
  <2>2. c \in 0 .. MaxConns
    BY BoundAssumption DEF Conn
  <2> QED
    BY <2>1, <2>2
<1>2. ASSUME \A d \in Conn : pc[d] = "idle" => pc'[d] = "idle"
      PROVE  \E k \in 0 .. MaxConns : {d \in Conn : pc'[d] # "idle"} = 1 .. k
  <2>1. PICK k \in 0 .. MaxConns : {d \in Conn : pc[d] # "idle"} = 1 .. k
    BY DEF HubInv, Sockets
  <2>2. {d \in Conn : pc'[d] # "idle"} = {d \in Conn : pc[d] # "idle"}
    BY <1>2, PcMoves DEF PcMove
  <2> QED
    BY <2>1, <2>2
<1>3. ASSUME \A s \in Session : ~ Connect(s)
      PROVE  \A d \in Conn : pc[d] = "idle" => pc'[d] = "idle"
  BY <1>3, UnusedStays
<1>4. ASSUME NEW c \in Conn
      PROVE  /\ pc'[c] = "idle" => link'[c] = "none" /\ toBrowser'[c] = <<>> /\ toServer'[c] = <<>>
             /\ pc'[c] # "idle" => owner'[c] \in Session
  <2>1. CASE pc'[c] = "idle"
    <3>1. pc[c] = "idle"
      BY <2>1, PcMoves DEF PcMove
    <3> QED
      BY <2>1, <3>1, WireMoves DEF WireMove, HubInv, Sockets
  <2>2. CASE pc'[c] # "idle" /\ pc[c] # "idle"
    <3>1. owner'[c] = owner[c]
      BY <2>2, PcMoves DEF PcMove
    <3> QED
      BY <2>2, <3>1 DEF HubInv, Sockets
  <2>3. CASE pc'[c] # "idle" /\ pc[c] = "idle"
    <3>1. PICK s \in Session : Connect(s)
      BY <1>3, <2>3
    <3>2. PICK d \in Conn : pc[d] = "idle" /\ {x \in Conn : pc'[x] # "idle"} = 1 .. d /\ Opens(s, d)
      BY <3>1, ConnectFacts
    <3>3. pc \in [Conn -> PcStates] /\ owner \in [Conn -> Session \cup {None}]
      BY TypeParts DEF HubInv, HandlerTypes
    <3>4. c = d
      BY <2>3, <3>2, <3>3 DEF Opens
    <3> QED
      BY <2>3, <3>2, <3>3, <3>4 DEF Opens
  <2> QED
    BY <2>1, <2>2, <2>3
<1> QED
  BY <1>1, <1>2, <1>3, <1>4 DEF Sockets

LEMMA OwnedNext ==
  ASSUME HubInv, [Next]_vars
  PROVE  Owned'
<1>1. ASSUME NEW s \in Session, registry'[s] # None
      PROVE  pc'[registry'[s]] \notin {"idle", "accepting"} /\ owner'[registry'[s]] = s
  <2>1. registry'[s] \in Conn
    BY <1>1, TypeNext, NextTypeFacts
  <2>2. CASE registry'[s] = registry[s]
    BY <1>1, <2>1, <2>2, PcMoves DEF PcMove, HubInv, Owned
  <2>3. CASE registry'[s] # registry[s]
    <3>1. Register(registry'[s]) /\ owner[registry'[s]] = s
      BY <1>1, <2>3, RegistryMoves DEF RegistryMove
    <3>2. pc[registry'[s]] = "accepting" /\ UNCHANGED owner
          /\ pc'[registry'[s]] \in {"greeting", "replacing"}
      <4>1. pc \in [Conn -> PcStates]
        BY TypeParts DEF HubInv, HandlerTypes
      <4> QED
        BY <2>1, <3>1, <4>1 DEF Register
    <3> QED
      BY <3>1, <3>2
  <2> QED
    BY <2>2, <2>3
<1>2. ASSUME NEW s \in Session, client'[s] # None
      PROVE  pc'[client'[s]] # "idle" /\ owner'[client'[s]] = s
  <2>1. CASE client'[s] = client[s]
    <3>1. client[s] \in Conn /\ pc[client[s]] # "idle" /\ owner[client[s]] = s
      BY <1>2, <2>1 DEF HubInv, TypeOK, Owned
    <3> QED
      BY <2>1, <3>1, PcMoves DEF PcMove
  <2>2. CASE client'[s] # client[s]
    BY <2>2, ClientMoves
  <2> QED
    BY <2>1, <2>2
<1>3. ASSUME NEW t \in Task, tasks'[t].stage \in {"waiting", "sending"}
      PROVE  pc'[tasks'[t].to] # "idle" /\ owner'[tasks'[t].to] = SessionOf(t)'
  <2>1. TaskMove(t)
    BY TaskMoves
  <2>2. tasks[t].stage # "off" /\ SessionOf(t)' = SessionOf(t) /\ SessionOf(t) \in Session
    <3>1. tasks[t].stage # "off"
      BY <1>3, <2>1 DEF TaskMove
    <3> QED
      BY <3>1, SenderSession, SessionStays
  <2>3. /\ tasks'[t].to \in Conn /\ pc[tasks'[t].to] # "idle"
        /\ owner[tasks'[t].to] = SessionOf(t)
    <3>1. CASE tasks[t].stage \in {"waiting", "sending"} /\ tasks'[t].to = tasks[t].to
      BY <3>1 DEF HubInv, TypeOK, Owned
    <3>2. CASE tasks'[t].to = registry[SessionOf(t)] /\ registry[SessionOf(t)] # None
      BY <2>2, <3>2 DEF HubInv, TypeOK, Owned
    <3> QED
      BY <1>3, <2>1, <3>1, <3>2 DEF TaskMove
  <2> QED
    BY <2>2, <2>3, PcMoves DEF PcMove
<1> QED
  BY <1>1, <1>2, <1>3 DEF Owned

LEMMA TaskedNext ==
  ASSUME HubInv, [Next]_vars
  PROVE  Tasked'
<1>1. processed \subseteq processed'
  BY ProcessedGrows
<1>2. ASSUME NEW c \in Conn, tasks'[HandlerTask(c)].stage # "off"
      PROVE  pc'[c] \in SendStates
  <2>1. TaskMove(HandlerTask(c)) /\ tasks'[HandlerTask(c)] \in TaskStates
    BY TaskMoves, TaskKinds, TaskTypesNext DEF TaskTypes
  <2>2. CASE tasks[HandlerTask(c)].stage # "off"
    BY <1>2, <2>2, PcMoves DEF PcMove, HubInv, Tasked
  <2>3. CASE tasks[HandlerTask(c)].stage = "off"
    <3>1. tasks'[HandlerTask(c)].stage = "start"
      BY <1>2, <2>1, <2>3 DEF TaskMove, TaskStates
    <3>2. tasks'[HandlerTask(c)] # tasks[HandlerTask(c)]
      BY <2>3, <3>1
    <3>3. \A e, s : HandlerTask(c) # CastTask(e, s)
      BY DEF HandlerTask, CastTask
    <3>4. \A d \in Conn : HandlerTask(c) = HandlerTask(d) => d = c
      BY TaskKinds
    <3> QED
      BY <2>1, <3>1, <3>2, <3>3, <3>4 DEF TaskMove
  <2> QED
    BY <2>2, <2>3
<1>3. ASSUME NEW c \in Conn
      PROVE  replay'[c] \subseteq processed'
  BY <1>1, ReplayMoves DEF HubInv, Tasked
<1>4. ASSUME NEW t \in Task, tasks'[t].stage # "off", tasks'[t].item \in Event
      PROVE  tasks'[t].item \in processed'
  <2>1. TaskMove(t) /\ tasks'[t] \in TaskStates
    BY TaskMoves, TaskTypesNext DEF TaskTypes
  <2>2. CASE tasks'[t].stage \in {"waiting", "sending"}
    BY <1>1, <1>4, <2>1, <2>2 DEF TaskMove, HubInv, Tasked
  <2>3. CASE tasks'[t].stage = "start"
    <3>1. Ready \notin Event /\ Reply \notin Event
      BY EventAssumption DEF Ready, Reply
    <3> QED
      BY <1>1, <1>4, <2>1, <2>3, <3>1 DEF TaskMove, HubInv, Tasked
  <2> QED
    BY <1>4, <2>1, <2>2, <2>3 DEF TaskStates
<1>5. ASSUME NEW e \in Event, NEW s \in Session, tasks'[CastTask(e, s)].stage # "off"
      PROVE  tasks'[CastTask(e, s)].item = e
  <2>1. TaskMove(CastTask(e, s)) /\ tasks'[CastTask(e, s)] \in TaskStates
    BY TaskMoves, TaskKinds, TaskTypesNext DEF TaskTypes
  <2>2. CASE tasks'[CastTask(e, s)].stage \in {"waiting", "sending"}
    BY <2>1, <2>2 DEF TaskMove, HubInv, Tasked
  <2>3. CASE tasks'[CastTask(e, s)].stage = "start"
    <3>1. \A d \in processed', u \in Session : CastTask(e, s) = CastTask(d, u) => d = e
      BY DEF CastTask
    <3>2. \A c \in Conn : CastTask(e, s) # HandlerTask(c)
      BY DEF CastTask, HandlerTask
    <3> QED
      BY <2>1, <2>3, <3>1, <3>2 DEF TaskMove, HubInv, Tasked
  <2> QED
    BY <1>5, <2>1, <2>2, <2>3 DEF TaskStates
<1>6. ASSUME NEW c \in Conn, tasks'[HandlerTask(c)].stage \in {"waiting", "sending"},
             link'[c] = "open"
      PROVE  tasks'[HandlerTask(c)].to = c
  <2>1. TaskMove(HandlerTask(c))
    BY TaskMoves, TaskKinds
  <2>2. tasks[HandlerTask(c)].stage # "off"
    BY <1>6, <2>1 DEF TaskMove
  <2>3. pc[c] \in SendStates
    BY <2>2 DEF HubInv, Tasked
  <2>4. link[c] = "open"
    BY <1>6, <2>3, WireMoves DEF WireMove, SendStates
  <2>5. registry[owner[c]] = c
    BY <2>3, <2>4 DEF HubInv, LiveConnectionIsRegistered, SendStates
  <2> QED
    BY <1>6, <2>1, <2>4, <2>5, SessionOfTask DEF TaskMove, HubInv, Tasked
<1> QED
  BY <1>2, <1>3, <1>4, <1>5, <1>6 DEF Tasked

LEMMA LiveNext ==
  ASSUME HubInv, [Next]_vars
  PROVE  LiveConnectionIsRegistered'
<1> SUFFICES ASSUME NEW c \in Conn, pc'[c] \in LiveStates, link'[c] = "open"
             PROVE  registry'[owner'[c]] = c
  BY DEF LiveConnectionIsRegistered, LiveStates, SendStates
<1>1. CASE Register(c)
  <2>1. registry' = [registry EXCEPT ![owner[c]] = c] /\ owner' = owner /\ owner[c] \in Session
    BY <1>1 DEF Register, HubInv, Sockets
  <2> QED
    BY <2>1 DEF HubInv, TypeOK
<1>2. CASE ~ Register(c)
  <2>1. pc[c] \in LiveStates
    BY <1>2, PcMoves DEF PcMove
  <2>2. pc[c] # "idle"
    BY <2>1 DEF LiveStates, SendStates
  <2>3. link[c] = "open" /\ owner'[c] = owner[c] /\ owner[c] \in Session
    BY <2>2, WireMoves, PcMoves DEF WireMove, PcMove, HubInv, Sockets
  <2>4. registry[owner[c]] = c
    BY <2>1, <2>3 DEF HubInv, LiveConnectionIsRegistered, LiveStates, SendStates
  <2>5. c # None
    BY DEF Conn, None
  <2> QED
    BY <2>3, <2>4, <2>5, RegistryMoves DEF RegistryMove
<1> QED
  BY <1>1, <1>2

LEMMA RegisteredNext ==
  ASSUME HubInv, [Next]_vars
  PROVE  RegisteredSessionIsOpen'
<1>1. /\ registry \in [Session -> Conn \cup {None}]
      /\ sessions \in [Session -> [known : BOOLEAN, connected : BOOLEAN, reconnects : Nat]]
  BY TypeParts DEF HubInv, HandlerTypes, RowTypes
<1>2. ASSUME NEW s \in Session, OpenSession(s),
             \A d \in Session : d # s => registry'[d] = registry[d]
      PROVE  RegisteredSessionIsOpen'
  <2>1. /\ sessions'[s].known /\ sessions'[s].connected
        /\ \A d \in Session : d # s => sessions'[d] = sessions[d]
    BY <1>1, <1>2 DEF OpenSession
  <2> QED
    BY <1>2, <2>1 DEF HubInv, RegisteredSessionIsOpen
<1>3. ASSUME NEW s \in Session, NEW c, RemoveConnection(s, c),
             UNCHANGED sessions \/ (registry[s] = c /\ CloseSession(s))
      PROVE  RegisteredSessionIsOpen'
  <2>1. \A d \in Session : registry'[d] # None => registry'[d] = registry[d] /\ (d = s => registry[s] # c)
    BY <1>1, <1>3 DEF RemoveConnection
  <2>2. \A d \in Session : sessions'[d] = sessions[d] \/ (d = s /\ registry[s] = c)
    BY <1>1, <1>3 DEF CloseSession
  <2> QED
    BY <2>1, <2>2 DEF HubInv, RegisteredSessionIsOpen
<1>4. ASSUME NEW c \in Conn, Register(c)
      PROVE  RegisteredSessionIsOpen'
  <2>1. /\ owner[c] \in Session /\ OpenSession(owner[c])
        /\ registry' = [registry EXCEPT ![owner[c]] = c]
    BY <1>4 DEF Register, HubInv, Sockets
  <2> QED
    BY <1>1, <1>2, <2>1
<1>5. ASSUME NEW c \in Conn, OpenFails(c)
      PROVE  RegisteredSessionIsOpen'
  <2>1. owner[c] \in Session /\ UNCHANGED registry /\ (OpenSession(owner[c]) \/ UNCHANGED sessions)
    BY <1>5 DEF OpenFails, HubInv, Sockets
  <2> QED
    BY <1>2, <2>1 DEF HubInv, RegisteredSessionIsOpen
<1>6. ASSUME NEW c \in Conn, Disconnect(c) \/ DisconnectFails(c) \/ HandleRenderAckFails(c)
      PROVE  RegisteredSessionIsOpen'
  <2>1. /\ owner[c] \in Session /\ RemoveConnection(owner[c], c)
        /\ UNCHANGED sessions \/ (registry[owner[c]] = c /\ CloseSession(owner[c]))
    BY <1>6 DEF Disconnect, DisconnectFails, HandleRenderAckFails, EndHandler, HubInv, Sockets
  <2> QED
    BY <1>3, <2>1
<1>7. ASSUME NEW t \in Task, SendFails(t) \/ SendRaises(t)
      PROVE  RegisteredSessionIsOpen'
  <2>1. SessionOf(t) \in Session
    BY <1>7, SendIsActive, SenderSession DEF Send
  <2>2. /\ UNCHANGED registry \/ RemoveConnection(SessionOf(t), tasks[t].to)
        /\ UNCHANGED sessions
    BY <1>7 DEF SendFails, SendRaises, database
  <2> QED
    BY <1>3, <2>1, <2>2 DEF HubInv, RegisteredSessionIsOpen
<1>8. CASE Crash
  <2>1. \A s \in Session : registry'[s] = None
    BY <1>8 DEF Crash
  <2> QED
    BY <2>1 DEF RegisteredSessionIsOpen
<1>9. ASSUME UNCHANGED <<registry, sessions>>
      PROVE  RegisteredSessionIsOpen'
  BY <1>9 DEF HubInv, RegisteredSessionIsOpen
<1>10. ASSUME NEW c \in Conn, AcceptFails(c) \/ PreviousClosed(c) \/ PreviousCloseRaises(c)
                              \/ HandleRenderAck(c) \/ Break(c)
      PROVE  UNCHANGED <<registry, sessions>>
  BY <1>10 DEF AcceptFails, PreviousClosed, PreviousCloseRaises, HandleRenderAck, Break,
    database, handlers
<1>11. ASSUME NEW t \in Task, BeginSend(t) \/ TakeLock(t) \/ NoConnection(t) \/ SendReturns(t)
      PROVE  UNCHANGED <<registry, sessions>>
  BY <1>11 DEF BeginSend, TakeLock, NoConnection, SendReturns, Finish, database, handlers
<1>12. ASSUME NEW e \in Event, ProcessAndBroadcast(e) \/ RecoverEffect(e)
      PROVE  UNCHANGED <<registry, sessions>>
  BY <1>12 DEF ProcessAndBroadcast, RecoverEffect, handlers
<1>13. ASSUME NEW s \in Session, Connect(s) \/ ReceiveEffect(s)
      PROVE  UNCHANGED <<registry, sessions>>
  BY <1>13 DEF Connect, ReceiveEffect, database, handlers
<1>14. ASSUME Restart \/ UNCHANGED vars
      PROVE  UNCHANGED <<registry, sessions>>
  BY <1>14 DEF Restart, vars, database, handlers
<1> QED
  BY <1>4, <1>5, <1>6, <1>7, <1>8, <1>9, <1>10, <1>11, <1>12, <1>13, <1>14
  DEF Next, Handle, Send, Document

LEMMA HubInit == Init => HubInv
<1> SUFFICES ASSUME Init PROVE HubInv
  OBVIOUS
<1>1. Sockets
  <2>1. {d \in Conn : pc[d] # "idle"} = 1 .. 0 /\ 0 \in 0 .. MaxConns
    BY BoundAssumption DEF Init
  <2>2. \A c \in Conn : /\ pc[c] = "idle" => link[c] = "none" /\ toBrowser[c] = <<>> /\ toServer[c] = <<>>
                        /\ pc[c] = "idle"
    BY DEF Init
  <2> QED
    BY <2>1, <2>2 DEF Sockets
<1>2. Owned
  BY DEF Init, Owned, Idle
<1>3. Tasked
  BY TaskKinds DEF Init, Tasked, Idle
<1>4. LiveConnectionIsRegistered /\ RegisteredSessionIsOpen
  BY DEF Init, LiveConnectionIsRegistered, RegisteredSessionIsOpen
<1> QED
  BY <1>1, <1>2, <1>3, <1>4, TypeInit DEF HubInv

LEMMA HubNext == HubInv /\ [Next]_vars => HubInv'
BY TypeNext, SocketsNext, OwnedNext, TaskedNext, LiveNext, RegisteredNext DEF HubInv

\* The inductive invariant of the hub, the handlers and the sends under way.
THEOREM HubInvariant == Spec => []HubInv
BY HubInit, HubNext, PTL DEF Spec

\* Every state of the hub has its shape; a send that waits or transmits knows its
\* connection (send_effect looks it up before it waits for the lock).
THEOREM HubTypeCorrect == Spec => []TypeOK
<1>1. HubInv => TypeOK
  BY DEF HubInv
<1> QED
  BY <1>1, HubInvariant, PTL

\* Neither the finally block of a replaced handler nor a send that fails late takes
\* the registry entry of a working connection (OverlayHub.remove compares connections).
THEOREM LiveConnectionsAreRegistered == Spec => []LiveConnectionIsRegistered
<1>1. HubInv => LiveConnectionIsRegistered
  BY DEF HubInv
<1> QED
  BY <1>1, HubInvariant, PTL

\* A session with a registered connection is stored as connected, whatever order the
\* handlers of one session end and begin in.
THEOREM RegisteredSessionsAreOpen == Spec => []RegisteredSessionIsOpen
<1>1. HubInv => RegisteredSessionIsOpen
  BY DEF HubInv
<1> QED
  BY <1>1, HubInvariant, PTL

=============================================================================
