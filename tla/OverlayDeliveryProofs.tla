------------------------- MODULE OverlayDeliveryProofs -------------------------
(***************************************************************************)
(* What reaches the documents and what is stored about it: the theorems    *)
(* about frames, dispatches, cards and render acknowledgments, on top of   *)
(* the registry's invariant of OverlayProofs.                              *)
(***************************************************************************)
EXTENDS OverlayProofs

InFlight(c) == Range(toBrowser[c]) \cup Range(toServer[c])

\* What is in flight is processed, and what is acknowledged was drawn, once.
Frames ==
  /\ \A c \in Conn : InFlight(c) \subseteq processed
  /\ \A c \in Conn : \A e \in Range(toServer[c]) : cards[owner[c]][e] = 1
  /\ \A s \in Session, e \in Event : cards[s][e] \in {0, 1}
  /\ \A s \in Session, e \in Event :
       "sent" \in dispatches[e][s] => "dispatched" \in milestones[e]

\* A frame in flight is recorded as sent, or its send still holds the lock.
Dispatching ==
  faults = 0 => \A c \in Conn : link[c] = "open" => \A e \in InFlight(c) :
    \/ "sent" \in dispatches[e][owner[c]]
    \/ \E t \in Task : tasks[t].stage = "sending" /\ tasks[t].item = e /\ tasks[t].to = c

\* The frames, the dispatches and the cards fit together.
FrameInv == HubInv /\ Frames /\ RenderEvidence

DrawnOnce == \A s \in Session, e \in Event : cards[s][e] \in {0, 1}

\* A frame appears with a send that holds the lock; an acknowledgment, with a card.
FrameMove(c) ==
  /\ \A e \in Range(toBrowser'[c]) :
       \/ e \in Range(toBrowser[c])
       \/ \E t \in Task : /\ tasks[t].stage # "off" /\ tasks[t].item = e
                          /\ tasks'[t].stage = "sending" /\ tasks'[t].item = e /\ tasks'[t].to = c
  /\ \A e \in Range(toServer'[c]) :
       \/ e \in Range(toServer[c])
       \/ e \in Range(toBrowser[c]) /\ cards'[owner[c]][e] = 1
  /\ \A e \in Range(toBrowser[c]) :
       link'[c] = "open" => e \in Range(toBrowser'[c]) \/ cards'[owner[c]][e] = 1

\* renderEffect draws an event once.
LEMMA CardMoves ==
  ASSUME HubInv, DrawnOnce, [Next]_vars
  PROVE  \A d \in Session, e \in Event :
           cards'[d][e] \in {0, 1} /\ (cards[d][e] = 1 => cards'[d][e] = 1)
<1>1. cards \in [Session -> [Event -> Nat]]
  BY TypeParts DEF HubInv, CardTypes
<1>2. ASSUME NEW s \in Session, ReceiveEffect(s)
      PROVE  \A d \in Session, e \in Event :
           cards'[d][e] \in {0, 1} /\ (cards[d][e] = 1 => cards'[d][e] = 1)
  <2>1. toBrowser[client[s]] \in Seq(Event) /\ toBrowser[client[s]] # <<>>
    BY <1>2 DEF HubInv, TypeOK, ReceiveEffect
  <2> DEFINE frame == Head(toBrowser[client[s]])
  <2>2. frame \in Event
    BY <2>1
  <2>3. cards' = IF cards[s][frame] > 0 THEN cards
                 ELSE [cards EXCEPT ![s][frame] = cards[s][frame] + 1]
    BY <1>2, <2>2 DEF ReceiveEffect, Rendered
  <2> HIDE DEF frame
  <2> QED
    BY <1>1, <2>2, <2>3 DEF DrawnOnce
<1>3. ASSUME UNCHANGED cards
      PROVE  \A d \in Session, e \in Event :
           cards'[d][e] \in {0, 1} /\ (cards[d][e] = 1 => cards'[d][e] = 1)
  BY <1>3 DEF DrawnOnce
<1>4. ASSUME NEW c \in Conn, Register(c) \/ AcceptFails(c) \/ OpenFails(c)
                             \/ PreviousClosed(c) \/ PreviousCloseRaises(c) \/ Disconnect(c)
                             \/ DisconnectFails(c) \/ HandleRenderAck(c)
                             \/ HandleRenderAckFails(c) \/ Break(c)
      PROVE  UNCHANGED cards
  BY <1>4 DEF Register, AcceptFails, OpenFails, PreviousClosed, PreviousCloseRaises, Disconnect,
    DisconnectFails, HandleRenderAck, HandleRenderAckFails, Break, browser
<1>5. ASSUME NEW t \in Task, BeginSend(t) \/ TakeLock(t) \/ NoConnection(t) \/ SendReturns(t)
                             \/ SendFails(t) \/ SendRaises(t)
      PROVE  UNCHANGED cards
  BY <1>5 DEF BeginSend, TakeLock, NoConnection, SendReturns, SendFails, SendRaises, Finish,
    Raise, browser
<1>6. ASSUME NEW e \in Event, ProcessAndBroadcast(e) \/ RecoverEffect(e)
      PROVE  UNCHANGED cards
  BY <1>6 DEF ProcessAndBroadcast, RecoverEffect, browser
<1>7. ASSUME NEW s \in Session, Connect(s)
      PROVE  UNCHANGED cards
  BY <1>7 DEF Connect
<1>8. ASSUME Crash \/ Restart \/ UNCHANGED vars
      PROVE  UNCHANGED cards
  BY <1>8 DEF Crash, Restart, vars, browser
<1> QED
  BY <1>2, <1>3, <1>4, <1>5, <1>6, <1>7, <1>8 DEF Next, Handle, Send, Document

LEMMA FrameMoves ==
  ASSUME HubInv, DrawnOnce, [Next]_vars
  PROVE  \A k \in Conn : FrameMove(k)
<1>1. /\ toBrowser \in [Conn -> Seq(Event)] /\ toServer \in [Conn -> Seq(Event)]
      /\ link \in [Conn -> {"none", "open", "closed"}]
  BY TypeParts DEF HubInv, WireTypes
<1>2. ASSUME NEW c \in Conn, NEW d \in Conn,
             \/ UNCHANGED <<toBrowser, toServer>>
             \/ /\ link' = [link EXCEPT ![c] = "closed"]
                /\ toBrowser' = [toBrowser EXCEPT ![c] = <<>>]
                /\ UNCHANGED toServer \/ Forget(c)
             \/ UNCHANGED toBrowser /\ Forget(c)
      PROVE  FrameMove(d)
  <2>1. CASE d # c
    BY <1>1, <1>2, <2>1 DEF Forget, FrameMove
  <2>2. CASE d = c
    <3>1. /\ toBrowser'[d] = toBrowser[d] \/ (toBrowser'[d] = <<>> /\ link'[d] = "closed")
          /\ toServer'[d] = toServer[d] \/ toServer'[d] = <<>>
      BY <1>1, <1>2, <2>2 DEF Forget
    <3> QED
      BY <3>1, RangeEmpty DEF FrameMove
  <2> QED
    BY <2>1, <2>2
<1>3. ASSUME NEW t \in Task, NEW c \in Conn, tasks[t].stage # "off", Transmit(t, c),
             UNCHANGED <<link, toServer>>
      PROVE  \A d \in Conn : FrameMove(d)
  <2>1. tasks'[t].stage = "sending" /\ tasks'[t].item = tasks[t].item /\ tasks'[t].to = c
    <3>1. tasks \in [Task -> TaskStates]
      BY TypeParts DEF HubInv, TaskTypes
    <3> QED
      BY <1>3, <3>1 DEF Transmit, TaskStates
  <2>2. CASE IsEffect(t) /\ link[c] = "open"
    <3>1. tasks[t].item \in Event /\ toBrowser[c] \in Seq(Event)
      BY <1>1, <2>2 DEF IsEffect
    <3>2. toBrowser' = [toBrowser EXCEPT ![c] = Append(toBrowser[c], tasks[t].item)]
      BY <1>3, <2>2 DEF Transmit
    <3>3. Range(Append(toBrowser[c], tasks[t].item)) = Range(toBrowser[c]) \cup {tasks[t].item}
      BY <3>1, RangeFacts
    <3>4. /\ \A d \in Conn : d # c => toBrowser'[d] = toBrowser[d]
          /\ Range(toBrowser'[c]) = Range(toBrowser[c]) \cup {tasks[t].item}
      BY <1>1, <3>2, <3>3
    <3> QED
      BY <1>3, <2>1, <3>4 DEF FrameMove
  <2>3. CASE ~ (IsEffect(t) /\ link[c] = "open")
    BY <1>3, <2>3 DEF Transmit, FrameMove
  <2> QED
    BY <2>2, <2>3
<1>4. ASSUME NEW c \in Conn, Register(c)
      PROVE  \A k \in Conn : FrameMove(k)
  <2>1. registry[owner[c]] \in Conn \/ UNCHANGED <<link, toBrowser>>
    <3>1. owner[c] \in Session /\ (registry[owner[c]] # None \/ UNCHANGED <<link, toBrowser>>)
      BY <1>4 DEF Register, HubInv, Sockets
    <3> QED
      BY <3>1 DEF HubInv, TypeOK
  <2>2. /\ \/ UNCHANGED <<link, toBrowser>>
           \/ /\ link' = [link EXCEPT ![registry[owner[c]]] = "closed"]
              /\ toBrowser' = [toBrowser EXCEPT ![registry[owner[c]]] = <<>>]
        /\ UNCHANGED toServer
    BY <1>4 DEF Register
  <2> QED
    BY <1>2, <2>1, <2>2
<1>5. ASSUME NEW c \in Conn, OpenFails(c) \/ PreviousCloseRaises(c)
      PROVE  \A k \in Conn : FrameMove(k)
  BY <1>2, <1>5 DEF OpenFails, PreviousCloseRaises, HandlerDies
<1>6. ASSUME NEW c \in Conn, Disconnect(c) \/ DisconnectFails(c) \/ HandleRenderAckFails(c)
      PROVE  \A k \in Conn : FrameMove(k)
  BY <1>2, <1>6 DEF Disconnect, DisconnectFails, HandleRenderAckFails, EndHandler
<1>7. ASSUME NEW c \in Conn, HandleRenderAck(c)
      PROVE  \A k \in Conn : FrameMove(k)
  <2>1. toServer[c] \in Seq(Event) /\ toServer[c] # <<>>
    BY <1>1, <1>7 DEF HandleRenderAck
  <2>2. toServer' = [toServer EXCEPT ![c] = Tail(toServer[c])] /\ UNCHANGED <<link, toBrowser>>
    BY <1>7 DEF HandleRenderAck
  <2>3. Range(Tail(toServer[c])) \subseteq Range(toServer[c])
    BY <2>1, RangeFacts
  <2>4. \A d \in Conn : Range(toServer'[d]) \subseteq Range(toServer[d])
    BY <1>1, <2>2, <2>3
  <2> QED
    BY <2>2, <2>4 DEF FrameMove
<1>8. ASSUME NEW c \in Conn, Break(c)
      PROVE  \A k \in Conn : FrameMove(k)
  BY <1>2, <1>8 DEF Break
<1>9. ASSUME NEW t \in Task, BeginSend(t)
      PROVE  \A k \in Conn : FrameMove(k)
  <2>1. registry[SessionOf(t)] \in Conn /\ tasks[t].stage # "off"
    <3>1. registry[SessionOf(t)] # None /\ SessionOf(t) \in Session /\ tasks[t].stage # "off"
      BY <1>9, SendIsActive, SenderSession DEF Send, BeginSend
    <3> QED
      BY <3>1 DEF HubInv, TypeOK
  <2>2. /\ Transmit(t, registry[SessionOf(t)]) \/ UNCHANGED toBrowser
        /\ UNCHANGED <<link, toServer>>
    BY <1>9 DEF BeginSend
  <2> QED
    BY <1>2, <1>3, <2>1, <2>2
<1>10. ASSUME NEW t \in Task, TakeLock(t)
      PROVE  \A k \in Conn : FrameMove(k)
  <2>1. tasks[t].to \in Conn /\ tasks[t].stage # "off"
    BY <1>10 DEF TakeLock, HubInv, TypeOK
  <2>2. Transmit(t, tasks[t].to) /\ UNCHANGED <<link, toServer>>
    BY <1>10 DEF TakeLock
  <2> QED
    BY <1>3, <2>1, <2>2
<1>11. ASSUME NEW t \in Task, SendRaises(t)
      PROVE  \A k \in Conn : FrameMove(k)
  <2>1. Raise(t)
    BY <1>11 DEF SendRaises
  <2>2. ASSUME NEW c \in Conn, HandlerDies(c)
        PROVE  \A d \in Conn : FrameMove(d)
    BY <1>2, <2>2 DEF HandlerDies
  <2> QED
    BY <1>2, <2>1, <2>2, RaiseFacts DEF HubInv
<1>12. ASSUME NEW s \in Session, ReceiveEffect(s)
      PROVE  \A k \in Conn : FrameMove(k)
  <2> DEFINE n == client[s]
             frame == Head(toBrowser[n])
  <2>1. n \in Conn /\ toBrowser[n] # <<>> /\ toBrowser[n] \in Seq(Event) /\ owner[n] = s
    <3>1. n # None /\ toBrowser[n] # <<>>
      BY <1>12 DEF ReceiveEffect
    <3> QED
      BY <1>1, <3>1 DEF HubInv, TypeOK, Owned
  <2>2. /\ frame \in Event /\ frame \in Range(toBrowser[n])
        /\ Range(toBrowser[n]) = {frame} \cup Range(Tail(toBrowser[n]))
        /\ Range(Append(toServer[n], frame)) = Range(toServer[n]) \cup {frame}
    BY <1>1, <2>1, RangeFacts
  <2>3. /\ toBrowser' = [toBrowser EXCEPT ![n] = Tail(toBrowser[n])]
        /\ toServer' = [toServer EXCEPT ![n] = Append(toServer[n], frame)]
    BY <1>12 DEF ReceiveEffect
  <2>4. cards'[s][frame] = 1
    <3>1. cards' = IF cards[s][frame] > 0 THEN cards
                   ELSE [cards EXCEPT ![s][frame] = cards[s][frame] + 1]
      BY <1>12, <2>2 DEF ReceiveEffect, Rendered
    <3>2. cards[s][frame] \in {0, 1} /\ cards \in [Session -> [Event -> Nat]]
      BY <2>2, TypeParts DEF DrawnOnce, HubInv, CardTypes
    <3> HIDE DEF frame
    <3> QED
      BY <2>2, <3>1, <3>2
  <2>5. /\ \A d \in Conn : d # n => toBrowser'[d] = toBrowser[d] /\ toServer'[d] = toServer[d]
        /\ Range(toBrowser[n]) = {frame} \cup Range(toBrowser'[n])
        /\ Range(toServer'[n]) = Range(toServer[n]) \cup {frame}
    BY <1>1, <2>1, <2>2, <2>3
  <2> HIDE DEF frame, n
  <2> QED
    BY <2>1, <2>2, <2>4, <2>5 DEF FrameMove
<1>13. CASE Crash
  <2>1. \A d \in Conn : toBrowser'[d] = <<>> /\ toServer'[d] = <<>> /\ link'[d] # "open"
    BY <1>13 DEF Crash
  <2> QED
    BY <2>1, RangeEmpty DEF FrameMove
<1>14. ASSUME UNCHANGED <<toBrowser, toServer>>
      PROVE  \A k \in Conn : FrameMove(k)
  BY <1>14 DEF FrameMove
<1>15. ASSUME NEW c \in Conn, AcceptFails(c) \/ PreviousClosed(c)
      PROVE  UNCHANGED <<toBrowser, toServer>>
  BY <1>15 DEF AcceptFails, PreviousClosed, network
<1>16. ASSUME NEW t \in Task, NoConnection(t) \/ SendReturns(t) \/ SendFails(t)
      PROVE  UNCHANGED <<toBrowser, toServer>>
  BY <1>16 DEF NoConnection, SendReturns, SendFails, Finish, network
<1>17. ASSUME NEW e \in Event, ProcessAndBroadcast(e) \/ RecoverEffect(e)
      PROVE  UNCHANGED <<toBrowser, toServer>>
  BY <1>17 DEF ProcessAndBroadcast, RecoverEffect, network
<1>18. ASSUME NEW s \in Session, Connect(s)
      PROVE  UNCHANGED <<toBrowser, toServer>>
  BY <1>18 DEF Connect
<1>19. ASSUME Restart \/ UNCHANGED vars
      PROVE  UNCHANGED <<toBrowser, toServer>>
  BY <1>19 DEF Restart, vars, network
<1> QED
  BY <1>4, <1>5, <1>6, <1>7, <1>8, <1>9, <1>10, <1>11, <1>12, <1>13, <1>14, <1>15, <1>16, <1>17,
    <1>18, <1>19 DEF Next, Handle, Send, Document

LEMMA StoreMoves ==
  ASSUME HubInv, [Next]_vars
  PROVE  /\ \A e \in Event, s \in Session :
              /\ dispatches[e][s] \subseteq dispatches'[e][s]
              /\ "sent" \in dispatches'[e][s] =>
                   "sent" \in dispatches[e][s] \/ "dispatched" \in milestones'[e]
         /\ \A e \in Event : milestones[e] \subseteq milestones'[e]
<1>1. StoreTypes
  BY TypeParts DEF HubInv
<1>2. ASSUME NEW c \in Conn, HandleRenderAck(c)
      PROVE  /\ \A e \in Event, s \in Session :
              /\ dispatches[e][s] \subseteq dispatches'[e][s]
              /\ "sent" \in dispatches'[e][s] =>
                   "sent" \in dispatches[e][s] \/ "dispatched" \in milestones'[e]
         /\ \A e \in Event : milestones[e] \subseteq milestones'[e]
  <2>1. milestones' \in {milestones,
          [milestones EXCEPT ![Head(toServer[c])] = @ \cup {"rendered"}]}
        /\ UNCHANGED dispatches
    BY <1>2 DEF HandleRenderAck
  <2> QED
    BY <1>1, <2>1 DEF StoreTypes
<1>3. ASSUME NEW t \in Task, NoConnection(t) \/ SendReturns(t) \/ SendFails(t)
      PROVE  /\ \A e \in Event, s \in Session :
              /\ dispatches[e][s] \subseteq dispatches'[e][s]
              /\ "sent" \in dispatches'[e][s] =>
                   "sent" \in dispatches[e][s] \/ "dispatched" \in milestones'[e]
         /\ \A e \in Event : milestones[e] \subseteq milestones'[e]
  <2>1. SessionOf(t) \in Session
    BY <1>3, SendIsActive, SenderSession DEF Send
  <2>2. PICK outcome \in {"sent", "failed"} :
          IF IsEffect(t) THEN RecordDispatch(t, outcome) ELSE UNCHANGED <<dispatches, milestones>>
    BY <1>3 DEF NoConnection, SendReturns, SendFails
  <2>3. /\ \A e \in Event, s \in Session :
              /\ dispatches[e][s] \subseteq dispatches'[e][s]
              /\ dispatches'[e][s] \subseteq dispatches[e][s] \cup {outcome}
              /\ dispatches'[e][s] # dispatches[e][s] => tasks[t].item = e
        /\ \A e \in Event :
              /\ milestones[e] \subseteq milestones'[e]
              /\ tasks[t].item = e /\ outcome = "sent" => "dispatched" \in milestones'[e]
    BY <1>1, <2>1, <2>2, OutcomeFacts
  <2> QED
    BY <2>3
<1>4. ASSUME UNCHANGED <<dispatches, milestones>>
      PROVE  /\ \A e \in Event, s \in Session :
              /\ dispatches[e][s] \subseteq dispatches'[e][s]
              /\ "sent" \in dispatches'[e][s] =>
                   "sent" \in dispatches[e][s] \/ "dispatched" \in milestones'[e]
         /\ \A e \in Event : milestones[e] \subseteq milestones'[e]
  BY <1>4
<1>5. ASSUME NEW c \in Conn, Register(c) \/ AcceptFails(c) \/ OpenFails(c)
                             \/ PreviousClosed(c) \/ PreviousCloseRaises(c) \/ Disconnect(c)
                             \/ DisconnectFails(c) \/ HandleRenderAckFails(c) \/ Break(c)
      PROVE  UNCHANGED <<dispatches, milestones>>
  BY <1>5 DEF Register, AcceptFails, OpenFails, PreviousClosed, PreviousCloseRaises, Disconnect,
    DisconnectFails, HandleRenderAckFails, Break, database
<1>6. ASSUME NEW t \in Task, BeginSend(t) \/ TakeLock(t) \/ SendRaises(t)
      PROVE  UNCHANGED <<dispatches, milestones>>
  BY <1>6 DEF BeginSend, TakeLock, SendRaises, Raise, database
<1>7. ASSUME NEW e \in Event, ProcessAndBroadcast(e) \/ RecoverEffect(e)
      PROVE  UNCHANGED <<dispatches, milestones>>
  BY <1>7 DEF ProcessAndBroadcast, RecoverEffect
<1>8. ASSUME NEW s \in Session, Connect(s) \/ ReceiveEffect(s)
      PROVE  UNCHANGED <<dispatches, milestones>>
  BY <1>8 DEF Connect, ReceiveEffect, database
<1>9. ASSUME Crash \/ Restart \/ UNCHANGED vars
      PROVE  UNCHANGED <<dispatches, milestones>>
  BY <1>9 DEF Crash, Restart, vars, database
<1> QED
  BY <1>2, <1>3, <1>4, <1>5, <1>6, <1>7, <1>8, <1>9 DEF Next, Handle, Send, Document

LEMMA AckMoves ==
  ASSUME HubInv, [Next]_vars
  PROVE  \A e \in Event, s \in Session : <<e, s>> \in acks' \ acks =>
           /\ \E k \in Conn : e \in Range(toServer[k]) /\ owner[k] = s
           /\ "sent" \in dispatches[e][s] /\ "rendered" \in milestones'[e]
<1>1. ASSUME NEW c \in Conn, HandleRenderAck(c)
      PROVE  \A e \in Event, s \in Session : <<e, s>> \in acks' \ acks =>
           /\ \E k \in Conn : e \in Range(toServer[k]) /\ owner[k] = s
           /\ "sent" \in dispatches[e][s] /\ "rendered" \in milestones'[e]
  <2>1. /\ toServer[c] \in Seq(Event) /\ toServer[c] # <<>>
        /\ milestones \in [Event -> SUBSET {"dispatched", "rendered"}]
    BY <1>1 DEF HandleRenderAck, HubInv, TypeOK
  <2>2. Head(toServer[c]) \in Range(toServer[c])
    BY <2>1, RangeFacts
  <2>3. \/ UNCHANGED acks
        \/ /\ Eligible(Head(toServer[c]), owner[c])
           /\ acks' = acks \cup {<<Head(toServer[c]), owner[c]>>}
           /\ milestones' = [milestones EXCEPT ![Head(toServer[c])] = @ \cup {"rendered"}]
    BY <1>1 DEF HandleRenderAck
  <2> QED
    BY <2>1, <2>2, <2>3 DEF Eligible
<1>2. ASSUME UNCHANGED acks
      PROVE  \A e \in Event, s \in Session : <<e, s>> \in acks' \ acks =>
           /\ \E k \in Conn : e \in Range(toServer[k]) /\ owner[k] = s
           /\ "sent" \in dispatches[e][s] /\ "rendered" \in milestones'[e]
  BY <1>2
<1>3. ASSUME NEW c \in Conn, Register(c) \/ AcceptFails(c) \/ OpenFails(c)
                             \/ PreviousClosed(c) \/ PreviousCloseRaises(c) \/ Disconnect(c)
                             \/ DisconnectFails(c) \/ HandleRenderAckFails(c) \/ Break(c)
      PROVE  UNCHANGED acks
  BY <1>3 DEF Register, AcceptFails, OpenFails, PreviousClosed, PreviousCloseRaises, Disconnect,
    DisconnectFails, HandleRenderAckFails, Break, database
<1>4. ASSUME NEW t \in Task, BeginSend(t) \/ TakeLock(t) \/ NoConnection(t) \/ SendReturns(t)
                             \/ SendFails(t) \/ SendRaises(t)
      PROVE  UNCHANGED acks
  BY <1>4 DEF BeginSend, TakeLock, NoConnection, SendReturns, SendFails, SendRaises, Finish,
    Raise, database
<1>5. ASSUME NEW e \in Event, ProcessAndBroadcast(e) \/ RecoverEffect(e)
      PROVE  UNCHANGED acks
  BY <1>5 DEF ProcessAndBroadcast, RecoverEffect
<1>6. ASSUME NEW s \in Session, Connect(s) \/ ReceiveEffect(s)
      PROVE  UNCHANGED acks
  BY <1>6 DEF Connect, ReceiveEffect, database
<1>7. ASSUME Crash \/ Restart \/ UNCHANGED vars
      PROVE  UNCHANGED acks
  BY <1>7 DEF Crash, Restart, vars, database
<1> QED
  BY <1>1, <1>2, <1>3, <1>4, <1>5, <1>6, <1>7 DEF Next, Handle, Send, Document

LEMMA FrameNext == FrameInv /\ [Next]_vars => FrameInv'
<1> SUFFICES ASSUME FrameInv, [Next]_vars PROVE FrameInv'
  OBVIOUS
<1>1. HubInv /\ HubInv' /\ DrawnOnce
  BY HubNext DEF FrameInv, Frames, DrawnOnce
<1>2. processed \subseteq processed'
  BY ProcessedGrows
<1>3. \A c \in Conn : FrameMove(c)
  BY <1>1, FrameMoves
<1>6. \A s \in Session, e \in Event :
        cards'[s][e] \in {0, 1} /\ (cards[s][e] = 1 => cards'[s][e] = 1)
  <2>1. HubInv /\ DrawnOnce /\ [Next]_vars
    BY <1>1
  <2> QED
    BY <2>1, CardMoves
<1>4. ASSUME NEW c \in Conn
      PROVE  InFlight(c)' \subseteq processed'
  <2>1. ASSUME NEW e \in Range(toBrowser'[c])
        PROVE  e \in processed'
    <3>1. e \in Event
      BY <1>1, RangeFacts DEF HubInv, TypeOK
    <3> QED
      BY <1>1, <1>2, <1>3, <2>1, <3>1 DEF FrameMove, FrameInv, Frames, InFlight, HubInv, Tasked
  <2>2. ASSUME NEW e \in Range(toServer'[c])
        PROVE  e \in processed'
    BY <1>2, <1>3, <2>2 DEF FrameMove, FrameInv, Frames, InFlight
  <2> QED
    BY <2>1, <2>2 DEF InFlight
<1>5. ASSUME NEW c \in Conn, NEW e \in Range(toServer'[c])
      PROVE  cards'[owner'[c]][e] = 1
  <2>1. e \in Event
    BY <1>1, RangeFacts DEF HubInv, TypeOK
  <2>2. pc[c] # "idle"
    <3>1. pc[c] = "idle" => Range(toServer[c]) = {} /\ Range(toBrowser[c]) = {}
      BY <1>1, RangeEmpty DEF HubInv, Sockets
    <3> QED
      BY <1>3, <3>1 DEF FrameMove
  <2>3. owner'[c] = owner[c] /\ owner[c] \in Session
    BY <1>1, <2>2, PcMoves DEF PcMove, HubInv, Sockets
  <2>4. CASE e \in Range(toServer[c])
    <3>1. cards[owner[c]][e] = 1
      BY <2>4 DEF FrameInv, Frames
    <3> QED
      BY <1>6, <2>1, <2>3, <3>1
  <2>5. CASE e \notin Range(toServer[c])
    BY <1>3, <2>3, <2>5 DEF FrameMove
  <2> QED
    BY <2>4, <2>5
<1>7. ASSUME NEW s \in Session, NEW e \in Event, "sent" \in dispatches'[e][s]
      PROVE  "dispatched" \in milestones'[e]
  BY <1>1, <1>7, StoreMoves DEF FrameInv, Frames
<1>8. ASSUME NEW e \in Event, NEW s \in Session, <<e, s>> \in acks'
      PROVE  /\ e \in processed'
             /\ "sent" \in dispatches'[e][s]
             /\ milestones'[e] = {"dispatched", "rendered"}
             /\ cards'[s][e] = 1
  <2>1. milestones'[e] \subseteq {"dispatched", "rendered"}
    BY <1>1 DEF HubInv, TypeOK
  <2>2. CASE <<e, s>> \in acks
    <3>1. /\ e \in processed /\ "sent" \in dispatches[e][s]
          /\ milestones[e] = {"dispatched", "rendered"} /\ cards[s][e] = 1
      BY <2>2 DEF FrameInv, RenderEvidence
    <3>2. /\ dispatches[e][s] \subseteq dispatches'[e][s] /\ milestones[e] \subseteq milestones'[e]
      BY <1>1, StoreMoves
    <3> QED
      BY <1>2, <1>6, <2>1, <3>1, <3>2
  <2>3. CASE <<e, s>> \notin acks
    <3>1. /\ \E c \in Conn : e \in Range(toServer[c]) /\ owner[c] = s
          /\ "sent" \in dispatches[e][s] /\ "rendered" \in milestones'[e]
      BY <1>1, <1>8, <2>3, AckMoves
    <3>2. "sent" \in dispatches'[e][s] /\ "dispatched" \in milestones'[e]
      BY <1>1, <1>7, <3>1, StoreMoves
    <3>3. e \in processed /\ cards[s][e] = 1
      BY <3>1 DEF FrameInv, Frames, InFlight
    <3>4. cards'[s][e] = 1
      BY <1>6, <3>3
    <3> QED
      BY <1>2, <2>1, <3>1, <3>2, <3>3, <3>4
  <2> QED
    BY <2>2, <2>3
<1>9. Frames'
  BY <1>4, <1>5, <1>6, <1>7 DEF Frames
<1>10. RenderEvidence'
  BY <1>8 DEF RenderEvidence
<1> QED
  BY <1>1, <1>9, <1>10 DEF FrameInv

LEMMA FrameInit == Init => FrameInv
<1> SUFFICES ASSUME Init PROVE FrameInv
  OBVIOUS
<1>1. \A c \in Conn : Range(toBrowser[c]) = {} /\ Range(toServer[c]) = {}
  BY RangeEmpty DEF Init
<1>2. Frames
  BY <1>1 DEF Init, Frames, InFlight
<1>3. RenderEvidence
  BY DEF Init, RenderEvidence
<1> QED
  BY <1>2, <1>3, HubInit DEF FrameInv

\* The frames in flight, the stored dispatches, the cards and the acknowledgments
\* fit together in every state.
THEOREM FrameInvariant == Spec => []FrameInv
BY FrameInit, FrameNext, PTL DEF Spec

\* record_render_ack stores only what a document has drawn exactly once after a
\* successful dispatch, over replays, broadcasts, reconnects and crashes.
THEOREM RenderEvidenceHolds == Spec => []RenderEvidence
<1>1. FrameInv => RenderEvidence
  BY DEF FrameInv
<1> QED
  BY <1>1, FrameInvariant, PTL

-----------------------------------------------------------------------------
(* Sends: what can become of one, and of its frame *)

\* A send under way is moved on by its own steps or ended by a crash; a broadcast
\* starts only sends that are not under way.
LEMMA TaskFate ==
  ASSUME HubInv, [Next]_vars
  PROVE  \A u \in Task : tasks[u].stage # "off" => tasks'[u] = tasks[u] \/ Send(u) \/ Crash
<1>1. tasks \in [Task -> TaskStates]
  BY TypeParts DEF HubInv, TaskTypes
<1>2. ASSUME NEW d \in Conn, pc[d] \notin SendStates, NEW state,
             tasks' = [tasks EXCEPT ![HandlerTask(d)] = state]
      PROVE  \A u \in Task : tasks[u].stage # "off" => tasks'[u] = tasks[u] \/ Send(u) \/ Crash
  <2>1. tasks[HandlerTask(d)].stage = "off"
    BY <1>2 DEF HubInv, Tasked
  <2> QED
    BY <1>1, <1>2, <2>1
<1>3. ASSUME NEW t \in Task, Send(t), \A u \in Task : u # t => tasks'[u] = tasks[u]
      PROVE  \A u \in Task : tasks[u].stage # "off" => tasks'[u] = tasks[u] \/ Send(u) \/ Crash
  BY <1>3
<1>4. ASSUME NEW c \in Conn, Register(c) \/ PreviousClosed(c) \/ HandleRenderAck(c)
      PROVE  \A u \in Task : tasks[u].stage # "off" => tasks'[u] = tasks[u] \/ Send(u) \/ Crash
  <2>1. \/ UNCHANGED tasks
        \/ StartTask(c, Ready) \/ StartTask(c, Reply)
    BY <1>4 DEF Register, PreviousClosed, HandleRenderAck
  <2>2. pc[c] \notin SendStates
    BY <1>4 DEF Register, PreviousClosed, HandleRenderAck, SendStates
  <2> QED
    BY <1>2, <2>1, <2>2 DEF StartTask
<1>5. ASSUME NEW c \in Conn, OpenFails(c) \/ PreviousCloseRaises(c)
      PROVE  \A u \in Task : tasks[u].stage # "off" => tasks'[u] = tasks[u] \/ Send(u) \/ Crash
  <2>1. tasks' = [tasks EXCEPT ![HandlerTask(c)] = Idle] /\ pc[c] \notin SendStates
    BY <1>5 DEF OpenFails, PreviousCloseRaises, HandlerDies, SendStates
  <2> QED
    BY <1>2, <2>1
<1>6. ASSUME NEW t \in Task, BeginSend(t) \/ TakeLock(t)
      PROVE  \A u \in Task : tasks[u].stage # "off" => tasks'[u] = tasks[u] \/ Send(u) \/ Crash
  <2>1. \A u \in Task : u # t => tasks'[u] = tasks[u]
    BY <1>1, <1>6 DEF BeginSend, TakeLock, Transmit
  <2> QED
    BY <1>3, <1>6, <2>1 DEF Send
<1>7. ASSUME NEW t \in Task, NoConnection(t) \/ SendReturns(t) \/ SendFails(t)
      PROVE  \A u \in Task : tasks[u].stage # "off" => tasks'[u] = tasks[u] \/ Send(u) \/ Crash
  <2>1. Finish(t) /\ tasks[t].stage # "off"
    BY <1>7, SendIsActive DEF NoConnection, SendReturns, SendFails, Send
  <2>2. \A u \in Task : u # t => tasks'[u] = tasks[u]
    BY <2>1, FinishFacts
  <2> QED
    BY <1>3, <1>7, <2>2 DEF Send
<1>8. ASSUME NEW t \in Task, SendRaises(t)
      PROVE  \A u \in Task : tasks[u].stage # "off" => tasks'[u] = tasks[u] \/ Send(u) \/ Crash
  <2>1. Raise(t)
    BY <1>8 DEF SendRaises
  <2>2. \A u \in Task : u # t => tasks'[u] = tasks[u]
    BY <1>1, <2>1, RaiseFacts DEF HubInv
  <2> QED
    BY <1>3, <1>8, <2>2 DEF Send
<1>9. ASSUME NEW e \in Event, ProcessAndBroadcast(e)
      PROVE  \A u \in Task : tasks[u].stage # "off" => tasks'[u] = tasks[u] \/ Send(u) \/ Crash
  <2>1. ASSUME NEW u \in Task, tasks[u].stage # "off"
        PROVE  ~ (\E s \in Session : u = CastTask(e, s))
    BY <1>9, <2>1 DEF ProcessAndBroadcast, HubInv, Tasked
  <2>2. \A u \in Task : ~ (\E s \in Session : u = CastTask(e, s)) => tasks'[u] = tasks[u]
    BY <1>9 DEF ProcessAndBroadcast
  <2> QED
    BY <2>1, <2>2
<1>10. CASE Crash
  BY <1>10
<1>11. ASSUME UNCHANGED tasks
      PROVE  \A u \in Task : tasks[u].stage # "off" => tasks'[u] = tasks[u] \/ Send(u) \/ Crash
  BY <1>11
<1>12. ASSUME NEW c \in Conn, AcceptFails(c) \/ Disconnect(c) \/ DisconnectFails(c)
                              \/ HandleRenderAckFails(c) \/ Break(c)
      PROVE  UNCHANGED tasks
  BY <1>12 DEF AcceptFails, Disconnect, DisconnectFails, HandleRenderAckFails, Break
<1>13. ASSUME NEW e \in Event, RecoverEffect(e)
      PROVE  UNCHANGED tasks
  BY <1>13 DEF RecoverEffect
<1>14. ASSUME NEW s \in Session, Connect(s) \/ ReceiveEffect(s)
      PROVE  UNCHANGED tasks
  BY <1>14 DEF Connect, ReceiveEffect
<1>15. ASSUME Restart \/ UNCHANGED vars
      PROVE  UNCHANGED tasks
  BY <1>15 DEF Restart, vars
<1> QED
  BY <1>4, <1>5, <1>6, <1>7, <1>8, <1>9, <1>10, <1>11, <1>12, <1>13, <1>14, <1>15
  DEF Next, Handle, Send, Document

LEMMA FaultsGrow ==
  ASSUME HubInv, [Next]_vars
  PROVE  faults' = 0 => faults = 0
<1>1. faults \in Nat
  BY BoundAssumption DEF HubInv, TypeOK
<1>2. ASSUME Fault
      PROVE  faults' = 0 => faults = 0
  BY <1>1, <1>2 DEF Fault
<1>3. ASSUME NEW c \in Conn, OpenFails(c) \/ DisconnectFails(c) \/ HandleRenderAckFails(c)
      PROVE  faults' = 0 => faults = 0
  BY <1>2, <1>3 DEF OpenFails, DisconnectFails, HandleRenderAckFails
<1>4. ASSUME NEW t \in Task, SendRaises(t)
      PROVE  faults' = 0 => faults = 0
  BY <1>2, <1>4 DEF SendRaises
<1>5. ASSUME UNCHANGED faults
      PROVE  faults' = 0 => faults = 0
  BY <1>5
<1>6. ASSUME NEW c \in Conn, Register(c) \/ AcceptFails(c) \/ PreviousClosed(c)
                             \/ PreviousCloseRaises(c) \/ Disconnect(c) \/ HandleRenderAck(c)
                             \/ Break(c)
      PROVE  UNCHANGED faults
  BY <1>6 DEF Register, AcceptFails, PreviousClosed, PreviousCloseRaises, Disconnect,
    HandleRenderAck, Break, bounds
<1>7. ASSUME NEW t \in Task, BeginSend(t) \/ TakeLock(t) \/ NoConnection(t) \/ SendReturns(t)
                             \/ SendFails(t)
      PROVE  UNCHANGED faults
  BY <1>7 DEF BeginSend, TakeLock, NoConnection, SendReturns, SendFails, Finish, bounds
<1>8. ASSUME NEW e \in Event, ProcessAndBroadcast(e) \/ RecoverEffect(e)
      PROVE  UNCHANGED faults
  BY <1>8 DEF ProcessAndBroadcast, RecoverEffect, bounds
<1>9. ASSUME NEW s \in Session, Connect(s) \/ ReceiveEffect(s)
      PROVE  UNCHANGED faults
  BY <1>9 DEF Connect, ReceiveEffect, bounds
<1>10. ASSUME Crash \/ Restart \/ UNCHANGED vars
      PROVE  UNCHANGED faults
  BY <1>10 DEF Crash, Restart, vars, bounds
<1> QED
  BY <1>3, <1>4, <1>5, <1>6, <1>7, <1>8, <1>9, <1>10 DEF Next, Handle, Send, Document

\* Only an acknowledgment handled without the lock being held is ever refused.
LEMMA NackMoves ==
  ASSUME HubInv, [Next]_vars
  PROVE  \A u \in Event \X Session : u \in nacked' \ nacked =>
           \E k \in Conn :
             /\ link[k] = "open" /\ ~ Locked(k) /\ pc[k] = "serving"
             /\ \E x \in Range(toServer[k]) : u = <<x, owner[k]>> /\ ~ Eligible(x, owner[k])
<1>1. ASSUME NEW c \in Conn, HandleRenderAck(c)
      PROVE  \A u \in Event \X Session : u \in nacked' \ nacked =>
           \E k \in Conn :
             /\ link[k] = "open" /\ ~ Locked(k) /\ pc[k] = "serving"
             /\ \E x \in Range(toServer[k]) : u = <<x, owner[k]>> /\ ~ Eligible(x, owner[k])
  <2>1. toServer[c] \in Seq(Event) /\ toServer[c] # <<>>
    BY <1>1 DEF HandleRenderAck, HubInv, TypeOK
  <2>2. Head(toServer[c]) \in Range(toServer[c])
    BY <2>1, RangeFacts
  <2>3. /\ ~ Locked(c) /\ pc[c] = "serving"
        /\ \/ UNCHANGED nacked
           \/ /\ ~ Eligible(Head(toServer[c]), owner[c]) /\ link[c] = "open"
              /\ nacked' = nacked \cup {<<Head(toServer[c]), owner[c]>>}
    BY <1>1 DEF HandleRenderAck
  <2> QED
    BY <2>2, <2>3
<1>2. ASSUME UNCHANGED nacked
      PROVE  \A u \in Event \X Session : u \in nacked' \ nacked =>
           \E k \in Conn :
             /\ link[k] = "open" /\ ~ Locked(k) /\ pc[k] = "serving"
             /\ \E x \in Range(toServer[k]) : u = <<x, owner[k]>> /\ ~ Eligible(x, owner[k])
  BY <1>2
<1>3. ASSUME NEW c \in Conn, Register(c) \/ AcceptFails(c) \/ OpenFails(c)
                             \/ PreviousClosed(c) \/ PreviousCloseRaises(c) \/ Disconnect(c)
                             \/ DisconnectFails(c) \/ HandleRenderAckFails(c) \/ Break(c)
      PROVE  UNCHANGED nacked
  BY <1>3 DEF Register, AcceptFails, OpenFails, PreviousClosed, PreviousCloseRaises, Disconnect,
    DisconnectFails, HandleRenderAckFails, Break
<1>4. ASSUME NEW t \in Task, BeginSend(t) \/ TakeLock(t) \/ NoConnection(t) \/ SendReturns(t)
                             \/ SendFails(t) \/ SendRaises(t)
      PROVE  UNCHANGED nacked
  BY <1>4 DEF BeginSend, TakeLock, NoConnection, SendReturns, SendFails, SendRaises, Finish,
    Raise
<1>5. ASSUME NEW e \in Event, ProcessAndBroadcast(e) \/ RecoverEffect(e)
      PROVE  UNCHANGED nacked
  BY <1>5 DEF ProcessAndBroadcast, RecoverEffect
<1>6. ASSUME NEW s \in Session, Connect(s) \/ ReceiveEffect(s)
      PROVE  UNCHANGED nacked
  BY <1>6 DEF Connect, ReceiveEffect
<1>7. ASSUME Crash \/ Restart \/ UNCHANGED vars
      PROVE  UNCHANGED nacked
  BY <1>7 DEF Crash, Restart, vars
<1> QED
  BY <1>1, <1>2, <1>3, <1>4, <1>5, <1>6, <1>7 DEF Next, Handle, Send, Document

\* A send that holds the lock keeps it until its dispatch is stored, its transport is
\* gone or a transaction failed.
LEMMA SendingMoves ==
  ASSUME HubInv, [Next]_vars, faults' = 0, NEW t \in Task, tasks[t].stage = "sending",
         link'[tasks[t].to] = "open", NEW e \in Event, tasks[t].item = e
  PROVE  tasks'[t] = tasks[t] \/ "sent" \in dispatches'[e][SessionOf(t)]
<1>1. CASE Crash
  <2>1. tasks[t].to \in Conn
    BY DEF HubInv, TypeOK
  <2> QED
    BY <1>1, <2>1 DEF Crash
<1>2. CASE Send(t)
  <2>1. SendReturns(t) \/ SendFails(t) \/ SendRaises(t)
    BY <1>2 DEF Send, BeginSend, TakeLock, NoConnection
  <2>2. ~ SendFails(t)
    BY DEF SendFails, network
  <2>3. ~ SendRaises(t)
    <3>1. faults \in Nat
      BY BoundAssumption DEF HubInv, TypeOK
    <3>2. SendRaises(t) => faults' = faults + 1
      BY DEF SendRaises, Fault
    <3> QED
      BY <3>1, <3>2
  <2>4. SessionOf(t) \in Session /\ StoreTypes
    BY SenderSession, TypeParts DEF HubInv
  <2>5. IF IsEffect(t) THEN RecordDispatch(t, "sent") ELSE UNCHANGED <<dispatches, milestones>>
    BY <2>1, <2>2, <2>3 DEF SendReturns
  <2> QED
    BY <2>4, <2>5, OutcomeFacts
<1> QED
  BY <1>1, <1>2, TaskFate

-----------------------------------------------------------------------------
(* No genuine acknowledgment is refused *)

AckInv == FrameInv /\ Dispatching /\ NoGenuineAckRefused

LEMMA DispatchingNext ==
  ASSUME AckInv, [Next]_vars
  PROVE  Dispatching'
<1> SUFFICES ASSUME faults' = 0, NEW c \in Conn, link'[c] = "open", NEW e \in InFlight(c)'
             PROVE  \/ "sent" \in dispatches'[e][owner'[c]]
                    \/ \E t \in Task : /\ tasks'[t].stage = "sending" /\ tasks'[t].item = e
                                       /\ tasks'[t].to = c
  BY DEF Dispatching
<1>1. HubInv /\ DrawnOnce /\ Frames /\ Dispatching /\ faults = 0
  BY FaultsGrow DEF AckInv, FrameInv, Frames, DrawnOnce
<1>2. FrameMove(c)
  BY <1>1, FrameMoves
<1>3. CASE e \in InFlight(c)
  <2>1. e \in Event
    BY <1>1, <1>3, RangeFacts DEF InFlight, HubInv, TypeOK
  <2>2. pc[c] # "idle"
    BY <1>1, <1>3, RangeEmpty DEF HubInv, Sockets, InFlight
  <2>3. owner'[c] = owner[c] /\ owner[c] \in Session
    BY <1>1, <2>2, PcMoves DEF PcMove, HubInv, Sockets
  <2>4. link[c] = "open"
    BY <1>1, <2>2, WireMoves DEF WireMove
  <2>5. CASE "sent" \in dispatches[e][owner[c]]
    <3>1. dispatches[e][owner[c]] \subseteq dispatches'[e][owner[c]]
      BY <1>1, <2>1, <2>3, StoreMoves
    <3> QED
      BY <2>3, <2>5, <3>1
  <2>6. ASSUME NEW t \in Task, tasks[t].stage = "sending", tasks[t].item = e, tasks[t].to = c
        PROVE  tasks'[t] = tasks[t] \/ "sent" \in dispatches'[e][owner[c]]
    <3>1. SessionOf(t) = owner[c]
      BY <1>1, <2>6 DEF HubInv, Owned
    <3> QED
      BY <1>1, <2>1, <2>6, <3>1, SendingMoves
  <2> QED
    BY <1>1, <1>3, <2>3, <2>4, <2>5, <2>6 DEF Dispatching
<1>4. CASE e \notin InFlight(c)
  BY <1>2, <1>4 DEF FrameMove, InFlight
<1> QED
  BY <1>3, <1>4

LEMMA NoNackNext ==
  ASSUME AckInv, [Next]_vars
  PROVE  NoGenuineAckRefused'
<1> SUFFICES ASSUME faults' = 0 PROVE nacked' = {}
  BY DEF NoGenuineAckRefused
<1>1. HubInv /\ HubInv' /\ Frames /\ Dispatching /\ faults = 0 /\ nacked = {}
  BY FaultsGrow, HubNext DEF AckInv, FrameInv, NoGenuineAckRefused
<1>2. nacked' \subseteq Event \X Session
  BY <1>1 DEF HubInv, TypeOK
<1>3. ASSUME NEW k \in Conn, link[k] = "open", ~ Locked(k), NEW x \in Range(toServer[k])
      PROVE  Eligible(x, owner[k])
  <2>1. x \in InFlight(k)
    BY <1>3 DEF InFlight
  <2>2. x \in processed
    BY <1>1, <2>1 DEF Frames
  <2>3. "sent" \in dispatches[x][owner[k]]
    BY <1>1, <1>3, <2>1 DEF Dispatching, Locked
  <2> QED
    BY <2>2, <2>3 DEF Eligible
<1>4. ASSUME NEW u \in nacked' PROVE FALSE
  <2>1. \E k \in Conn :
          /\ link[k] = "open" /\ ~ Locked(k) /\ pc[k] = "serving"
          /\ \E x \in Range(toServer[k]) : u = <<x, owner[k]>> /\ ~ Eligible(x, owner[k])
    BY <1>1, <1>2, <1>4, NackMoves
  <2> QED
    BY <1>3, <2>1
<1> QED
  BY <1>4

\* A frame that reached the server was sent by a call that has stored its dispatch or
\* still holds the lock the acknowledgment waits for.
THEOREM AcksAreRecordedBeforeTheLockIsFree == Spec => []AckInv
<1>1. Init => AckInv
  <2> SUFFICES ASSUME Init PROVE AckInv
    OBVIOUS
  <2>1. \A c \in Conn : InFlight(c) = {}
    BY RangeEmpty DEF Init, InFlight
  <2>2. Dispatching /\ NoGenuineAckRefused
    BY <2>1 DEF Dispatching, NoGenuineAckRefused, Init
  <2> QED
    BY <2>2, FrameInit DEF AckInv
<1>2. AckInv /\ [Next]_vars => AckInv'
  <2>1. ASSUME AckInv, [Next]_vars PROVE FrameInv'
    BY <2>1, FrameNext DEF AckInv
  <2> QED
    BY <2>1, DispatchingNext, NoNackNext DEF AckInv
<1> QED
  BY <1>1, <1>2, PTL DEF Spec

\* record_render_ack runs under the connection's send_lock, so an answer that comes
\* before the send has returned is not refused for want of its dispatch.
THEOREM NoGenuineAckIsRefused == Spec => []NoGenuineAckRefused
<1>1. AckInv => NoGenuineAckRefused
  BY DEF AckInv
<1> QED
  BY <1>1, AcksAreRecordedBeforeTheLockIsFree, PTL

-----------------------------------------------------------------------------
(* No effect is lost between the replay and the broadcasts *)

\* A send that will still transmit to connection c.
Queued(t, c) ==
  \/ tasks[t].stage = "start"
  \/ tasks[t].stage = "waiting" /\ tasks[t].to = c

Covered(c, e) ==
  \/ e \in Rendered(owner[c])
  \/ e \in Range(toBrowser[c])
  \/ Queued(CastTask(e, owner[c]), c)

\* What a replay still has before it.
Outstanding(c, e) ==
  \/ e \in replay[c]
  \/ tasks[HandlerTask(c)].item = e /\ Queued(HandlerTask(c), c)

ReplayStates == {"replaying", "serving", "replying"}

\* NoEffectLost also during the replay.
Delivering ==
  \A c \in Conn : pc[c] \in ReplayStates /\ link[c] = "open" =>
    \A e \in processed : Covered(c, e) \/ (pc[c] = "replaying" /\ Outstanding(c, e))

\* Without a process there is no handler.
Down == ~ up => \A c \in Conn : pc[c] \in {"idle", "ended"}

DeliveryInv == FrameInv /\ Down /\ Delivering

\* A queued send transmits or stays queued while its transport works.
LEMMA QueuedStays ==
  ASSUME HubInv, [Next]_vars, NEW t \in Task, NEW c \in Conn, Queued(t, c),
         registry[SessionOf(t)] = c, link[c] = "open", link'[c] = "open",
         NEW e \in Event, tasks[t].item = e
  PROVE  (tasks'[t].item = e /\ Queued(t, c)') \/ e \in Range(toBrowser'[c])
<1>1. CASE tasks'[t] = tasks[t]
  BY <1>1 DEF Queued
<1>2. ASSUME Transmit(t, c)
      PROVE  e \in Range(toBrowser'[c])
  <2>1. toBrowser \in [Conn -> Seq(Event)] /\ IsEffect(t)
    BY DEF HubInv, TypeOK, IsEffect
  <2>2. toBrowser' = [toBrowser EXCEPT ![c] = Append(toBrowser[c], e)]
    BY <1>2, <2>1 DEF Transmit
  <2>3. toBrowser'[c] = Append(toBrowser[c], e) /\ toBrowser[c] \in Seq(Event)
    BY <2>1, <2>2
  <2> QED
    BY <2>3, RangeFacts
<1>3. CASE BeginSend(t)
  <2>1. CASE Locked(c)
    <3>1. tasks' = [tasks EXCEPT ![t].stage = "waiting", ![t].to = c]
      BY <1>3, <2>1 DEF BeginSend
    <3>2. tasks \in [Task -> TaskStates]
      BY TypeParts DEF HubInv, TaskTypes
    <3>3. tasks'[t].stage = "waiting" /\ tasks'[t].to = c /\ tasks'[t].item = e
      BY <3>1, <3>2 DEF TaskStates
    <3> QED
      BY <3>3 DEF Queued
  <2>2. CASE ~ Locked(c)
    BY <1>2, <1>3, <2>2 DEF BeginSend
  <2> QED
    BY <2>1, <2>2
<1>4. CASE TakeLock(t)
  <2>1. tasks[t].to = c /\ Transmit(t, tasks[t].to)
    BY <1>4 DEF TakeLock, Queued
  <2> QED
    BY <1>2, <2>1
<1>5. ~ NoConnection(t)
  BY DEF NoConnection, None, Conn
<1>6. ~ SendReturns(t) /\ ~ SendFails(t)
  BY DEF SendReturns, SendFails, Queued
<1>7. ~ SendRaises(t)
  BY DEF SendRaises, Queued, None, Conn
<1>8. ~ Crash
  BY DEF Crash
<1>9. tasks[t].stage # "off"
  BY DEF Queued
<1> QED
  BY <1>1, <1>3, <1>4, <1>5, <1>6, <1>7, <1>8, <1>9, TaskFate DEF Send

LEMMA CoveredStays ==
  ASSUME FrameInv, [Next]_vars, NEW c \in Conn, NEW e \in processed, pc[c] \in LiveStates,
         link[c] = "open", link'[c] = "open", Covered(c, e)
  PROVE  Covered(c, e)'
<1>1. HubInv /\ DrawnOnce /\ Frames
  BY DEF FrameInv, Frames, DrawnOnce
<1>2. e \in Event /\ owner[c] \in Session /\ owner'[c] = owner[c]
  <2>1. pc[c] # "idle"
    BY DEF LiveStates, SendStates
  <2> QED
    BY <1>1, <2>1, PcMoves DEF PcMove, HubInv, Sockets, TypeOK
<1>3. cards[owner[c]][e] = 1 => cards'[owner[c]][e] = 1
  BY <1>1, <1>2, CardMoves
<1>4. cards'[owner[c]][e] = 1 => Covered(c, e)'
  BY <1>2 DEF Covered, Rendered
<1>5. CASE e \in Rendered(owner[c])
  <2>1. cards[owner[c]][e] = 1
    BY <1>1, <1>2, <1>5 DEF Rendered, DrawnOnce
  <2> QED
    BY <1>3, <1>4, <2>1
<1>6. CASE e \in Range(toBrowser[c])
  <2>1. e \in Range(toBrowser'[c]) \/ cards'[owner[c]][e] = 1
    BY <1>1, <1>6, FrameMoves DEF FrameMove
  <2> QED
    BY <1>4, <2>1 DEF Covered
<1>7. CASE Queued(CastTask(e, owner[c]), c)
  <2> DEFINE t == CastTask(e, owner[c])
  <2>1. t \in Task /\ SessionOf(t) = owner[c] /\ tasks[t].stage # "off"
    BY <1>2, <1>7, TaskKinds, SessionOfTask DEF Queued
  <2>2. tasks[t].item = e
    BY <1>1, <1>2, <2>1 DEF HubInv, Tasked
  <2>3. registry[SessionOf(t)] = c
    BY <1>1, <2>1 DEF HubInv, LiveConnectionIsRegistered, LiveStates, SendStates
  <2>4. Queued(t, c)' \/ e \in Range(toBrowser'[c])
    BY <1>1, <1>2, <1>7, <2>1, <2>2, <2>3, QueuedStays
  <2>5. Queued(t, c)' => Covered(c, e)'
    BY <1>2 DEF Covered, Queued
  <2> QED
    BY <2>4, <2>5 DEF Covered
<1> QED
  BY <1>5, <1>6, <1>7 DEF Covered

\* A handler gets into and through its replay by its own sends only.
LEMMA HandlerFate ==
  ASSUME HubInv, [Next]_vars
  PROVE  \A d \in Conn : pc'[d] \in ReplayStates =>
           \/ /\ pc'[d] = pc[d] \/ pc[d] \in ReplayStates \ {"replaying"}
              /\ replay'[d] = replay[d]
           \/ NoConnection(HandlerTask(d)) \/ SendReturns(HandlerTask(d))
           \/ SendFails(HandlerTask(d))
<1>1. pc \in [Conn -> PcStates] /\ replay \in [Conn -> SUBSET Event]
  BY TypeParts DEF HubInv, HandlerTypes
<1>2. ASSUME NEW c \in Conn, NEW state, pc' = [pc EXCEPT ![c] = state],
             state \notin ReplayStates, \A d \in Conn : d # c => replay'[d] = replay[d]
      PROVE  \A d \in Conn : pc'[d] \in ReplayStates =>
           \/ /\ pc'[d] = pc[d] \/ pc[d] \in ReplayStates \ {"replaying"}
              /\ replay'[d] = replay[d]
           \/ NoConnection(HandlerTask(d)) \/ SendReturns(HandlerTask(d))
           \/ SendFails(HandlerTask(d))
  BY <1>1, <1>2
<1>3. ASSUME NEW c \in Conn, Register(c) \/ PreviousClosed(c) \/ AcceptFails(c)
      PROVE  \A d \in Conn : pc'[d] \in ReplayStates =>
           \/ /\ pc'[d] = pc[d] \/ pc[d] \in ReplayStates \ {"replaying"}
              /\ replay'[d] = replay[d]
           \/ NoConnection(HandlerTask(d)) \/ SendReturns(HandlerTask(d))
           \/ SendFails(HandlerTask(d))
  <2>1. /\ \/ pc' = [pc EXCEPT ![c] = "greeting"]
           \/ pc' = [pc EXCEPT ![c] = "replacing"]
           \/ pc' = [pc EXCEPT ![c] = "ended"]
        /\ UNCHANGED replay
    BY <1>3 DEF Register, PreviousClosed, AcceptFails
  <2> QED
    BY <1>2, <2>1 DEF ReplayStates
<1>4. ASSUME NEW c \in Conn, OpenFails(c) \/ PreviousCloseRaises(c) \/ Disconnect(c)
                             \/ DisconnectFails(c) \/ HandleRenderAckFails(c)
      PROVE  \A d \in Conn : pc'[d] \in ReplayStates =>
           \/ /\ pc'[d] = pc[d] \/ pc[d] \in ReplayStates \ {"replaying"}
              /\ replay'[d] = replay[d]
           \/ NoConnection(HandlerTask(d)) \/ SendReturns(HandlerTask(d))
           \/ SendFails(HandlerTask(d))
  <2>1. pc' = [pc EXCEPT ![c] = "ended"] /\ replay' = [replay EXCEPT ![c] = {}]
    BY <1>4 DEF OpenFails, PreviousCloseRaises, HandlerDies, Disconnect, DisconnectFails,
      HandleRenderAckFails, EndHandler, Forget
  <2>2. \A d \in Conn : d # c => replay'[d] = replay[d]
    BY <1>1, <2>1
  <2> QED
    BY <1>2, <2>1, <2>2 DEF ReplayStates
<1>5. ASSUME NEW c \in Conn, HandleRenderAck(c)
      PROVE  \A d \in Conn : pc'[d] \in ReplayStates =>
           \/ /\ pc'[d] = pc[d] \/ pc[d] \in ReplayStates \ {"replaying"}
              /\ replay'[d] = replay[d]
           \/ NoConnection(HandlerTask(d)) \/ SendReturns(HandlerTask(d))
           \/ SendFails(HandlerTask(d))
  <2>1. pc[c] = "serving" /\ pc' = [pc EXCEPT ![c] = "replying"] /\ UNCHANGED replay
    BY <1>5 DEF HandleRenderAck, handlers
  <2> QED
    BY <1>1, <2>1 DEF ReplayStates
<1>6. ASSUME NEW s \in Session, Connect(s)
      PROVE  \A d \in Conn : pc'[d] \in ReplayStates =>
           \/ /\ pc'[d] = pc[d] \/ pc[d] \in ReplayStates \ {"replaying"}
              /\ replay'[d] = replay[d]
           \/ NoConnection(HandlerTask(d)) \/ SendReturns(HandlerTask(d))
           \/ SendFails(HandlerTask(d))
  <2>1. PICK c \in Conn : pc' = [pc EXCEPT ![c] = "accepting"]
    BY <1>6, ConnectFacts DEF Opens
  <2>2. UNCHANGED replay
    BY <1>6 DEF Connect
  <2> QED
    BY <1>2, <2>1, <2>2 DEF ReplayStates
<1>7. ASSUME NEW t \in Task, NoConnection(t) \/ SendReturns(t) \/ SendFails(t)
      PROVE  \A d \in Conn : pc'[d] \in ReplayStates =>
           \/ /\ pc'[d] = pc[d] \/ pc[d] \in ReplayStates \ {"replaying"}
              /\ replay'[d] = replay[d]
           \/ NoConnection(HandlerTask(d)) \/ SendReturns(HandlerTask(d))
           \/ SendFails(HandlerTask(d))
  <2>1. Finish(t) /\ tasks[t].stage # "off"
    BY <1>7, SendIsActive DEF NoConnection, SendReturns, SendFails, Send
  <2>2. ASSUME NEW d \in Conn, t # HandlerTask(d)
        PROVE  pc'[d] = pc[d] /\ replay'[d] = replay[d]
    BY <2>1, <2>2, FinishFacts
  <2> QED
    BY <1>7, <2>2
<1>8. ASSUME NEW t \in Task, SendRaises(t)
      PROVE  \A d \in Conn : pc'[d] \in ReplayStates =>
           \/ /\ pc'[d] = pc[d] \/ pc[d] \in ReplayStates \ {"replaying"}
              /\ replay'[d] = replay[d]
           \/ NoConnection(HandlerTask(d)) \/ SendReturns(HandlerTask(d))
           \/ SendFails(HandlerTask(d))
  <2>1. Raise(t)
    BY <1>8 DEF SendRaises
  <2>2. ASSUME NEW c \in Conn, HandlerDies(c)
        PROVE  pc' = [pc EXCEPT ![c] = "ended"] /\ \A d \in Conn : d # c => replay'[d] = replay[d]
    BY <1>1, <2>2 DEF HandlerDies, Forget
  <2>3. "ended" \notin ReplayStates
    BY DEF ReplayStates
  <2> QED
    BY <1>2, <2>1, <2>2, <2>3, RaiseFacts DEF HubInv
<1>9. CASE Crash
  BY <1>9 DEF Crash, ReplayStates
<1>10. ASSUME UNCHANGED <<pc, replay>>
      PROVE  \A d \in Conn : pc'[d] \in ReplayStates =>
           \/ /\ pc'[d] = pc[d] \/ pc[d] \in ReplayStates \ {"replaying"}
              /\ replay'[d] = replay[d]
           \/ NoConnection(HandlerTask(d)) \/ SendReturns(HandlerTask(d))
           \/ SendFails(HandlerTask(d))
  BY <1>10
<1>11. ASSUME NEW c \in Conn, Break(c)
      PROVE  UNCHANGED <<pc, replay>>
  BY <1>11 DEF Break, handlers
<1>12. ASSUME NEW t \in Task, BeginSend(t) \/ TakeLock(t)
      PROVE  UNCHANGED <<pc, replay>>
  BY <1>12 DEF BeginSend, TakeLock, handlers
<1>13. ASSUME NEW e \in Event, ProcessAndBroadcast(e) \/ RecoverEffect(e)
      PROVE  UNCHANGED <<pc, replay>>
  BY <1>13 DEF ProcessAndBroadcast, RecoverEffect, handlers
<1>14. ASSUME NEW s \in Session, ReceiveEffect(s)
      PROVE  UNCHANGED <<pc, replay>>
  BY <1>14 DEF ReceiveEffect, handlers
<1>15. ASSUME Restart \/ UNCHANGED vars
      PROVE  UNCHANGED <<pc, replay>>
  BY <1>15 DEF Restart, vars, handlers
<1> QED
  BY <1>3, <1>4, <1>5, <1>6, <1>7, <1>8, <1>9, <1>10, <1>11, <1>12, <1>13, <1>14, <1>15
  DEF Next, Handle, Send, Document

\* An effect is processed with a broadcast, or while there is no process.
LEMMA ProcessedMoves ==
  ASSUME [Next]_vars
  PROVE  \A x \in Event :
           x \in processed' \ processed => ProcessAndBroadcast(x) \/ RecoverEffect(x)
<1>1. ASSUME NEW e \in Event, ProcessAndBroadcast(e) \/ RecoverEffect(e)
      PROVE  \A x \in Event :
           x \in processed' \ processed => ProcessAndBroadcast(x) \/ RecoverEffect(x)
  BY <1>1 DEF ProcessAndBroadcast, RecoverEffect
<1>2. ASSUME UNCHANGED processed
      PROVE  \A x \in Event :
           x \in processed' \ processed => ProcessAndBroadcast(x) \/ RecoverEffect(x)
  BY <1>2
<1>3. ASSUME NEW c \in Conn, Register(c) \/ AcceptFails(c) \/ OpenFails(c)
                             \/ PreviousClosed(c) \/ PreviousCloseRaises(c) \/ Disconnect(c)
                             \/ DisconnectFails(c) \/ HandleRenderAck(c)
                             \/ HandleRenderAckFails(c) \/ Break(c)
      PROVE  UNCHANGED processed
  BY <1>3 DEF Register, AcceptFails, OpenFails, PreviousClosed, PreviousCloseRaises, Disconnect,
    DisconnectFails, HandleRenderAck, HandleRenderAckFails, Break, database
<1>4. ASSUME NEW t \in Task, BeginSend(t) \/ TakeLock(t) \/ NoConnection(t) \/ SendReturns(t)
                             \/ SendFails(t) \/ SendRaises(t)
      PROVE  UNCHANGED processed
  BY <1>4 DEF BeginSend, TakeLock, NoConnection, SendReturns, SendFails, SendRaises, Finish,
    Raise, database
<1>5. ASSUME NEW s \in Session, Connect(s) \/ ReceiveEffect(s)
      PROVE  UNCHANGED processed
  BY <1>5 DEF Connect, ReceiveEffect, database
<1>6. ASSUME Crash \/ Restart \/ UNCHANGED vars
      PROVE  UNCHANGED processed
  BY <1>6 DEF Crash, Restart, vars, database
<1> QED
  BY <1>1, <1>2, <1>3, <1>4, <1>5, <1>6 DEF Next, Handle, Send, Document

LEMMA DownNext ==
  ASSUME Down, [Next]_vars
  PROVE  Down'
<1>1. ASSUME NEW c \in Conn, Register(c) \/ AcceptFails(c) \/ OpenFails(c) \/ PreviousClosed(c)
                             \/ PreviousCloseRaises(c) \/ Disconnect(c) \/ DisconnectFails(c)
                             \/ HandleRenderAck(c) \/ HandleRenderAckFails(c)
      PROVE  up'
  BY <1>1 DEF Register, AcceptFails, OpenFails, PreviousClosed, PreviousCloseRaises, Disconnect,
    DisconnectFails, HandleRenderAck, HandleRenderAckFails
<1>2. ASSUME NEW t \in Task, Send(t)
      PROVE  up'
  BY <1>2 DEF Send, BeginSend, TakeLock, NoConnection, SendReturns, SendFails, SendRaises
<1>3. ASSUME NEW e \in Event, ProcessAndBroadcast(e)
      PROVE  up'
  BY <1>3 DEF ProcessAndBroadcast
<1>4. ASSUME NEW s \in Session, Connect(s)
      PROVE  up'
  BY <1>4 DEF Connect
<1>5. CASE Restart
  BY <1>5 DEF Restart, Down
<1>6. CASE Crash
  BY <1>6 DEF Crash, Down
<1>7. ASSUME UNCHANGED <<up, pc>>
      PROVE  Down'
  BY <1>7 DEF Down
<1>8. ASSUME NEW c \in Conn, Break(c)
      PROVE  UNCHANGED <<up, pc>>
  BY <1>8 DEF Break, handlers
<1>9. ASSUME NEW e \in Event, RecoverEffect(e)
      PROVE  UNCHANGED <<up, pc>>
  BY <1>9 DEF RecoverEffect, handlers
<1>10. ASSUME NEW s \in Session, ReceiveEffect(s)
      PROVE  UNCHANGED <<up, pc>>
  BY <1>10 DEF ReceiveEffect, handlers
<1>11. ASSUME UNCHANGED vars
      PROVE  UNCHANGED <<up, pc>>
  BY <1>11 DEF vars, handlers
<1>12. up' => Down'
  BY DEF Down
<1> QED
  BY <1>1, <1>2, <1>3, <1>4, <1>5, <1>6, <1>7, <1>8, <1>9, <1>10, <1>11, <1>12
  DEF Next, Handle, Document

LEMMA DeliveringNext ==
  ASSUME DeliveryInv, [Next]_vars
  PROVE  Delivering'
<1> SUFFICES ASSUME NEW c \in Conn, pc'[c] \in ReplayStates, link'[c] = "open",
                    NEW e \in processed'
             PROVE  Covered(c, e)' \/ (pc'[c] = "replaying" /\ Outstanding(c, e)')
  BY DEF Delivering
<1> DEFINE h == HandlerTask(c)
<1>1. HubInv /\ DrawnOnce /\ Frames /\ RenderEvidence /\ Down /\ Delivering /\ FrameInv
  BY DEF DeliveryInv, FrameInv, Frames, DrawnOnce
<1>2. e \in Event
  BY <1>1, HubNext DEF HubInv, TypeOK
<1>3. h \in Task /\ SessionOf(h) = owner[c]
  BY TaskKinds, SessionOfTask
<1>4. \/ /\ pc'[c] = pc[c] \/ pc[c] \in ReplayStates \ {"replaying"}
         /\ replay'[c] = replay[c]
      \/ NoConnection(h) \/ SendReturns(h) \/ SendFails(h)
  BY <1>1, HandlerFate
<1>5. pc[c] \in LiveStates /\ (pc[c] \in ReplayStates \/ tasks[h].stage # "off")
  <2>1. CASE NoConnection(h) \/ SendReturns(h) \/ SendFails(h)
    <3>1. tasks[h].stage # "off"
      BY <1>3, <2>1, SendIsActive DEF Send
    <3> QED
      BY <1>1, <3>1 DEF HubInv, Tasked, LiveStates
  <2>2. CASE pc'[c] = pc[c] \/ pc[c] \in ReplayStates \ {"replaying"}
    BY <2>2 DEF ReplayStates, LiveStates, SendStates
  <2> QED
    BY <1>4, <2>1, <2>2
<1>6. /\ owner[c] \in Session /\ owner'[c] = owner[c] /\ link[c] = "open"
      /\ registry[owner[c]] = c
  <2>1. pc[c] \notin {"idle", "accepting"}
    BY <1>5 DEF LiveStates, SendStates
  <2>2. owner[c] \in Session /\ owner'[c] = owner[c] /\ link[c] = "open"
    BY <1>1, <2>1, PcMoves, WireMoves DEF PcMove, WireMove, HubInv, Sockets
  <2>3. registry[owner[c]] = c
    BY <1>1, <1>5, <2>2 DEF HubInv, LiveConnectionIsRegistered, LiveStates, SendStates
  <2> QED
    BY <2>2, <2>3
<1>7. ASSUME e \in processed, Covered(c, e)
      PROVE  Covered(c, e)'
  BY <1>1, <1>5, <1>6, <1>7, CoveredStays
<1>8. CASE e \notin processed
  <2>1. up
    BY <1>1, <1>5 DEF Down, LiveStates, SendStates
  <2>2. ProcessAndBroadcast(e)
    <3>1. ProcessAndBroadcast(e) \/ RecoverEffect(e)
      BY <1>2, <1>8, ProcessedMoves
    <3> QED
      BY <2>1, <3>1 DEF RecoverEffect
  <2>3. CastTask(e, owner[c]) \in Task
    BY <1>2, <1>6, TaskKinds
  <2>4. tasks'[CastTask(e, owner[c])].stage = "start"
    BY <1>6, <2>2, <2>3 DEF ProcessAndBroadcast, None, Conn
  <2> QED
    BY <1>6, <2>4 DEF Covered, Queued
<1>9. CASE e \in processed /\ (NoConnection(h) \/ SendReturns(h) \/ SendFails(h))
  <2>1. Finish(h) /\ tasks[h].stage # "off"
    BY <1>3, <1>9, SendIsActive DEF NoConnection, SendReturns, SendFails, Send
  <2>2. ~ NoConnection(h)
    BY <1>3, <1>6 DEF NoConnection, None, Conn
  <2>3. tasks[h].stage = "sending"
    BY <1>9, <2>2 DEF SendReturns, SendFails
  <2>4. \/ /\ pc[c] \in {"greeting", "replaying"} /\ pc'[c] = "replaying"
           /\ tasks'[h].stage = "start" /\ tasks'[h].item \in Rest(c)
           /\ replay'[c] = Rest(c) \ {tasks'[h].item}
        \/ /\ pc'[c] = "serving"
           /\ pc[c] \in {"greeting", "replaying"} => Rest(c) = {}
    BY <1>1, <1>3, <2>1, FinishFacts
  <2>5. e \in Rest(c) /\ pc[c] \in {"greeting", "replaying"} =>
          pc'[c] = "replaying" /\ Outstanding(c, e)'
    BY <2>4 DEF Outstanding, Queued
  <2>6. CASE pc[c] = "greeting"
    <3>1. CASE <<e, owner[c]>> \in acks
      <4>1. cards[owner[c]][e] = 1
        BY <1>1, <1>2, <1>6, <3>1 DEF RenderEvidence
      <4>2. Covered(c, e)
        BY <1>2, <4>1 DEF Covered, Rendered
      <4> QED
        BY <1>7, <1>9, <4>2
    <3>2. CASE <<e, owner[c]>> \notin acks
      <4>1. e \in Rest(c)
        BY <1>9, <2>6, <3>2 DEF Rest, Pending
      <4> QED
        BY <2>5, <2>6, <4>1
    <3> QED
      BY <3>1, <3>2
  <2>7. CASE pc[c] = "replaying"
    <3>1. Covered(c, e) \/ Outstanding(c, e)
      BY <1>1, <1>6, <1>9, <2>7 DEF Delivering, ReplayStates
    <3>2. CASE Outstanding(c, e)
      <4>1. e \in Rest(c)
        BY <2>3, <2>7, <3>2 DEF Outstanding, Queued, Rest
      <4> QED
        BY <2>5, <2>7, <4>1
    <3> QED
      BY <1>7, <1>9, <3>1, <3>2
  <2>8. CASE pc[c] \in {"serving", "replying"}
    <3>1. Covered(c, e)
      BY <1>1, <1>6, <1>9, <2>8 DEF Delivering, ReplayStates
    <3> QED
      BY <1>7, <1>9, <3>1
  <2>9. pc[c] \in SendStates
    BY <1>1, <2>1 DEF HubInv, Tasked
  <2> QED
    BY <2>6, <2>7, <2>8, <2>9 DEF SendStates
<1>10. CASE /\ e \in processed /\ replay'[c] = replay[c]
            /\ pc'[c] = pc[c] \/ pc[c] \in ReplayStates \ {"replaying"}
  <2>1. Covered(c, e) \/ (pc[c] = "replaying" /\ Outstanding(c, e))
    BY <1>1, <1>6, <1>10 DEF Delivering
  <2>2. CASE pc[c] = "replaying" /\ Outstanding(c, e)
    <3>1. pc'[c] = "replaying"
      BY <1>10, <2>2
    <3>2. CASE e \in replay[c]
      BY <1>10, <3>1, <3>2 DEF Outstanding
    <3>3. CASE tasks[h].item = e /\ Queued(h, c)
      <4>1. (tasks'[h].item = e /\ Queued(h, c)') \/ e \in Range(toBrowser'[c])
        BY <1>1, <1>2, <1>3, <1>6, <3>3, QueuedStays
      <4> QED
        BY <3>1, <4>1 DEF Outstanding, Covered
    <3> QED
      BY <2>2, <3>2, <3>3 DEF Outstanding
  <2> QED
    BY <1>7, <1>10, <2>1, <2>2
<1> QED
  BY <1>4, <1>8, <1>9, <1>10

\* What a serving handler's document has not yet, the broadcast still holds; what a
\* replay has not covered, it still has before it.
THEOREM DeliveryInvariant == Spec => []DeliveryInv
<1>1. Init => DeliveryInv
  BY FrameInit DEF Init, DeliveryInv, Down, Delivering, ReplayStates
<1>2. DeliveryInv /\ [Next]_vars => DeliveryInv'
  <2>1. ASSUME DeliveryInv, [Next]_vars PROVE FrameInv' /\ Down' /\ Delivering'
    <3>1. FrameInv /\ Down
      BY <2>1 DEF DeliveryInv
    <3>2. FrameInv'
      BY <2>1, <3>1, FrameNext
    <3>3. Down'
      BY <2>1, <3>1, DownNext
    <3>4. Delivering'
      BY <2>1, DeliveringNext
    <3> QED
      BY <3>2, <3>3, <3>4
  <2> QED
    BY <2>1 DEF DeliveryInv
<1> QED
  BY <1>1, <1>2, PTL DEF Spec

\* overlay_socket registers before it queries the effects to replay, so an effect is
\* either replayed or broadcast to the connection, however the two interleave.
THEOREM NoEffectIsLost == Spec => []NoEffectLost
<1>1. DeliveryInv => NoEffectLost
  <2> SUFFICES ASSUME DeliveryInv, NEW c \in Conn, pc[c] \in {"serving", "replying"},
                      link[c] = "open", NEW e \in processed
               PROVE  Covered(c, e)
    BY DEF NoEffectLost, Covered, Queued
  <2> QED
    BY DEF DeliveryInv, Delivering, ReplayStates
<1> QED
  BY <1>1, DeliveryInvariant, PTL

=============================================================================
