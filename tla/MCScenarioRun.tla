---------------------------- MODULE MCScenarioRun ----------------------------
(***************************************************************************)
(* Small instances of ScenarioRun: one or two events, four sockets.         *)
(***************************************************************************)
EXTENDS ScenarioRun

CONSTANT r1

OneRun      == {r1}
OneEvent    == {1}
TwoEvents   == {1, 2}
ThreeSockets == 1 .. 3
FourSockets  == 1 .. 4
OneManifest == [r \in OneRun |-> OneEvent]
TwoManifest == [r \in OneRun |-> TwoEvents]
OneSequence == [e \in OneEvent |-> e]
TwoSequence == [e \in TwoEvents |-> e]

Fine == [invalid |-> {}, duplicate |-> {}, delayed |-> {}, disconnect |-> None, order |-> <<1>>]

\* Out of order: a reconnect, then a held event with a planned duplicate; the held
\* one first, then an invalid event; two plain events; and invalid payloads of both kinds.
Burst     == [Fine EXCEPT !.duplicate = {1}, !.delayed = {1}, !.order = <<2, 1>>, !.disconnect = 2]
Mixed     == [Fine EXCEPT !.duplicate = {2}, !.delayed = {2}, !.order = <<2, 1>>, !.invalid = {1}]
Swapped   == [Fine EXCEPT !.order = <<2, 1>>]
Invalids  == [Fine EXCEPT !.invalid = {1, 2}, !.order = <<1, 2>>]
TwoPlans  == {Burst, Mixed, Swapped, Invalids}

\* One event: a forced reconnect, a held event with its duplicate, or nothing but it.
Reconnect == [Fine EXCEPT !.disconnect = 1]
Held      == [Fine EXCEPT !.duplicate = {1}, !.delayed = {1}]
OnePlans  == {Reconnect, Held, Fine}

\* What the runner can send.
MessagesOf(numbers) ==
  [shape : {"valid"}, event : numbers, run : OneRun, content : {"manifest"}]
    \cup [shape : {"invalid"}, event : numbers, run : OneRun, content : {"altered"}]
    \cup {[shape |-> "malformed", event |-> NoEvent, run |-> NoRun, content |-> "altered"]}
OneMessages == MessagesOf(OneEvent)
TwoMessages == MessagesOf(TwoEvents)

\* Acknowledgments before the run's completion change nothing anyone reads.
RenderLate == rendered # {} => runs[TheRun] = "completed"

\* A second loss is followed only in the plans with one delivery per event.
LossesBudget == losses <= (IF plan.duplicate = {} THEN 2 ELSE 1)

Explored == RenderLate /\ LossesBudget

\* At most one misfortune in a run: a crash or a failing transaction, or, where the
\* plan itself asks for no second delivery, a broken connection or a timeout.
OneMisfortune ==
  IF plan = Fine THEN crashes + faults + expiries = 0 ELSE losses = 0 /\ crashes + faults <= 1

\* The part of the timeline a verdict can still depend on: of the reconnect only what
\* precedes the recovery marker and concerns the forced socket or the one in use
\* (an abandoned socket is never a recovery's), and the first attempts of the delayed.
Telling(entry) ==
  \/ entry.conn = socket
  \/ \E t \in Times("forced_disconnect", TheRun) : timeline[t].conn = entry.conn
  \/ entry.kind = "delay_injected"
  \/ entry.kind = "received" /\ attempts[entry.of].event \in plan.delayed
UpToRecovery ==
  LET T == Times("recovery_complete", TheRun) IN
  IF T = {} THEN timeline ELSE SubSeq(timeline, 1, Max(T))
View == <<vars, runnerVars, config, retries, overlays, rendered, SelectSeq(UpToRecovery, Telling)>>

=============================================================================
