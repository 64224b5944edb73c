---------------------------- MODULE VerdictProofs ----------------------------
(***************************************************************************)
(* What the verdict on a run is worth, for every plan, number of sockets,  *)
(* crash and failing transaction.                                          *)
(*                                                                         *)
(* A PASS is final: after a run's completion nothing it was judged by is   *)
(* taken back, and what is still added cannot speak against it.            *)
(*                                                                         *)
(* A failure is explained: when the client has reconciled a run and        *)
(* nothing crashed or was rolled back, what the server stored of each      *)
(* exchange, at which time, follows from where the runner was (EvidenceInv,*)
(* beside ProtocolInv of ScenarioRunProofs), and leaves only the races     *)
(* that FailuresAreExplained names to fail it.                             *)
(***************************************************************************)
EXTENDS ScenarioRunProofs

-----------------------------------------------------------------------------
(* The tables after completion *)

\* The run's attempts stay but for marks, its rows but for flags that go up.
LEMMA RowsKept ==
  ASSUME ClientInv, Typing, [RunNext]_allVars, runs[TheRun] = "completed"
  PROVE  /\ runs'[TheRun] = "completed"
         /\ report'[TheRun] = report[TheRun]
         /\ AttemptsOf(TheRun)' = AttemptsOf(TheRun)
         /\ EventsOf(TheRun)' = EventsOf(TheRun)
         /\ \A i \in AttemptsOf(TheRun) :
              /\ attempts'[i].conn = attempts[i].conn
              /\ attempts'[i].event = attempts[i].event
              /\ attempts'[i].outcome = attempts[i].outcome
              /\ attempts'[i].category = attempts[i].category
         /\ \A e \in EventsOf(TheRun) :
              /\ events'[e].arrival = events[e].arrival
              /\ events[e].acked => events'[e].acked
              /\ events[e].processed => events'[e].processed
<1>1. BaseInv /\ TypeOK
  BY DEF ClientInv, SafetyInv, BaseInv
<1>2. [Next]_vars
  BY ComposedStep
<1>3. ASSUME NEW i \in AttemptsOf(TheRun)
      PROVE  /\ attempts'[i].conn = attempts[i].conn
             /\ attempts'[i].event = attempts[i].event
             /\ attempts'[i].outcome = attempts[i].outcome
             /\ attempts'[i].category = attempts[i].category
  <2>1. i \in Positions /\ attempts[i] \in Attempts
    BY <1>1, AttemptRows DEF AttemptsOf
  <2> QED
    BY <1>1, <1>2, <2>1, TablesGrow DEF Attempts
<1>4. ASSUME NEW e \in EventsOf(TheRun)
      PROVE  /\ events'[e].arrival = events[e].arrival
             /\ events[e].acked => events'[e].acked
             /\ events[e].processed => events'[e].processed
  <2>1. e \in Stored /\ events[e] \in Rows
    BY <1>1, StoredRows DEF EventsOf
  <2>2. events'[e].arrival = events[e].arrival
    BY <1>1, <1>2, <2>1, TablesGrow DEF Rows
  <2> QED
    BY <1>1, <1>2, <2>1, <2>2, EvidenceStep
<1> QED
  BY <1>1, <1>2, <1>3, <1>4, CompletionStep, RunnerAssumption

\* The rest of the evidence only grows, and no marker of a client is added.
LEMMA EvidenceKept ==
  ASSUME ClientInv, Typing, [RunNext]_allVars, runs[TheRun] = "completed"
  PROVE  /\ UNCHANGED <<config, retries>>
         /\ overlays \subseteq overlays' /\ rendered \subseteq rendered'
         /\ \/ timeline' = timeline
            \/ \E entry \in ServerEntries : timeline' = Append(timeline, entry)
<1>1. CASE ServerStep \/ CreateScenarioRun \/ Dial
  <2>1. Stamp /\ UNCHANGED <<config, retries, overlays, rendered>>
    BY <1>1, ServerStamps
  <2>2. Stamps \subseteq ServerEntries
    BY ComposedStep, StampsAreEntries DEF ClientInv, SafetyInv
  <2> QED
    BY <2>1, <2>2 DEF Stamp
<1>2. CASE RecordReconnected \/ RecordDelay \/ ForceDisconnect \/ RecordRecovery
  BY <1>2 DEF RecordReconnected, RecordDelay, ForceDisconnect, RecordRecovery, Mark, RecordMarker
<1>3. CASE CompleteScenarioRun
  BY <1>3 DEF CompleteScenarioRun, CompleteRun
<1>4. CASE Environment
  BY <1>4 DEF Environment, OpenOverlay, RenderEvent, ServerRests, verdictVars
<1>5. CASE UNCHANGED allVars
  BY <1>5 DEF allVars, verdictVars
<1>6. CASE OverlaySeen \/ RequestFails \/ Connected \/ ConnectRefused \/ NextSequence
           \/ EndDeliveries \/ SendAndAwait \/ ReadReply \/ ExchangeFails \/ SendUnread
           \/ SendRaises \/ AcceptanceSeen
  BY <1>6 DEF OverlaySeen, RequestFails, Connected, ConnectRefused, NextSequence,
    EndDeliveries, SendAndAwait, ReadReply, ExchangeFails, SendUnread, SendRaises,
    AcceptanceSeen, ServerRests, verdictVars
<1> QED
  BY <1>1, <1>2, <1>3, <1>4, <1>5, <1>6 DEF RunNext, RunnerStep

\* What was stored keeps its time, and what is added comes later and is the server's.
LEMMA TimesKept ==
  ASSUME ClientInv, Typing, [RunNext]_allVars, runs[TheRun] = "completed"
  PROVE  /\ DOMAIN timeline = 1 .. Len(timeline) /\ Len(timeline) \in Nat
         /\ \A t \in DOMAIN timeline : t \in DOMAIN timeline' /\ timeline'[t] = timeline[t]
         /\ \A t \in DOMAIN timeline' : t \notin DOMAIN timeline =>
              t \in Nat /\ t > Len(timeline) /\ timeline'[t].kind \notin SubmittedKinds
<1>1. timeline \in Seq(Entries)
  BY DEF Typing, RunTypeOK
<1>2. CASE timeline' = timeline
  BY <1>1, <1>2
<1>3. ASSUME NEW entry \in ServerEntries, timeline' = Append(timeline, entry)
      PROVE  /\ \A t \in DOMAIN timeline : t \in DOMAIN timeline' /\ timeline'[t] = timeline[t]
             /\ \A t \in DOMAIN timeline' : t \notin DOMAIN timeline =>
                  t = Len(timeline) + 1 /\ timeline'[t] = entry
  BY <1>1, <1>3
<1>4. \A entry \in ServerEntries : entry.kind \notin SubmittedKinds
  BY DEF ServerEntries, ServerKinds, AttemptKinds, SubmittedKinds
<1> QED
  BY <1>1, <1>2, <1>3, <1>4, EvidenceKept

\* The times of a marker stay, and those of a server's entry gain at most later ones.
LEMMA EntriesKept ==
  ASSUME ClientInv, Typing, [RunNext]_allVars, runs[TheRun] = "completed", NEW kind, NEW key
  PROVE  /\ TimesAt(kind, TheRun, key) \subseteq TimesAt(kind, TheRun, key)'
         /\ TimesOf(kind, TheRun, key) \subseteq TimesOf(kind, TheRun, key)'
         /\ \A t \in TimesOf(kind, TheRun, key)' :
              t \in TimesOf(kind, TheRun, key) \/ t > Len(timeline)
         /\ kind \in SubmittedKinds =>
              /\ Times(kind, TheRun)' = Times(kind, TheRun)
              /\ TimesAt(kind, TheRun, key)' = TimesAt(kind, TheRun, key)
              /\ TimesOf(kind, TheRun, key)' = TimesOf(kind, TheRun, key)
<1>1. Times(kind, TheRun) \subseteq Times(kind, TheRun)'
  BY TimesKept DEF Times
<1>2. \A t \in Times(kind, TheRun)' :
        \/ t \in Times(kind, TheRun) /\ timeline'[t] = timeline[t]
        \/ t > Len(timeline) /\ kind \notin SubmittedKinds
  BY TimesKept DEF Times
<1>3. \A t \in Times(kind, TheRun) : timeline'[t] = timeline[t]
  BY TimesKept DEF Times
<1> QED
  BY <1>1, <1>2, <1>3 DEF TimesAt, TimesOf

-----------------------------------------------------------------------------
(* The conditions of the verdict *)

CountsHold(r) ==
  /\ Cardinality(EventsOf(r)) = ExpectedUnique(r)
  /\ report[r] = ExpectedUnique(r)
  /\ Cardinality({e \in EventsOf(r) : events[e].acked}) = ExpectedUnique(r)
  /\ \A e \in EventsOf(r) : events[e].processed
  /\ \A e \in EventsOf(r) : effects[e].failure = 0
  /\ Cardinality(EventsOf(r) \cap rendered)
       = Cardinality({e \in EventsOf(r) : events[e].processed})

DeliveriesHold(r) ==
  /\ Outcome(r, "conflict") = {}
  /\ Cardinality(Outcome(r, "rejected") \ Operational(r)) = Cardinality(config[r].invalid)
  /\ Operational(r) = {}
  /\ config[r].duplicate \subseteq Duplicated(r)
  /\ Arrivals(r) = PlannedArrivals(config[r])
  /\ ReconnectPassed(r)
  /\ \A e \in config[r].delayed : DelayObserved(r, e)

LEMMA FailuresByName ==
  ASSUME NEW r
  PROVE  Failures(r) = {} <=> CountsHold(r) /\ DeliveriesHold(r)
<1>1. CountFailures(r) = {} <=> CountsHold(r)
  BY DEF CountFailures, CountsHold, Failing
<1>2. DeliveryFailures(r) = {} <=> DeliveriesHold(r)
  BY DEF DeliveryFailures, DeliveriesHold, Failing
<1> QED
  BY <1>1, <1>2 DEF Failures

\* A part of a finite set that is as large as the set is the set.
LEMMA WholeSet ==
  ASSUME NEW S, IsFiniteSet(S), NEW A \in SUBSET S, Cardinality(A) = Cardinality(S)
  PROVE  A = S
BY FS_Subset

LEMMA CountsKept ==
  ASSUME ClientInv, Typing, [RunNext]_allVars, runs[TheRun] = "completed",
         CountsHold(TheRun),
         \A e \in Event : ~ (effects'[e].failure > effects[e].failure)
  PROVE  CountsHold(TheRun)'
<1> DEFINE S == EventsOf(TheRun)
<1>1. S' = S /\ S \subseteq Event /\ IsFiniteSet(S)
  BY RowsKept, FiniteAssumption, FS_Subset DEF EventsOf, Stored
<1>2. ExpectedUnique(TheRun)' = ExpectedUnique(TheRun)
  BY EvidenceKept DEF ExpectedUnique
<1>3. {e \in S : events[e].acked} = S
  BY <1>1, WholeSet DEF CountsHold
<1>4. {e \in S : events[e].processed} = S
  BY DEF CountsHold
<1>5. S \cap rendered = S
  <2>1. Cardinality(S \cap rendered) = Cardinality({e \in S : events[e].processed})
    BY DEF CountsHold
  <2>2. Cardinality(S \cap rendered) = Cardinality(S)
    BY <1>4, <2>1
  <2> HIDE DEF S
  <2> QED
    BY <1>1, <2>2, WholeSet
<1>6. {e \in S' : events'[e].acked} = S
  BY <1>1, <1>3, RowsKept
<1>7. \A e \in S' : events'[e].processed
  BY <1>1, <1>4, RowsKept
<1>8. {e \in S' : events'[e].processed} = S
  BY <1>1, <1>7
<1>9. S' \cap rendered' = S
  BY <1>1, <1>5, EvidenceKept
<1>10. \A e \in S' : effects'[e].failure = 0
  <2>1. effects \in [Event -> [success : Nat, failure : Nat]]
    BY DEF ClientInv, SafetyInv, BaseInv, TypeOK
  <2>2. effects' \in [Event -> [success : Nat, failure : Nat]]
    BY ClientNext DEF ClientInv, SafetyInv, BaseInv, TypeOK
  <2> QED
    BY <1>1, <2>1, <2>2 DEF CountsHold
<1> QED
  BY <1>1, <1>2, <1>6, <1>7, <1>8, <1>9, <1>10, RowsKept DEF CountsHold

\* The attempts of the run are judged as before.
LEMMA OutcomesKept ==
  ASSUME ClientInv, Typing, [RunNext]_allVars, runs[TheRun] = "completed", NEW outcome
  PROVE  Outcome(TheRun, outcome)' = Outcome(TheRun, outcome)
BY RowsKept DEF Outcome

LEMMA ArrivalsKept ==
  ASSUME ClientInv, Typing, [RunNext]_allVars, runs[TheRun] = "completed"
  PROVE  Arrivals(TheRun)' = Arrivals(TheRun)
<1> DEFINE S == EventsOf(TheRun)
<1>1. S' = S /\ \A e \in S : events'[e].arrival = events[e].arrival
  BY RowsKept
<1>2. ASSUME NEW i
      PROVE  (CHOOSE e \in S' : events'[e].arrival = i) = (CHOOSE e \in S : events[e].arrival = i)
  <2>1. \A e : (e \in S' /\ events'[e].arrival = i) <=> (e \in S /\ events[e].arrival = i)
    BY <1>1
  <2> HIDE DEF S
  <2> QED
    BY <2>1
<1> QED
  BY <1>1, <1>2 DEF Arrivals

\* A delay that was observed stays observed.
LEMMA DelayKept ==
  ASSUME ClientInv, Typing, [RunNext]_allVars, runs[TheRun] = "completed",
         NEW e, DelayObserved(TheRun, e)
  PROVE  DelayObserved(TheRun, e)'
<1>1. PICK t \in TimesOf("delay_injected", TheRun, e), i \in AttemptsOf(TheRun) :
        /\ attempts[i].event = e
        /\ \A j \in AttemptsOf(TheRun) : attempts[j].event = e => i <= j
        /\ attempts[i].conn = timeline[t].conn
        /\ \E u \in TimesOf("received", TheRun, i) : t < u
  BY DEF DelayObserved
<1>2. t \in TimesOf("delay_injected", TheRun, e)' /\ timeline'[t] = timeline[t]
  BY EntriesKept, TimesKept DEF TimesOf, Times
<1>3. \E u \in TimesOf("received", TheRun, i)' : t < u
  BY <1>1, EntriesKept
<1>4. /\ i \in AttemptsOf(TheRun)'
      /\ attempts'[i].event = e /\ attempts'[i].conn = attempts[i].conn
      /\ \A j \in AttemptsOf(TheRun)' : attempts'[j].event = e => i <= j
  BY <1>1, RowsKept
<1> QED
  BY <1>1, <1>2, <1>3, <1>4 DEF DelayObserved

\* What is added after an interval puts no attempt into it.
LEMMA IntervalKept ==
  ASSUME ClientInv, Typing, [RunNext]_allVars, runs[TheRun] = "completed",
         NEW e, NEW c, NEW outcome, NEW first, NEW last \in Nat, last <= Len(timeline)
  PROVE  AttemptsWithin(TheRun, e, c, outcome, first, last)'
           = AttemptsWithin(TheRun, e, c, outcome, first, last)
<1> DEFINE Within(i) == \E t \in TimesOf("received", TheRun, i), u \in TimesOf("answered", TheRun, i) :
                          first <= t /\ t <= u /\ u <= last
<1>1. ASSUME NEW kind, NEW key
      PROVE  /\ TimesOf(kind, TheRun, key) \subseteq Nat
             /\ TimesOf(kind, TheRun, key)' \subseteq Nat
  BY TimesKept DEF TimesOf, Times
<1>2. ASSUME NEW kind, NEW key, NEW t \in TimesOf(kind, TheRun, key)', t <= Len(timeline)
      PROVE  t \in TimesOf(kind, TheRun, key)
  BY <1>1, <1>2, EntriesKept, TimesKept
<1>3. ASSUME NEW i
      PROVE  Within(i)' <=> Within(i)
  <2>1. Within(i) => Within(i)'
    BY EntriesKept
  <2>2. ASSUME NEW t \in TimesOf("received", TheRun, i)', NEW u \in TimesOf("answered", TheRun, i)',
               first <= t, t <= u, u <= last
        PROVE  Within(i)
    <3>1. t \in Nat /\ u \in Nat /\ Len(timeline) \in Nat
      BY <1>1, TimesKept
    <3>2. t <= Len(timeline) /\ u <= Len(timeline)
      BY <2>2, <3>1
    <3> QED
      BY <1>2, <2>2, <3>2
  <2> QED
    BY <2>1, <2>2
<1> HIDE DEF Within
<1>4. \A i \in AttemptsOf(TheRun) :
        /\ attempts'[i].event = attempts[i].event
        /\ attempts'[i].conn = attempts[i].conn
        /\ attempts'[i].outcome = attempts[i].outcome
  BY RowsKept
<1>5. AttemptsOf(TheRun)' = AttemptsOf(TheRun)
  BY RowsKept
<1> QED
  BY <1>3, <1>4, <1>5 DEF AttemptsWithin, Within

\* The reconnect is found again, with the same times and connections.
LEMMA ReconnectKept ==
  ASSUME ClientInv, Typing, [RunNext]_allVars, runs[TheRun] = "completed",
         ReconnectPassed(TheRun)
  PROVE  ReconnectPassed(TheRun)'
<1>1. config' = config /\ retries' = retries
  BY EvidenceKept
<1> SUFFICES ASSUME config[TheRun].disconnect # None PROVE ReconnectPassed(TheRun)'
  BY <1>1 DEF ReconnectPassed
<1>2. PICK e : e = config[TheRun].disconnect
  OBVIOUS
<1>3. /\ retries[TheRun] >= 1 /\ TargetCorrelated(TheRun, e)
      /\ \E w \in Reconnects(TheRun, e) : TransportCorrelated(TheRun, w) /\ AttemptPath(TheRun, e, w)
  BY <1>2 DEF ReconnectPassed
<1>4. PICK w \in Reconnects(TheRun, e) :
        TransportCorrelated(TheRun, w) /\ AttemptPath(TheRun, e, w)
  BY <1>3
<1>5. \A kind \in SubmittedKinds : \A key :
        /\ Times(kind, TheRun)' = Times(kind, TheRun)
        /\ TimesAt(kind, TheRun, key)' = TimesAt(kind, TheRun, key)
        /\ TimesOf(kind, TheRun, key)' = TimesOf(kind, TheRun, key)
  BY EntriesKept
<1>6. \A kind : \A t \in Times(kind, TheRun) : timeline'[t] = timeline[t]
  BY TimesKept DEF Times
<1>7. TargetCorrelated(TheRun, e)'
  <2>1. ASSUME NEW kind \in SubmittedKinds
        PROVE  {timeline'[t].of : t \in Times(kind, TheRun)'} = {timeline[t].of : t \in Times(kind, TheRun)}
    BY <1>5, <1>6
  <2> QED
    BY <1>3, <2>1 DEF TargetCorrelated, SubmittedKinds
<1>8. /\ w \in Reconnects(TheRun, e)'
      /\ timeline'[w.forced].conn = timeline[w.forced].conn
      /\ timeline'[w.back].conn = timeline[w.back].conn
      /\ timeline'[w.recovery].conn = timeline[w.recovery].conn
  <2>1. /\ w.forced \in Times("forced_disconnect", TheRun)
        /\ w.back \in Times("reconnected", TheRun)
        /\ w.recovery \in Times("recovery_complete", TheRun)
    BY <1>4 DEF Reconnects, Forced, Recovered, TimesOf
  <2>2. /\ timeline'[w.forced] = timeline[w.forced]
        /\ timeline'[w.back] = timeline[w.back]
        /\ timeline'[w.recovery] = timeline[w.recovery]
    BY <1>6, <2>1
  <2>3. /\ Forced(TheRun, e)' = Forced(TheRun, e)
        /\ Recovered(TheRun, e)' = Recovered(TheRun, e)
        /\ Times("reconnected", TheRun)' = Times("reconnected", TheRun)
    BY <1>5 DEF Forced, Recovered, SubmittedKinds
  <2>4. TimesAt("reconnected", TheRun, timeline[w.recovery].conn)'
          = TimesAt("reconnected", TheRun, timeline[w.recovery].conn)
    <3>1. PICK c : c = timeline[w.recovery].conn
      OBVIOUS
    <3>2. timeline'[w.recovery].conn = c /\ timeline[w.recovery].conn = c
      BY <2>2, <3>1
    <3>3. TimesAt("reconnected", TheRun, c)' = TimesAt("reconnected", TheRun, c)
      BY <1>5 DEF SubmittedKinds
    <3> QED
      BY <3>2, <3>3 DEF TimesAt
  <2> QED
    BY <1>4, <2>2, <2>3, <2>4 DEF Reconnects
<1>9. TransportCorrelated(TheRun, w)'
  <2>1. PICK old, new : old = timeline[w.forced].conn /\ new = timeline[w.back].conn
    OBVIOUS
  <2>2. old # new /\ \E opened \in TimesAt("connected", TheRun, old),
                        closed \in TimesAt("disconnected", TheRun, old),
                        again \in TimesAt("connected", TheRun, new) :
          opened <= w.forced /\ w.forced <= closed /\ closed <= again /\ again <= w.back
    BY <1>4, <2>1 DEF TransportCorrelated
  <2>3. /\ TimesAt("connected", TheRun, old) \subseteq TimesAt("connected", TheRun, old)'
        /\ TimesAt("disconnected", TheRun, old) \subseteq TimesAt("disconnected", TheRun, old)'
        /\ TimesAt("connected", TheRun, new) \subseteq TimesAt("connected", TheRun, new)'
    BY EntriesKept
  <2>4. timeline'[w.forced].conn = old /\ timeline'[w.back].conn = new
    BY <1>8, <2>1
  <2> QED
    BY <2>2, <2>3, <2>4 DEF TransportCorrelated
<1>10. AttemptPath(TheRun, e, w)'
  <2>1. PICK old, new : old = timeline[w.forced].conn /\ new = timeline[w.back].conn
    OBVIOUS
  <2>2. timeline'[w.forced].conn = old /\ timeline'[w.back].conn = new
    BY <1>8, <2>1
  <2>3. /\ w.forced \in Nat /\ w.forced <= Len(timeline)
        /\ w.recovery \in Nat /\ w.recovery <= Len(timeline)
    <3>1. w.forced \in DOMAIN timeline /\ w.recovery \in DOMAIN timeline
      BY <1>4 DEF Reconnects, Forced, Recovered, TimesOf, Times
    <3> QED
      BY <3>1, TimesKept
  <2>4. AttemptsWithin(TheRun, e, old, "accepted", 1, w.forced)'
          = AttemptsWithin(TheRun, e, old, "accepted", 1, w.forced)
    BY <2>3, IntervalKept
  <2>5. AttemptsWithin(TheRun, e, new, "duplicate", w.back, w.recovery)'
          = AttemptsWithin(TheRun, e, new, "duplicate", w.back, w.recovery)
    BY <2>3, IntervalKept
  <2>6. /\ Cardinality(AttemptsWithin(TheRun, e, old, "accepted", 1, w.forced)) = 1
        /\ Cardinality(AttemptsWithin(TheRun, e, new, "duplicate", w.back, w.recovery)) = 1
    BY <1>4, <2>1 DEF AttemptPath
  <2>7. /\ Cardinality(AttemptsWithin(TheRun, e, old, "accepted", 1, w.forced)') = 1
        /\ Cardinality(AttemptsWithin(TheRun, e, new, "duplicate", w.back, w.recovery)') = 1
    BY <2>4, <2>5, <2>6
  <2> QED
    BY <2>2, <2>7 DEF AttemptPath
<1>11. config'[TheRun].disconnect = e /\ retries'[TheRun] >= 1
  BY <1>1, <1>2, <1>3
<1> QED
  BY <1>7, <1>8, <1>9, <1>10, <1>11 DEF ReconnectPassed

LEMMA DeliveriesKept ==
  ASSUME ClientInv, Typing, [RunNext]_allVars, runs[TheRun] = "completed",
         DeliveriesHold(TheRun)
  PROVE  DeliveriesHold(TheRun)'
<1>1. config' = config
  BY EvidenceKept
<1>2. Outcome(TheRun, "conflict")' = {}
  BY OutcomesKept DEF DeliveriesHold
<1>3. Operational(TheRun)' = Operational(TheRun)
  <2>1. Outcome(TheRun, "rejected")' = Outcome(TheRun, "rejected")
    BY OutcomesKept
  <2>2. \A i \in Outcome(TheRun, "rejected") : attempts'[i].category = attempts[i].category
    BY RowsKept DEF Outcome
  <2> QED
    BY <2>1, <2>2 DEF Operational
<1>4. Cardinality(Outcome(TheRun, "rejected") \ Operational(TheRun))'
        = Cardinality(config'[TheRun].invalid)
  <2>1. (Outcome(TheRun, "rejected") \ Operational(TheRun))'
          = Outcome(TheRun, "rejected") \ Operational(TheRun)
    BY <1>3, OutcomesKept
  <2> QED
    BY <1>1, <2>1 DEF DeliveriesHold
<1>5. config'[TheRun].duplicate \subseteq Duplicated(TheRun)'
  <2>1. Outcome(TheRun, "duplicate")' = Outcome(TheRun, "duplicate")
    BY OutcomesKept
  <2>2. \A i \in Outcome(TheRun, "duplicate") : attempts'[i].event = attempts[i].event
    BY RowsKept DEF Outcome
  <2> QED
    BY <1>1, <2>1, <2>2 DEF DeliveriesHold, Duplicated
<1>6. Arrivals(TheRun)' = PlannedArrivals(config'[TheRun])
  BY <1>1, ArrivalsKept DEF DeliveriesHold
<1>7. ReconnectPassed(TheRun)'
  BY ReconnectKept DEF DeliveriesHold
<1>8. \A e \in config'[TheRun].delayed : DelayObserved(TheRun, e)'
  <2>1. SUFFICES ASSUME NEW e \in config[TheRun].delayed
                 PROVE  DelayObserved(TheRun, e)'
    BY <1>1
  <2>2. DelayObserved(TheRun, e)
    BY DEF DeliveriesHold
  <2> QED
    BY <2>2, DelayKept
<1> QED
  BY <1>2, <1>3, <1>4, <1>5, <1>6, <1>7, <1>8 DEF DeliveriesHold

-----------------------------------------------------------------------------
(* The verdict *)

LEMMA PassStays ==
  ASSUME ClientInv, Typing, [RunNext]_allVars, TheVerdict = "pass",
         \A e \in Event : ~ (effects'[e].failure > effects[e].failure)
  PROVE  TheVerdict' = "pass"
<1>1. runs[TheRun] = "completed" /\ TheRun \in overlays /\ Failures(TheRun) = {}
  BY DEF TheVerdict, OverviewVerdict
<1>2. CountsHold(TheRun) /\ DeliveriesHold(TheRun)
  BY <1>1, FailuresByName
<1>3. runs'[TheRun] = "completed" /\ TheRun \in overlays'
  BY <1>1, RowsKept, EvidenceKept
<1>4. CountsHold(TheRun)' /\ DeliveriesHold(TheRun)'
  BY <1>1, <1>2, CountsKept, DeliveriesKept
<1>5. CountFailures(TheRun)' = {}
  BY <1>4 DEF CountFailures, CountsHold, Failing
<1>6. DeliveryFailures(TheRun)' = {}
  BY <1>4 DEF DeliveryFailures, DeliveriesHold, Failing
<1> QED
  BY <1>3, <1>5, <1>6 DEF Failures, TheVerdict, OverviewVerdict

\* A PASS stays a PASS unless a processing attempt fails later: what a completed run
\* was judged by is never taken back (DECISIONS.md, "Run completion closes source
\* ingestion").
THEOREM PassRemains == RunSpec => PassIsFinal
<1>1. ClientInv /\ Typing /\ [RunNext]_allVars
        => [TheVerdict = "pass" =>
              \/ TheVerdict' = "pass"
              \/ \E e \in Event : effects'[e].failure > effects[e].failure]_allVars
  BY PassStays
<1>2. RunInit => Typing
  BY TypingInit
<1>3. ClientInv /\ Typing /\ [RunNext]_allVars => Typing'
  BY TypingNext
<1> QED
  BY <1>1, <1>2, <1>3, ClientInvariant, PTL DEF RunSpec, PassIsFinal

-----------------------------------------------------------------------------
(* Why a reconciled run can fail: what the evidence says of the runner *)

\* What the explanation is about.
Calm == crashes = 0 /\ faults = 0 /\ at # "failed"

\* An attempt is what the server made of the payload of a position.
Fits(attempt, p) ==
  /\ attempt.category # "internal_error"
  /\ attempt.event = ClaimedEvent(PayloadOf(plan.order[p]))
  /\ attempt.outcome \in IF ValidAt(p) THEN {"accepted", "duplicate"} ELSE {"rejected"}

AttemptsFit ==
  \A i \in Positions : /\ attempts[i].run = TheRun /\ attempts[i].conn <= socket
                       /\ \E p \in 1 .. position : Fits(attempts[i], p)

\* What the completion request reported is still so, and a duplicate that the runner
\* confirmed is stored as one.
CountersFit ==
  /\ at = "done" => Completed
  /\ Completed => report[TheRun] = Cardinality(acked) /\ retries[TheRun] = retryCount
  /\ confirmed \subseteq Duplicated(TheRun)
  /\ \A e \in Event : effects[e].failure = 0

\* A socket whose handshake the runner has not seen return carries nothing; and the
\* runner delivers over a socket that it has not closed.
LinesFit ==
  /\ server = "up"
  /\ \A c \in Conn : peer[c] = "none" =>
       wire[c] = NoMessage /\ pc[c] \in {"idle", "accepting", "receiving", "closed"}
  /\ at \in {"reconnected", "next", "delaying", "sending", "awaiting", "polling", "forcing",
             "recovering"} => peer[socket] \in {"open", "broken"}
  /\ at = "recovering" => leg = "retried"
  /\ at = "delaying" => leg = "planned"
  /\ at \in {"creating", "awaiting_overlay"} => position = 0

\* The attempts that came of an exchange whose reply was not read.
UnreadOn(c) == {i \in Positions \ read : attempts[i].conn = c}
OneAttempt ==
  socket \in Conn /\ peer[socket] # "closed" =>
    /\ wire[socket] # NoMessage \/ ~Exchanging => UnreadOn(socket) = {}
    /\ \A i, j \in UnreadOn(socket) : i = j

\* Without retries the refused attempts are the refusals that were read, but for the one
\* under way.
Rejected(S) == {i \in S : attempts[i].outcome = "rejected"}
Undisturbed == retryCount = forcedReconnects
RefusalsFit ==
  /\ retryCount >= forcedReconnects
  /\ refusals.rejected = Cardinality(Rejected(read))
  /\ Undisturbed =>
       /\ \A c \in Conn : wire[c] # NoMessage /\ wire[c].shape # "valid" =>
            c = socket /\ at = "awaiting"
       /\ \A i \in Rejected(Positions \ read) : attempts[i].conn = socket /\ at = "awaiting"

\* Without retries a held event's attempts follow its marker on the marker's socket.
HeldOn(e, c) == {t \in TimesOf("delay_injected", TheRun, e) : timeline[t].conn = c}
DelaysFit ==
  Undisturbed =>
    /\ position >= 1 /\ Current \in plan.delayed
         /\ at \in {"dialing", "handshaking", "reconnected", "sending", "awaiting"} =>
         at \in {"sending", "awaiting"} /\ HeldOn(Current, socket) # {}
    /\ \A c \in Conn : wire[c] # NoMessage /\ wire[c].event \in plan.delayed =>
         HeldOn(wire[c].event, c) # {}
    /\ \A i \in Positions : attempts[i].event \in plan.delayed =>
         \E t \in HeldOn(attempts[i].event, attempts[i].conn),
            u \in TimesOf("received", TheRun, i) : t < u

\* Attempts at the target have their times, and sockets the row of their beginning.
TimesFit ==
  plan.disconnect # None =>
    /\ \A i \in Positions : attempts[i].event = plan.disconnect =>
         \E t \in TimesOf("received", TheRun, i) :
           attempts[i].replied => \E u \in TimesOf("answered", TheRun, i) : t < u
    /\ \A i \in Positions : TimesAt("connected", TheRun, attempts[i].conn) # {}
    /\ \A c \in Conn : pc[c] \notin {"idle", "accepting", "closed"} =>
         TimesAt("connected", TheRun, c) # {}

\* While nothing is lost, a socket that its client has not closed does not end.
SocketsStay ==
  losses = 0 /\ ~Completed =>
    \A c \in Conn :
      /\ peer[c] # "broken"
      /\ peer[c] # "closed" => pc[c] # "closing" /\ TimesAt("disconnected", TheRun, c) = {}

\* The target is sent once over each socket.
TargetOn(c) == {i \in Positions : attempts[i].event = plan.disconnect /\ attempts[i].conn = c}
TargetOnce ==
  plan.disconnect # None =>
    /\ \A c \in Conn : \A i, j \in TargetOn(c) : i = j
    /\ \A c \in Conn : wire[c] # NoMessage /\ wire[c].event = plan.disconnect => TargetOn(c) = {}
    /\ position >= 1 /\ Current = plan.disconnect
         /\ at \in {"handshaking", "reconnected", "delaying", "sending"} => TargetOn(socket) = {}

\* A socket is marked as reconnected once.
ReconnectsFit ==
  /\ \A t \in Times("reconnected", TheRun) : timeline[t].conn <= socket
  /\ \A t, u \in Times("reconnected", TheRun) : timeline[t].conn = timeline[u].conn => t = u
  /\ at \in {"handshaking", "reconnected"} => TimesAt("reconnected", TheRun, socket) = {}

\* The marker of the forced disconnect, of the target, after its acceptance.
ForcedRight(forced) ==
  LET old == timeline[forced].conn IN
  /\ timeline[forced].of = plan.disconnect
  /\ old <= socket
  /\ \E opened \in TimesAt("connected", TheRun, old) : opened < forced
  /\ \A closed \in TimesAt("disconnected", TheRun, old) : closed < forced => losses > 0
  /\ AttemptsWithin(TheRun, plan.disconnect, old, "accepted", 1, forced) # {}

\* Until the recovery is recorded the target is delivered over a later socket.
Resuming == leg = "retried" /\ at \notin {"next", "completing", "done"}
Returning(forced) ==
  /\ at # "dialing" => timeline[forced].conn < socket
  /\ at \in {"sending", "awaiting", "recovering"} =>
       \E back \in TimesAt("reconnected", TheRun, socket) : forced < back

RecoveredRight(forced, recovery) ==
  /\ timeline[recovery].of = plan.disconnect
  /\ timeline[forced].conn # timeline[recovery].conn
  /\ \E back \in TimesAt("reconnected", TheRun, timeline[recovery].conn) :
       forced < back /\ back < recovery

ForcedTimes   == Times("forced_disconnect", TheRun)
RecoveryTimes == Times("recovery_complete", TheRun)
MarkersFit ==
  /\ forcedReconnects = 0 => ForcedTimes = {} /\ RecoveryTimes = {}
  /\ forcedReconnects = 1 => \E forced \in ForcedTimes :
       /\ ForcedTimes = {forced} /\ ForcedRight(forced)
       /\ Resuming => RecoveryTimes = {} /\ Returning(forced)
       /\ ~Resuming => \E recovery \in RecoveryTimes :
            RecoveryTimes = {recovery} /\ RecoveredRight(forced, recovery)

\* The runner forces the disconnect when its attempt was accepted and its reply marked.
ForcingFits ==
  at = "forcing" =>
    \E i \in TargetOn(socket) : attempts[i].outcome = "accepted" /\ attempts[i].replied

EvidenceFits ==
  /\ AttemptsFit /\ CountersFit /\ LinesFit /\ OneAttempt /\ RefusalsFit /\ DelaysFit
  /\ TimesFit /\ SocketsStay /\ TargetOnce /\ ReconnectsFit /\ ForcingFits /\ MarkersFit

EvidenceInv == ProtocolInv /\ (Calm => EvidenceFits)

-----------------------------------------------------------------------------
(* What one step of the server adds to the evidence *)

\* A delivery stored an attempt that fits its payload.
NewAttempt(c) ==
  LET n == Len(attempts) + 1 IN
  /\ n \notin Positions /\ Positions' = Positions \cup {n}
  /\ \A i \in Positions : attempts'[i] = attempts[i]
  /\ attempts'[n].conn = c /\ attempts'[n].run = TheRun /\ attempts'[n].replied = FALSE
  /\ \E p \in 1 .. position : wire[c] = PayloadOf(plan.order[p]) /\ Fits(attempts'[n], p)

AddsNothing == attempts' = attempts /\ timeline' = timeline

\* The message on the line becomes an attempt, and its receipt a time where times count.
Delivers(c) ==
  /\ pc[c] = "receiving" /\ pc' = [pc EXCEPT ![c] = "replying"]
  /\ wire[c] # NoMessage /\ wire' = [wire EXCEPT ![c] = NoMessage]
  /\ NewAttempt(c)
  /\ timeline' = IF Timed(TheRun, attempts'[Len(attempts) + 1].event)
                 THEN Append(timeline, Entry("received", TheRun, c, Len(attempts) + 1))
                 ELSE timeline

Refuses(c) ==
  /\ pc[c] = "receiving" /\ pc' = [pc EXCEPT ![c] = "closing"]
  /\ wire[c] # NoMessage /\ wire' = [wire EXCEPT ![c] = NoMessage]
  /\ runs[TheRun] # "running"
  /\ AddsNothing

\* The reply of attempt i is marked as sent.
MarksAttempt(i) ==
  /\ i \in Positions /\ Positions' = Positions
  /\ attempts' = [attempts EXCEPT ![i].replied = TRUE]
  /\ timeline' = IF ~attempts[i].replied /\ attempts[i].event = plan.disconnect
                 THEN Append(timeline, Entry("answered", TheRun, attempts[i].conn, i))
                 ELSE timeline

Marks(c) ==
  /\ pc[c] = "marking"
  /\ \E stop \in {"processing", "receiving"} : pc' = [pc EXCEPT ![c] = stop]
  /\ \E i \in Positions : MarksAttempt(i)
  /\ wire' = wire

\* A connection row of the server.
AddsRow(c, kind) ==
  /\ attempts' = attempts
  /\ timeline' = IF plan.disconnect # None THEN Append(timeline, Entry(kind, TheRun, c, 0))
                 ELSE timeline

Begins(c) ==
  /\ pc[c] = "accepting" /\ pc' = [pc EXCEPT ![c] = "receiving"]
  /\ AddsRow(c, "connected")
  /\ wire' = wire

Ends(c) ==
  /\ pc[c] \in {"receiving", "closing", "replying"} /\ pc' = [pc EXCEPT ![c] = "closed"]
  /\ pc[c] = "closing" \/ peer[c] \in {"closed", "broken"} \/ (pc[c] = "replying" /\ peer[c] # "open")
  /\ AddsRow(c, "disconnected")
  /\ wire' \in {wire, [wire EXCEPT ![c] = NoMessage]}

Passes(c) ==
  /\ \/ pc[c] = "accepting" /\ pc' = [pc EXCEPT ![c] = "closed"]
     \/ /\ pc[c] \in {"replying", "processing", "broadcasting"}
        /\ \E stop \in {"marking", "broadcasting", "receiving"} : pc' = [pc EXCEPT ![c] = stop]
  /\ AddsNothing
  /\ wire' = wire

HandlerMoves(c) ==
  Delivers(c) \/ Refuses(c) \/ Marks(c) \/ Begins(c) \/ Ends(c) \/ Passes(c)

\* Sockets are numbered from one.
LEMMA SocketIsNumber ==
  ASSUME Typing
  PROVE  Conn \subseteq Nat /\ 0 \notin Conn /\ socket \in Nat
<1>1. Conn \subseteq Nat \ {0}
  BY RunnerAssumption
<1>2. socket \in Conn \cup {0}
  BY DEF Typing, RunTypeOK
<1> QED
  BY <1>1, <1>2

LEMMA IngestedFits ==
  ASSUME ProtocolInv, NEW c \in Conn, wire[c] \in Message, Ingest(c, wire[c])
  PROVE  /\ NewAttempt(c) /\ wire[c] # NoMessage
         /\ pc[c] = "receiving" /\ pc' = [pc EXCEPT ![c] = "replying"]
         /\ UNCHANGED <<evidence, bound, effects>>
<1> DEFINE n == Len(attempts) + 1
<1>1. /\ BaseInv /\ Typing /\ attempts \in Seq(Attempts)
  BY DEF ProtocolInv, ClientInv, SafetyInv, BaseInv, TypeOK
<1>2. Audited(c) /\ pc[c] = "receiving"
  BY <1>1, RefusedOrRepeated, AcceptedDelivery, IngestReplies DEF Ingest, Unaccepted, Accepted
<1>3. bound[c] = TheRun
  BY <1>2 DEF ProtocolInv, SocketsInTurn
<1>4. wire[c] # NoMessage
  BY MessageAssumption DEF Messages, Shapes, NoMessage
<1>5. PICK p \in 1 .. position : wire[c] = PayloadOf(plan.order[p])
  BY <1>4 DEF ProtocolInv, WiresFollowPlan
<1>6. p \in 1 .. Len(plan.order) /\ plan.order[p] \in Manifest[TheRun]
  BY <1>1, <1>5, OrderFacts
<1>7. UNCHANGED <<evidence, bound, effects>> /\ pc' = [pc EXCEPT ![c] = "replying"]
  BY DEF Ingest, RecordRejected, RecordConflicted, PersistDuplicate, PersistAccepted, PrepareReply
<1>8. Fits(attempts'[n], p)
  <2>1. CASE ValidAt(p)
    <3>1. wire[c] = [shape |-> "valid", event |-> plan.order[p], run |-> TheRun,
                     content |-> "manifest"]
      BY <1>5, <2>1 DEF PayloadOf, ValidAt
    <3>2. PersistAccepted(c, wire[c]) \/ PersistDuplicate(c, wire[c])
      BY <1>1, <1>3, <1>6, <3>1, ValidIsTaken
    <3>3. \E outcome \in {"accepted", "duplicate"} :
            Audit(c, wire[c].run, wire[c].event, outcome, "none")
      BY <3>2 DEF PersistAccepted, PersistDuplicate
    <3>4. /\ attempts'[n].event = plan.order[p] /\ attempts'[n].category = "none"
          /\ attempts'[n].outcome \in {"accepted", "duplicate"}
      BY <1>1, <3>1, <3>3 DEF Audit
    <3>5. ClaimedEvent(PayloadOf(plan.order[p])) = plan.order[p]
      BY <1>5, <3>1 DEF ClaimedEvent
    <3> QED
      BY <2>1, <3>4, <3>5 DEF Fits
  <2>2. CASE ~ValidAt(p)
    <3>1. wire[c].shape = "malformed" \/ (wire[c].shape = "invalid" /\ wire[c].run = TheRun)
      BY <1>5, <2>2 DEF PayloadOf, ValidAt
    <3>2. RecordRejected(c, wire[c])
      BY <1>1, <1>3, <3>1, InvalidIsRejected
    <3>3. Audit(c, bound[c], ClaimedEvent(wire[c]), "rejected", Category(wire[c], bound[c]))
      BY <3>2 DEF RecordRejected
    <3>4. Category(wire[c], bound[c]) # "internal_error"
      BY DEF Category
    <3>5. /\ attempts'[n].event = ClaimedEvent(wire[c]) /\ attempts'[n].category # "internal_error"
          /\ attempts'[n].outcome = "rejected"
      BY <1>1, <3>3, <3>4 DEF Audit
    <3> QED
      BY <1>5, <2>2, <3>5 DEF Fits
  <2> QED
    BY <2>1, <2>2
<1> QED
  BY <1>2, <1>3, <1>4, <1>5, <1>7, <1>8 DEF NewAttempt, Audited

\* At most one of the three kinds of entries comes of a step.
LEMMA StampsOfAttempt ==
  ASSUME ProtocolInv, NEW c \in Conn, NewAttempt(c), evidence' = evidence, config' = config, Stamp
  PROVE  timeline' = IF Timed(TheRun, attempts'[Len(attempts) + 1].event)
                     THEN Append(timeline, Entry("received", TheRun, c, Len(attempts) + 1))
                     ELSE timeline
<1> DEFINE n == Len(attempts) + 1
           received == {i \in Positions' : i \notin Positions
                                             /\ Timed(attempts'[i].run, attempts'[i].event)}
           answered == {i \in Positions : /\ attempts'[i].replied /\ ~attempts[i].replied
                                          /\ attempts[i].event = config[attempts[i].run].disconnect}
           socketed == {d \in Conn : evidence'[d] # evidence[d]
                                       /\ config[bound[d]].disconnect # None}
<1>1. /\ n \notin Positions /\ Positions' = Positions \cup {n}
      /\ \A i \in Positions : attempts'[i] = attempts[i]
      /\ attempts'[n].conn = c /\ attempts'[n].run = TheRun
  BY DEF NewAttempt
<1>2. answered = {} /\ socketed = {}
  BY <1>1
<1>3. received = IF Timed(TheRun, attempts'[n].event) THEN {n} ELSE {}
  BY <1>1
<1>4. Stamps = {Entry("received", attempts'[i].run, attempts'[i].conn, i) : i \in received}
  <2> HIDE DEF received
  <2>1. Stamps = {Entry("received", attempts'[i].run, attempts'[i].conn, i) : i \in received}
                   \cup {Entry("answered", attempts[i].run, attempts[i].conn, i) : i \in answered}
                   \cup {Entry(Last(evidence'[d]), bound'[d], d, 0) : d \in socketed}
    BY DEF Stamps, received
  <2>2. {Entry("answered", attempts[i].run, attempts[i].conn, i) : i \in answered} = {}
    BY <1>2
  <2>3. {Entry(Last(evidence'[d]), bound'[d], d, 0) : d \in socketed} = {}
    BY <1>2
  <2> QED
    BY <2>1, <2>2, <2>3
<1> HIDE DEF received, n
<1>5. CASE Timed(TheRun, attempts'[n].event)
  <2>1. Stamps = {Entry("received", TheRun, c, n)}
    BY <1>1, <1>3, <1>4, <1>5
  <2>2. timeline' = Append(timeline, Entry("received", TheRun, c, n))
    BY <2>1 DEF Stamp
  <2> QED
    BY <1>5, <2>2 DEF n
<1>6. CASE ~Timed(TheRun, attempts'[n].event)
  <2>1. Stamps = {}
    BY <1>3, <1>4, <1>6
  <2> QED
    BY <1>6, <2>1 DEF Stamp, n
<1> QED
  BY <1>5, <1>6

LEMMA StampsOfMark ==
  ASSUME ProtocolInv, AttemptsFit, NEW k \in Positions,
         attempts' = [attempts EXCEPT ![k].replied = TRUE],
         evidence' = evidence, config' = config, Stamp
  PROVE  MarksAttempt(k)
<1> DEFINE received == {i \in Positions' : i \notin Positions
                                             /\ Timed(attempts'[i].run, attempts'[i].event)}
           answered == {i \in Positions : /\ attempts'[i].replied /\ ~attempts[i].replied
                                          /\ attempts[i].event = config[attempts[i].run].disconnect}
           socketed == {d \in Conn : evidence'[d] # evidence[d]
                                       /\ config[bound[d]].disconnect # None}
           new == ~attempts[k].replied /\ attempts[k].event = plan.disconnect
<1>1. attempts \in Seq(Attempts) /\ \A i \in Positions : attempts[i] \in Attempts
  BY AttemptRows DEF ProtocolInv, ClientInv, SafetyInv, BaseInv, TypeOK
<1>2. Positions' = Positions /\ \A i \in Positions \ {k} : attempts'[i] = attempts[i]
      /\ attempts'[k].replied = TRUE
  BY <1>1 DEF Positions, Attempts
<1>3. attempts[k].run = TheRun
  BY DEF AttemptsFit
<1>4. received = {} /\ socketed = {}
  BY <1>2
<1>5. answered = IF new THEN {k} ELSE {}
  <2>1. \A i \in Positions \ {k} : i \notin answered
    BY <1>2
  <2>2. k \in answered <=> new
    <3>1. config[attempts[k].run].disconnect = plan.disconnect
      BY <1>3 DEF plan
    <3>2. attempts'[k].replied
      BY <1>1 DEF Positions, Attempts
    <3> QED
      BY <3>1, <3>2, Zenon
  <2>3. answered \subseteq Positions
    OBVIOUS
  <2> HIDE DEF answered, new
  <2>4. CASE new
    BY <2>1, <2>2, <2>3, <2>4
  <2>5. CASE ~new
    BY <2>1, <2>2, <2>3, <2>5
  <2> QED
    BY <2>4, <2>5
<1>6. Stamps = {Entry("answered", attempts[i].run, attempts[i].conn, i) : i \in answered}
  <2> HIDE DEF answered
  <2>1. Stamps = {Entry("received", attempts'[i].run, attempts'[i].conn, i) : i \in received}
                   \cup {Entry("answered", attempts[i].run, attempts[i].conn, i) : i \in answered}
                   \cup {Entry(Last(evidence'[d]), bound'[d], d, 0) : d \in socketed}
    BY DEF Stamps, answered
  <2>2. {Entry("received", attempts'[i].run, attempts'[i].conn, i) : i \in received} = {}
    BY <1>4
  <2>3. {Entry(Last(evidence'[d]), bound'[d], d, 0) : d \in socketed} = {}
    BY <1>4
  <2> QED
    BY <2>1, <2>2, <2>3
<1> HIDE DEF answered
<1>7. CASE new
  <2>1. Stamps = {Entry("answered", TheRun, attempts[k].conn, k)}
    BY <1>3, <1>5, <1>6, <1>7
  <2>2. timeline' = Append(timeline, Entry("answered", TheRun, attempts[k].conn, k))
    BY <2>1 DEF Stamp
  <2> QED
    BY <1>2, <1>7, <2>2 DEF MarksAttempt
<1>8. CASE ~new
  <2>1. Stamps = {}
    BY <1>5, <1>6, <1>8
  <2> QED
    BY <1>2, <1>8, <2>1 DEF Stamp, MarksAttempt
<1> QED
  BY <1>7, <1>8

LEMMA StampsOfRow ==
  ASSUME ProtocolInv, NEW c \in Conn, NEW kind \in ServerKinds, bound[c] = TheRun, bound' = bound,
         evidence' = [evidence EXCEPT ![c] = Append(@, kind)],
         attempts' = attempts, config' = config, Stamp
  PROVE  timeline' = IF plan.disconnect # None THEN Append(timeline, Entry(kind, TheRun, c, 0))
                     ELSE timeline
<1> DEFINE received == {i \in Positions' : i \notin Positions
                                             /\ Timed(attempts'[i].run, attempts'[i].event)}
           answered == {i \in Positions : /\ attempts'[i].replied /\ ~attempts[i].replied
                                          /\ attempts[i].event = config[attempts[i].run].disconnect}
           socketed == {d \in Conn : evidence'[d] # evidence[d]
                                       /\ config[bound[d]].disconnect # None}
<1>1. evidence \in [Conn -> Seq({"connected", "disconnected"})]
  BY DEF ProtocolInv, ClientInv, SafetyInv, BaseInv, TypeOK
<1>2. Positions' = Positions
  BY DEF Positions
<1>3. /\ evidence'[c] = Append(evidence[c], kind) /\ evidence[c] \in Seq(ServerKinds)
      /\ \A d \in Conn \ {c} : evidence'[d] = evidence[d]
  BY <1>1 DEF ServerKinds
<1>4. evidence'[c] # evidence[c] /\ Last(evidence'[c]) = kind
  <2>1. Len(evidence'[c]) = Len(evidence[c]) + 1 /\ Len(evidence[c]) \in Nat
        /\ evidence'[c][Len(evidence[c]) + 1] = kind
    BY <1>3
  <2>2. evidence'[c] # evidence[c]
    <3> SUFFICES ASSUME evidence'[c] = evidence[c] PROVE FALSE
      OBVIOUS
    <3> QED
      BY <2>1
  <2>3. Last(evidence'[c]) = evidence'[c][Len(evidence'[c])]
    BY DEF Last
  <2> QED
    BY <2>1, <2>2, <2>3
<1>5. received = {} /\ answered = {}
  BY <1>2
<1>6. socketed = IF plan.disconnect # None THEN {c} ELSE {}
  BY <1>3, <1>4 DEF plan
<1>7. Stamps = {Entry(Last(evidence'[d]), bound'[d], d, 0) : d \in socketed}
  <2> HIDE DEF socketed
  <2>1. Stamps = {Entry("received", attempts'[i].run, attempts'[i].conn, i) : i \in received}
                   \cup {Entry("answered", attempts[i].run, attempts[i].conn, i) : i \in answered}
                   \cup {Entry(Last(evidence'[d]), bound'[d], d, 0) : d \in socketed}
    BY DEF Stamps, socketed
  <2>2. {Entry("received", attempts'[i].run, attempts'[i].conn, i) : i \in received} = {}
    BY <1>5
  <2>3. {Entry("answered", attempts[i].run, attempts[i].conn, i) : i \in answered} = {}
    BY <1>5
  <2> QED
    BY <2>1, <2>2, <2>3
<1> HIDE DEF socketed
<1>8. CASE plan.disconnect # None
  <2>1. Stamps = {Entry(kind, TheRun, c, 0)}
    BY <1>4, <1>6, <1>7, <1>8
  <2> QED
    BY <1>8, <2>1 DEF Stamp
<1>9. CASE plan.disconnect = None
  <2>1. Stamps = {}
    BY <1>6, <1>7, <1>9
  <2> QED
    BY <1>9, <2>1 DEF Stamp
<1> QED
  BY <1>8, <1>9

LEMMA NoStamps ==
  ASSUME attempts' = attempts, evidence' = evidence, Stamp
  PROVE  AddsNothing
<1>1. Positions' = Positions
  BY DEF Positions
<1>2. Stamps = {}
  BY <1>1 DEF Stamps
<1> QED
  BY <1>2 DEF Stamp, AddsNothing

\* Neither a failing transaction nor a crash is calm.
LEMMA CalmFaults ==
  ASSUME ClientInv, Calm'
  PROVE  ~Fault /\ crashes' # crashes + 1
<1>1. faults \in Nat /\ crashes \in Nat
  BY DEF ClientInv, SafetyInv, BaseInv, TypeOK
<1>2. faults' = 0 /\ crashes' = 0
  BY DEF Calm
<1> QED
  BY <1>1, <1>2 DEF Fault

\* What a handler does while nothing fails.
LEMMA HandlerIsCalm ==
  ASSUME ProtocolInv, AttemptsFit, Calm', NEW c \in Conn,
         Receive(c) \/ ServeHandshake(c) \/ EndSocket(c) \/ Answer(c) \/ Settle(c)
  PROVE  /\ HandlerMoves(c)
         /\ UNCHANGED <<peer, server>>
         /\ \A e \in Event : effects'[e].failure = effects[e].failure
<1>1. /\ ClientInv /\ BaseInv /\ TypeOK
      /\ \A d \in Conn : pc[d] # "idle" => bound[d] = TheRun
      /\ wire \in [Conn -> Message \cup {NoMessage}]
      /\ effects \in [Event -> [success : Nat, failure : Nat]]
  BY DEF ProtocolInv, ClientInv, SafetyInv, BaseInv, TypeOK, SocketsInTurn, Typing, RunTypeOK
<1>2. ~Fault
  BY <1>1, CalmFaults
<1>3. Stamp /\ config' = config
  BY DEF Receive, ServeHandshake, EndSocket, Answer, Settle, Server
<1>4. effects' = effects => \A e \in Event : effects'[e].failure = effects[e].failure
  OBVIOUS
<1>5. CASE Receive(c)
  <2>1. /\ wire[c] \in Message /\ wire' = [wire EXCEPT ![c] = NoMessage] /\ peer' = peer
        /\ Ingest(c, wire[c]) \/ RefuseDelivery(c) \/ IngestFails(c)
    BY <1>5 DEF Receive, Server
  <2>2. CASE Ingest(c, wire[c])
    <3>1. server' = server
      BY <2>2 DEF Ingest, RecordRejected, RecordConflicted, PersistDuplicate, PersistAccepted
    <3>2. /\ NewAttempt(c) /\ wire[c] # NoMessage
          /\ pc[c] = "receiving" /\ pc' = [pc EXCEPT ![c] = "replying"]
          /\ evidence' = evidence /\ effects' = effects
      BY <2>1, <2>2, IngestedFits
    <3>3. Delivers(c)
      BY <1>3, <2>1, <3>2, StampsOfAttempt DEF Delivers
    <3> QED
      BY <1>4, <2>1, <3>1, <3>2, <3>3 DEF HandlerMoves
  <2>3. CASE RefuseDelivery(c)
    <3>1. /\ pc[c] = "receiving" /\ pc' = [pc EXCEPT ![c] = "closing"]
          /\ ~AcceptingDeliveries(bound[c])
          /\ UNCHANGED <<attempts, evidence, effects, server>>
      BY <2>3 DEF RefuseDelivery, database
    <3>2. runs[TheRun] # "running"
      BY <1>1, <3>1 DEF AcceptingDeliveries
    <3>3. wire[c] # NoMessage
      BY <2>1, MessageAssumption DEF Messages, Shapes, NoMessage
    <3>4. Refuses(c)
      BY <1>3, <2>1, <3>1, <3>2, <3>3, NoStamps DEF Refuses
    <3> QED
      BY <1>4, <2>1, <3>1, <3>4 DEF HandlerMoves
  <2>4. CASE IngestFails(c)
    BY <1>2, <2>4 DEF IngestFails
  <2> QED
    BY <2>1, <2>2, <2>3, <2>4
<1>6. ASSUME NEW kind \in ServerKinds, evidence' = [evidence EXCEPT ![c] = Append(@, kind)],
             pc[c] # "idle", UNCHANGED <<attempts, bound>>
      PROVE  AddsRow(c, kind)
  BY <1>1, <1>3, <1>6, StampsOfRow DEF AddsRow
<1>7. ASSUME EndHandler(c)
      PROVE  /\ pc' = [pc EXCEPT ![c] = "closed"]
             /\ evidence' = [evidence EXCEPT ![c] = Append(@, "disconnected")]
             /\ UNCHANGED <<attempts, bound, effects, server>>
  BY <1>2, <1>7 DEF EndHandler
<1>8. {"connected", "disconnected"} \subseteq ServerKinds
  BY DEF ServerKinds
<1>9. CASE ServeHandshake(c)
  <2>1. UNCHANGED <<peer, wire>>
    BY <1>9 DEF ServeHandshake, Network
  <2>2. CASE AcceptSocket(c)
    <3>1. /\ pc[c] = "accepting" /\ pc' = [pc EXCEPT ![c] = "receiving"]
          /\ evidence' = [evidence EXCEPT ![c] = Append(@, "connected")]
          /\ UNCHANGED <<attempts, bound, effects, server>>
      BY <2>2 DEF AcceptSocket
    <3>2. Begins(c)
      BY <1>6, <1>8, <2>1, <3>1 DEF Begins
    <3> QED
      BY <1>4, <2>1, <3>1, <3>2 DEF HandlerMoves
  <2>3. CASE AbortHandshake(c)
    <3>1. /\ pc[c] = "accepting" /\ pc' = [pc EXCEPT ![c] = "closed"]
          /\ UNCHANGED <<attempts, evidence, effects, server>>
      BY <2>3 DEF AbortHandshake, database
    <3>2. Passes(c)
      BY <1>3, <2>1, <3>1, NoStamps DEF Passes
    <3> QED
      BY <1>4, <2>1, <3>1, <3>2 DEF HandlerMoves
  <2> QED
    BY <1>9, <2>2, <2>3 DEF ServeHandshake, Server
<1>10. CASE EndSocket(c)
  <2>1. /\ pc[c] = "closing" \/ peer[c] \in {"closed", "broken"}
        /\ pc[c] \in {"receiving", "closing"} /\ EndHandler(c)
        /\ wire' = [wire EXCEPT ![c] = NoMessage] /\ peer' = peer
    BY <1>10 DEF EndSocket, Server, CloseSocket
  <2>2. Ends(c)
    BY <1>6, <1>7, <1>8, <2>1 DEF Ends
  <2> QED
    BY <1>4, <1>7, <2>1, <2>2 DEF HandlerMoves
<1>11. CASE Answer(c)
  <2>1. UNCHANGED <<peer, wire>>
    BY <1>11 DEF Answer, Network
  <2>2. CASE SendReply(c)
    <3>1. /\ pc[c] = "replying" /\ pc' = [pc EXCEPT ![c] = "marking"]
          /\ UNCHANGED <<attempts, evidence, effects, server>>
      BY <2>2 DEF SendReply, database
    <3>2. Passes(c)
      BY <1>3, <2>1, <3>1, NoStamps DEF Passes
    <3> QED
      BY <1>4, <2>1, <3>1, <3>2 DEF HandlerMoves
  <2>3. CASE peer[c] # "open" /\ ReplyFails(c)
    <3>1. pc[c] = "replying" /\ EndHandler(c)
      BY <2>3 DEF ReplyFails
    <3>2. Ends(c)
      BY <1>6, <1>7, <1>8, <2>1, <2>3, <3>1 DEF Ends
    <3> QED
      BY <1>4, <1>7, <2>1, <3>1, <3>2 DEF HandlerMoves
  <2> QED
    BY <1>11, <2>2, <2>3 DEF Answer, Server
<1>12. CASE Settle(c)
  <2>1. UNCHANGED <<peer, wire>>
    BY <1>12 DEF Settle, Network
  <2>2. CASE MarkReplySent(c)
    <3> DEFINE k == reply[c].attempt
    <3>1. /\ pc[c] = "marking" /\ k \in Positions
          /\ attempts' = [attempts EXCEPT ![k].replied = TRUE]
          /\ UNCHANGED <<evidence, effects, server>>
      BY <1>1, <2>2 DEF MarkReplySent, BaseInv, PendingReplies, Durable
    <3>2. \E stop \in {"processing", "receiving"} : pc' = [pc EXCEPT ![c] = stop]
      BY <2>2 DEF MarkReplySent, Resume
    <3>3. MarksAttempt(k)
      BY <1>3, <3>1, StampsOfMark
    <3>4. Marks(c)
      BY <2>1, <3>1, <3>2, <3>3 DEF Marks
    <3> QED
      BY <1>4, <2>1, <3>1, <3>4 DEF HandlerMoves
  <2>3. CASE ProcessEvent(c) \/ BroadcastEnds(c)
    <3>1. /\ pc[c] \in {"processing", "broadcasting"} /\ UNCHANGED <<attempts, evidence, server>>
          /\ \E stop \in {"broadcasting", "receiving"} : pc' = [pc EXCEPT ![c] = stop]
      BY <2>3 DEF ProcessEvent, BroadcastEnds, Resume, database
    <3>2. Passes(c)
      BY <1>3, <2>1, <3>1, NoStamps DEF Passes
    <3>3. effects' = effects \/ \E e \in Event : effects' = [effects EXCEPT ![e].success = @ + 1]
      <4>1. CASE BroadcastEnds(c)
        BY <4>1 DEF BroadcastEnds, database
      <4>2. CASE ProcessEvent(c)
        <5>1. reply[c].event \in Event
          BY <1>1, <4>2 DEF ProcessEvent, BaseInv, PendingReplies, Durable, Stored
        <5> QED
          BY <4>2, <5>1 DEF ProcessEvent, StoreEffect
      <4> QED
        BY <2>3, <4>1, <4>2
    <3>4. \A e \in Event : effects'[e].failure = effects[e].failure
      BY <1>1, <3>3
    <3> QED
      BY <2>1, <3>1, <3>2, <3>4 DEF HandlerMoves
  <2>4. CASE MarkFails(c) \/ ProcessFails(c)
    BY <1>2, <2>4 DEF MarkFails, ProcessFails, ProcessingFailure
  <2> QED
    BY <1>12, <2>2, <2>3, <2>4 DEF Settle, Server
<1> QED
  BY <1>5, <1>9, <1>10, <1>11, <1>12

\* While nothing crashes or fails, a step of the server is a step of a handler.
LEMMA ServerIsCalm ==
  ASSUME ProtocolInv, AttemptsFit, server = "up", ServerStep, Calm'
  PROVE  /\ \E c \in Conn : HandlerMoves(c)
         /\ UNCHANGED <<peer, server, losses>>
         /\ \A e \in Event : effects'[e].failure = effects[e].failure
<1>1. ClientInv
  BY DEF ProtocolInv
<1>2. ~CrashServer /\ ~RestartServer
  BY <1>1, CalmFaults DEF CrashServer, RestartServer, Server, Crash, Start, Recovery, RecoverEvent,
    RecoverFails, NextToRecover, Serve
<1>3. PICK c \in Conn : Receive(c) \/ ServeHandshake(c) \/ EndSocket(c) \/ Answer(c) \/ Settle(c)
  BY <1>2 DEF ServerStep
<1>4. losses' = losses
  BY <1>3 DEF Receive, ServeHandshake, EndSocket, Answer, Settle, RunnerRests
<1> QED
  BY <1>3, <1>4, HandlerIsCalm

-----------------------------------------------------------------------------
(* What the others add *)

LEMMA BoundsGrow ==
  ASSUME ClientInv, ServerStep
  PROVE  crashes' >= crashes /\ faults' >= faults
<1>1. crashes \in Nat /\ faults \in Nat
  BY DEF ClientInv, SafetyInv, BaseInv, TypeOK
<1>2. (crashes' = crashes \/ crashes' = crashes + 1) /\ (faults' = faults \/ faults' = faults + 1)
  <2>1. ASSUME NEW c \in Conn, Receive(c)
        PROVE  crashes' = crashes /\ (faults' = faults \/ faults' = faults + 1)
    <3>1. CASE \E m \in Message : Ingest(c, m)
      BY <3>1 DEF Ingest, RecordRejected, RecordConflicted, PersistDuplicate, PersistAccepted, bounds
    <3>2. CASE RefuseDelivery(c) \/ IngestFails(c)
      BY <3>2 DEF RefuseDelivery, IngestFails, Fault, bounds
    <3> QED
      BY <2>1, <3>1, <3>2 DEF Receive, Server
  <2>2. ASSUME NEW c \in Conn, ServeHandshake(c) \/ EndSocket(c) \/ Answer(c)
        PROVE  crashes' = crashes /\ (faults' = faults \/ faults' = faults + 1)
    BY <2>2 DEF ServeHandshake, EndSocket, Answer, Server, AcceptSocket, AbortHandshake, CloseSocket,
      SendReply, ReplyFails, EndHandler, Fault, bounds
  <2>3. ASSUME NEW c \in Conn, Settle(c)
        PROVE  crashes' = crashes /\ (faults' = faults \/ faults' = faults + 1)
    BY <2>3 DEF Settle, Server, MarkReplySent, MarkFails, ProcessEvent, ProcessFails,
      ProcessingFailure, BroadcastEnds, Fault, bounds
  <2>4. CASE CrashServer
    BY <2>4 DEF CrashServer, Server, Crash
  <2>5. CASE RestartServer
    BY <2>5 DEF RestartServer, Server, Start, Recovery, RecoverEvent, RecoverFails, ProcessingFailure,
      Serve, Fault, bounds
  <2> QED
    BY <2>1, <2>2, <2>3, <2>4, <2>5 DEF ServerStep
<1> QED
  BY <1>1, <1>2

LEMMA RunnerAdds ==
  ASSUME Typing, RunnerStep
  PROVE  /\ UNCHANGED <<attempts, effects, server, crashes, faults>>
         /\ losses' >= losses
         /\ RecordReconnected => timeline' = Append(timeline, Entry("reconnected", TheRun, socket, 0))
         /\ RecordDelay => timeline' = Append(timeline, Entry("delay_injected", TheRun, socket, Current))
         /\ ForceDisconnect =>
              timeline' = Append(timeline, Entry("forced_disconnect", TheRun, socket, Current))
         /\ RecordRecovery =>
              timeline' = Append(timeline, Entry("recovery_complete", TheRun, socket, Current))
         /\ RecordReconnected \/ RecordDelay \/ ForceDisconnect \/ RecordRecovery
              \/ timeline' = timeline
<1>1. losses \in Nat
  BY DEF Typing, RunTypeOK
<1>2. CASE CreateScenarioRun \/ Dial
  <2>1. Stamp /\ UNCHANGED <<attempts, evidence, effects, server, crashes, faults, losses>>
    BY <1>2 DEF CreateScenarioRun, Dial, Server, CreateRun, OpenSocket, database, bounds
  <2> QED
    BY <1>1, <2>1, <1>2, NoStamps DEF AddsNothing, CreateScenarioRun, Dial, RecordReconnected,
      RecordDelay, ForceDisconnect, RecordRecovery
<1>3. CASE CompleteScenarioRun
  BY <1>1, <1>3 DEF CompleteScenarioRun, CompleteRun, bounds, RecordReconnected, RecordDelay,
    ForceDisconnect, RecordRecovery
<1>4. CASE RecordReconnected \/ RecordDelay \/ ForceDisconnect \/ RecordRecovery
  BY <1>1, <1>4 DEF RecordReconnected, RecordDelay, ForceDisconnect, RecordRecovery, Mark,
    RecordMarker, vars, database, bounds
<1>5. CASE OverlaySeen \/ RequestFails \/ Connected \/ ConnectRefused \/ NextSequence
           \/ EndDeliveries \/ SendAndAwait \/ ReadReply \/ ExchangeFails \/ SendUnread
           \/ SendRaises \/ AcceptanceSeen
  <2>1. ServerRests
    BY <1>5 DEF OverlaySeen, RequestFails, Connected, ConnectRefused, NextSequence,
      EndDeliveries, SendAndAwait, ReadReply, ExchangeFails, SendUnread, SendRaises, AcceptanceSeen
  <2>2. losses' = losses \/ losses' = losses + 1
    BY <1>5 DEF OverlaySeen, RequestFails, Connected, ConnectRefused, NextSequence,
      EndDeliveries, SendAndAwait, ReadReply, ExchangeFails, SendUnread, SendRaises, AcceptanceSeen,
      Lost
  <2>3. UNCHANGED <<attempts, effects, server, crashes, faults, timeline>>
    BY <2>1 DEF ServerRests, vars, verdictVars, database, bounds
  <2>4. Len(timeline) \in Nat
    BY DEF Typing, RunTypeOK
  <2>5. ~(RecordReconnected \/ RecordDelay \/ ForceDisconnect \/ RecordRecovery)
    <3>1. ASSUME NEW entry, timeline' = Append(timeline, entry)
          PROVE  FALSE
      BY <2>3, <2>4, <3>1 DEF Typing, RunTypeOK
    <3> QED
      BY <3>1 DEF RecordReconnected, RecordDelay, ForceDisconnect, RecordRecovery, Mark, RecordMarker
  <2> QED
    BY <1>1, <2>2, <2>3, <2>5
<1> QED
  BY <1>2, <1>3, <1>4, <1>5 DEF RunnerStep

LEMMA EnvironmentAdds ==
  ASSUME Typing, Environment
  PROVE  /\ UNCHANGED <<vars, timeline, config, retries>>
         /\ losses' >= losses
         /\ \A c \in Conn : peer'[c] # peer[c] => peer'[c] = "broken" /\ losses' > 0
<1>1. losses \in Nat /\ peer \in [Conn -> {"none", "open", "broken", "closed"}]
  BY DEF Typing, RunTypeOK
<1>2. UNCHANGED <<vars, timeline, config, retries>>
  BY DEF Environment, OpenOverlay, RenderEvent, ServerRests, verdictVars
<1>3. CASE UNCHANGED runnerVars
  BY <1>1, <1>2, <1>3 DEF runnerVars
<1>4. CASE \E c \in Conn : Lost /\ peer' = [peer EXCEPT ![c] = "broken"]
  BY <1>1, <1>2, <1>4 DEF Lost
<1> QED
  BY <1>3, <1>4 DEF Environment

\* What is calm was so before, and losses are not taken back.
LEMMA CalmBefore ==
  ASSUME ProtocolInv, [RunNext]_allVars
  PROVE  /\ Calm' => Calm
         /\ losses \in Nat /\ losses' \in Nat /\ losses' >= losses
<1>1. /\ ClientInv /\ Typing /\ LegsFit /\ Typing'
      /\ crashes \in Nat /\ faults \in Nat /\ crashes' \in Nat /\ faults' \in Nat
  <2>1. ClientInv' /\ Typing'
    BY ClientNext, TypingNext DEF ProtocolInv
  <2> QED
    BY <2>1 DEF ProtocolInv, ClientInv, SafetyInv, BaseInv, TypeOK
<1>2. losses \in Nat /\ losses' \in Nat
  BY <1>1 DEF Typing, RunTypeOK
<1>3. CASE ServerStep
  <2>1. UNCHANGED <<at, losses>>
    BY <1>3 DEF ServerStep, Receive, ServeHandshake, EndSocket, Answer, Settle, CrashServer,
      RestartServer, RunnerRests
  <2> QED
    BY <1>1, <1>2, <1>3, <2>1, BoundsGrow DEF Calm
<1>4. CASE Environment
  BY <1>1, <1>2, <1>4, EnvironmentAdds, OutsideStep DEF Calm, vars, bounds
<1>5. CASE RunnerStep
  BY <1>1, <1>2, <1>5, RunnerAdds, RunnerIsNotDone DEF Calm
<1>6. CASE UNCHANGED allVars
  BY <1>2, <1>6 DEF Calm, allVars, vars, bounds, runnerVars
<1> QED
  BY <1>3, <1>4, <1>5, <1>6 DEF RunNext

\* An entry is added after the others and changes none of them.
LEMMA TimesAfter ==
  ASSUME Typing, NEW entry, timeline' = Append(timeline, entry)
  PROVE  /\ Len(timeline) \in Nat /\ DOMAIN timeline = 1 .. Len(timeline)
         /\ \A t \in DOMAIN timeline : timeline'[t] = timeline[t]
         /\ timeline'[Len(timeline) + 1] = entry
         /\ \A kind : Times(kind, TheRun)' =
              Times(kind, TheRun) \cup
                (IF entry.kind = kind /\ entry.run = TheRun THEN {Len(timeline) + 1} ELSE {})
<1>1. timeline \in Seq(Entries)
  BY DEF Typing, RunTypeOK
<1>2. /\ Len(timeline) \in Nat /\ DOMAIN timeline = 1 .. Len(timeline)
      /\ \A t \in DOMAIN timeline : timeline'[t] = timeline[t]
      /\ timeline'[Len(timeline) + 1] = entry
      /\ DOMAIN timeline' = DOMAIN timeline \cup {Len(timeline) + 1}
      /\ Len(timeline) + 1 \notin DOMAIN timeline
  BY <1>1
<1>3. ASSUME NEW kind
      PROVE  Times(kind, TheRun)' =
              Times(kind, TheRun) \cup
                (IF entry.kind = kind /\ entry.run = TheRun THEN {Len(timeline) + 1} ELSE {})
  BY <1>2 DEF Times
<1> QED
  BY <1>2, <1>3

LEMMA TimesGrow ==
  ASSUME ProtocolInv, [RunNext]_allVars
  PROVE  /\ Len(timeline) \in Nat /\ DOMAIN timeline = 1 .. Len(timeline)
         /\ \A t \in DOMAIN timeline : timeline'[t] = timeline[t]
         /\ \A kind : /\ Times(kind, TheRun) \subseteq DOMAIN timeline
                      /\ Times(kind, TheRun) \subseteq Times(kind, TheRun)'
                      /\ \A t \in Times(kind, TheRun)' :
                           t \in Times(kind, TheRun) \/ t = Len(timeline) + 1
         /\ \A kind, key : /\ TimesAt(kind, TheRun, key) \subseteq TimesAt(kind, TheRun, key)'
                           /\ TimesOf(kind, TheRun, key) \subseteq TimesOf(kind, TheRun, key)'
         /\ \A e, c : HeldOn(e, c) \subseteq HeldOn(e, c)'
<1>1. Typing /\ timeline \in Seq(Entries)
  BY DEF ProtocolInv, Typing, RunTypeOK
<1>2. timeline' = timeline \/ \E entry : timeline' = Append(timeline, entry)
  <2>1. CASE ServerStep
    BY <2>1, ServerStamps DEF Stamp
  <2>2. CASE RunnerStep
    BY <1>1, <2>2, RunnerAdds
  <2>3. CASE Environment
    BY <1>1, <2>3, EnvironmentAdds
  <2>4. CASE UNCHANGED allVars
    BY <2>4 DEF allVars, verdictVars
  <2> QED
    BY <2>1, <2>2, <2>3, <2>4 DEF RunNext
<1>3. /\ Len(timeline) \in Nat /\ DOMAIN timeline = 1 .. Len(timeline)
      /\ \A t \in DOMAIN timeline : timeline'[t] = timeline[t]
      /\ \A kind : /\ Times(kind, TheRun) \subseteq DOMAIN timeline
                   /\ Times(kind, TheRun) \subseteq Times(kind, TheRun)'
                   /\ \A t \in Times(kind, TheRun)' :
                        t \in Times(kind, TheRun) \/ t = Len(timeline) + 1
  <2>1. CASE timeline' = timeline
    BY <1>1, <2>1 DEF Times
  <2>2. CASE \E entry : timeline' = Append(timeline, entry)
    <3>1. PICK entry : timeline' = Append(timeline, entry)
      BY <2>2
    <3>2. \A kind : Times(kind, TheRun) \subseteq DOMAIN timeline
      BY DEF Times
    <3> QED
      BY <1>1, <3>1, <3>2, TimesAfter
  <2> QED
    BY <1>2, <2>1, <2>2
<1>4. ASSUME NEW kind, NEW key
      PROVE  /\ TimesAt(kind, TheRun, key) \subseteq TimesAt(kind, TheRun, key)'
             /\ TimesOf(kind, TheRun, key) \subseteq TimesOf(kind, TheRun, key)'
  BY <1>3 DEF TimesAt, TimesOf
<1>5. ASSUME NEW e, NEW c
      PROVE  HeldOn(e, c) \subseteq HeldOn(e, c)'
  <2>1. \A t \in TimesOf("delay_injected", TheRun, e) : timeline'[t] = timeline[t]
    BY <1>3 DEF TimesOf
  <2> QED
    BY <1>4, <2>1 DEF HeldOn
<1> QED
  BY <1>3, <1>4, <1>5

-----------------------------------------------------------------------------
(* The attempts and the counters *)

LEMMA AttemptsStay ==
  ASSUME ProtocolInv, [RunNext]_allVars
  PROVE  /\ Positions \subseteq Positions'
         /\ \A i \in Positions :
              /\ attempts'[i].conn = attempts[i].conn /\ attempts'[i].run = attempts[i].run
              /\ attempts'[i].event = attempts[i].event
              /\ attempts'[i].outcome = attempts[i].outcome
              /\ attempts'[i].category = attempts[i].category
              /\ attempts[i].replied => attempts'[i].replied
<1>1. BaseInv /\ TypeOK /\ [Next]_vars
  BY ComposedStep DEF ProtocolInv, ClientInv, SafetyInv, BaseInv
<1>2. Positions \subseteq Positions'
  BY <1>1, TablesGrow
<1>3. ASSUME NEW i \in Positions
      PROVE  /\ attempts'[i].conn = attempts[i].conn /\ attempts'[i].run = attempts[i].run
             /\ attempts'[i].event = attempts[i].event
             /\ attempts'[i].outcome = attempts[i].outcome
             /\ attempts'[i].category = attempts[i].category
  <2>1. attempts[i] \in Attempts
    BY <1>1, AttemptRows
  <2>2. attempts'[i] = attempts[i] \/ attempts'[i] = [attempts[i] EXCEPT !.replied = TRUE]
    BY <1>1, TablesGrow
  <2> QED
    BY <2>1, <2>2 DEF Attempts
<1>4. \A i \in Positions : attempts[i].replied => attempts'[i].replied
  BY <1>1, EvidenceStep
<1> QED
  BY <1>2, <1>3, <1>4

LEMMA NewAttempts ==
  ASSUME ProtocolInv, AttemptsFit, server = "up", [RunNext]_allVars, Calm',
         NEW i \in Positions', i \notin Positions
  PROVE  ServerStep /\ i = Len(attempts) + 1 /\ \E c \in Conn : Delivers(c)
<1>1. Typing
  BY DEF ProtocolInv
<1>2. attempts' # attempts
  BY DEF Positions
<1>3. ServerStep
  BY <1>1, <1>2, RunnerAdds, EnvironmentAdds DEF RunNext, allVars, vars, database
<1>4. PICK c \in Conn : HandlerMoves(c)
  BY <1>3, ServerIsCalm
<1>5. Delivers(c)
  BY <1>2, <1>4 DEF HandlerMoves, Refuses, AddsNothing, Marks, MarksAttempt, Begins, Ends, AddsRow,
    Passes
<1> QED
  BY <1>3, <1>5 DEF Delivers, NewAttempt

\* Whether an attempt fits a position depends on the plan only.
LEMMA FitsStays ==
  ASSUME [RunNext]_allVars
  PROVE  \A a, p : Fits(a, p)' <=> Fits(a, p)
BY PlanStays DEF Fits

LEMMA AttemptsFitNext ==
  ASSUME ProtocolInv, AttemptsFit, server = "up", [RunNext]_allVars, Calm'
  PROVE  AttemptsFit'
<1>1. /\ ClientInv /\ Typing /\ SocketsInTurn /\ Conn \subseteq Nat
      /\ TypeOK /\ socket \in Nat
  BY SocketIsNumber DEF ProtocolInv, ClientInv, SafetyInv, BaseInv
<1>3. position \in Nat /\ position' \in {position, position + 1}
  BY <1>1, PositionGrows
<1>4. socket' \in {socket, socket + 1}
  BY <1>1, OutsideStep, RunnerKeepsToItsSocket, DialTakesTheNext DEF RunNext, allVars, runnerVars
<1>5. \A i \in Positions : attempts[i].conn \in Nat
  BY <1>1, AttemptRows
<1>6. ASSUME NEW i \in Positions
      PROVE  /\ attempts'[i].run = TheRun /\ attempts'[i].conn <= socket'
             /\ \E p \in 1 .. position' : Fits(attempts'[i], p)
  <2>1. PICK p \in 1 .. position : Fits(attempts[i], p)
    BY DEF AttemptsFit
  <2>2. Fits(attempts'[i], p)
    BY <2>1, AttemptsStay DEF Fits
  <2>3. p \in 1 .. position'
    BY <1>3
  <2>4. attempts'[i].run = TheRun /\ attempts'[i].conn = attempts[i].conn /\ attempts[i].conn <= socket
    BY AttemptsStay DEF AttemptsFit
  <2> QED
    BY <1>1, <1>4, <1>5, <2>2, <2>3, <2>4
<1>7. ASSUME NEW i \in Positions', i \notin Positions
      PROVE  /\ attempts'[i].run = TheRun /\ attempts'[i].conn <= socket'
             /\ \E p \in 1 .. position' : Fits(attempts'[i], p)
  <2>1. PICK c \in Conn : ServerStep /\ i = Len(attempts) + 1 /\ Delivers(c)
    BY <1>7, NewAttempts
  <2>2. /\ attempts'[i].conn = c /\ attempts'[i].run = TheRun
        /\ \E p \in 1 .. position : Fits(attempts'[i], p)
        /\ pc[c] = "receiving"
    BY <2>1 DEF Delivers, NewAttempt
  <2>3. c <= socket
    BY <1>1, <2>2 DEF SocketsInTurn
  <2>4. socket' = socket /\ position' = position
    BY <1>1, <2>1, OutsideStep
  <2> QED
    BY <2>2, <2>3, <2>4
<1>8. \A i \in Positions' :
        /\ attempts'[i].run = TheRun /\ attempts'[i].conn <= socket'
        /\ \E p \in 1 .. position' : Fits(attempts'[i], p)
  BY <1>6, <1>7
<1> QED
  BY <1>8, FitsStays DEF AttemptsFit

-----------------------------------------------------------------------------
(* The kinds of calm steps *)

Ours == <<position, leg, read, acked, refusals, confirmed, retryCount, forcedReconnects>>

\* A handler moves.
ServerMoves ==
  /\ \E c \in Conn : HandlerMoves(c)
  /\ UNCHANGED <<at, socket, peer, losses, runs, Ours>>

\* A connection may break and its message be lost.
LinesShake ==
  /\ UNCHANGED <<attempts, timeline, pc, runs, at, socket, Ours>>
  /\ \A c \in Conn : /\ wire'[c] \in {wire[c], NoMessage}
                     /\ peer'[c] = peer[c] \/ (peer[c] = "open" /\ peer'[c] = "broken" /\ losses' > 0)

Dials ==
  /\ at = "dialing" /\ at' = "handshaking"
  /\ socket' = socket + 1 /\ socket' \in Conn
  /\ pc[socket'] = "idle" /\ peer[socket'] = "none" /\ wire[socket'] = NoMessage
  /\ pc'[socket'] \in {"accepting", "closed"} /\ \A c \in Conn \ {socket'} : pc'[c] = pc[c]
  /\ UNCHANGED <<attempts, timeline, peer, wire, losses, runs, Ours>>

\* The runner gets on at its socket.
Operates ==
  /\ RunnerStep /\ ~Dial
  /\ UNCHANGED <<attempts, pc, socket>>
  /\ \A c \in Conn \ {socket} : peer'[c] = peer[c] /\ wire'[c] = wire[c]

LEMMA CalmSteps ==
  ASSUME ProtocolInv, AttemptsFit, server = "up", [RunNext]_allVars, Calm'
  PROVE  /\ ServerMoves \/ LinesShake \/ Dials \/ Operates
         /\ server' = "up"
         /\ \A e \in Event : effects'[e].failure = effects[e].failure
<1>1. ClientInv /\ Typing /\ SocketsInTurn
  BY DEF ProtocolInv
<1>2. CASE ServerStep
  BY <1>1, <1>2, ServerIsCalm, OutsideStep DEF ServerMoves, Ours
<1>3. CASE Environment
  <2>1. UNCHANGED <<at, socket, Ours>> /\ \A c \in Conn : wire'[c] \in {wire[c], NoMessage}
    BY <1>1, <1>3, OutsideStep DEF Ours
  <2>2. UNCHANGED <<attempts, timeline, pc, runs, server, effects>>
    BY <1>1, <1>3, EnvironmentAdds DEF vars, database, handlers
  <2>3. ASSUME NEW c \in Conn, peer'[c] # peer[c]
        PROVE  peer[c] = "open" /\ peer'[c] = "broken" /\ losses' > 0
    <3>1. peer'[c] = "broken" /\ losses' > 0
      BY <1>1, <1>3, <2>3, EnvironmentAdds
    <3>2. peer[c] = "open"
      BY <1>1, <1>3, <2>3 DEF Environment, runnerVars, Typing, RunTypeOK
    <3> QED
      BY <3>1, <3>2
  <2> QED
    BY <2>1, <2>2, <2>3 DEF LinesShake
<1>4. CASE Dial
  <2>1. UNCHANGED <<attempts, timeline, server, effects>>
    <3>1. RunnerStep
      BY <1>4 DEF RunnerStep
    <3>2. OpenSocket(socket + 1, TheRun) /\ Stamp
      BY <1>4 DEF Dial, Server
    <3>3. UNCHANGED <<attempts, evidence>>
      BY <3>2 DEF OpenSocket, database
    <3> QED
      BY <1>1, <3>1, <3>2, <3>3, RunnerAdds, NoStamps DEF AddsNothing
  <2>2. /\ socket' = socket + 1 /\ socket' \in Conn
        /\ pc' = [pc EXCEPT ![socket'] = IF runs[TheRun] = "running" THEN "accepting" ELSE "closed"]
        /\ losses' = losses
    BY <1>1, <1>4, DialTakesTheNext DEF Dial, Server, OpenSocket
  <2>3. pc \in [Conn -> States]
    BY <1>1 DEF ClientInv, SafetyInv, BaseInv, TypeOK
  <2>4. pc'[socket'] \in {"accepting", "closed"}
    BY <2>2, <2>3
  <2> QED
    BY <1>1, <1>4, <2>1, <2>2, <2>4, DialTakesTheNext DEF Dials, Ours
<1>5. CASE RunnerStep /\ ~Dial
  BY <1>1, <1>5, RunnerKeepsToItsSocket, RunnerAdds DEF Operates
<1>6. CASE UNCHANGED allVars
  BY <1>6 DEF allVars, vars, database, handlers, runnerVars, counted, verdictVars, LinesShake, Ours
<1> QED
  BY <1>2, <1>3, <1>4, <1>5, <1>6 DEF RunNext

\* Where each of the runner's steps leads from, and to, when it does not give up.
LEMMA RunnerStops ==
  ASSUME Operates, at' # "failed"
  PROVE  \/ CreateScenarioRun /\ at = "creating" /\ at' = "awaiting_overlay"
         \/ OverlaySeen /\ at = "awaiting_overlay" /\ at' = "dialing"
         \/ CompleteScenarioRun /\ at = "completing" /\ at' = "done"
         \/ Connected /\ at = "handshaking" /\ at' = (IF position = 0 THEN "next" ELSE "reconnected")
         \/ RecordReconnected /\ at = "reconnected" /\ at' = "sending"
         \/ NextSequence /\ at = "next" /\ at' \in {"delaying", "sending"}
         \/ EndDeliveries /\ at = "next" /\ at' = "completing"
         \/ RecordDelay /\ at = "delaying" /\ at' = "sending"
         \/ SendAndAwait /\ at = "sending" /\ at' = "awaiting"
         \/ ReadReply /\ at = "awaiting" /\ at' \in {"recovering", "sending", "next"}
         \/ ExchangeFails /\ at = "awaiting" /\ at' = "dialing"
         \/ SendUnread /\ at = "sending" /\ at' = "polling"
         \/ AcceptanceSeen /\ at = "polling" /\ at' = "forcing"
         \/ ForceDisconnect /\ at = "forcing" /\ at' = "dialing"
         \/ RecordRecovery /\ at = "recovering" /\ at' \in {"sending", "next"}
<1>1. ~RequestFails /\ ~ConnectRefused /\ ~SendRaises
  BY DEF RequestFails, ConnectRefused, SendRaises, Abort, Proceed
<1>2. CASE CreateScenarioRun \/ OverlaySeen \/ CompleteScenarioRun
  BY <1>2 DEF CreateScenarioRun, OverlaySeen, CompleteScenarioRun, Proceed
<1>3. CASE Connected \/ NextSequence \/ EndDeliveries
  BY <1>3 DEF Connected, NextSequence, EndDeliveries, Proceed
<1>4. CASE RecordReconnected \/ RecordDelay \/ ForceDisconnect \/ RecordRecovery
  BY <1>4 DEF RecordReconnected, RecordDelay, ForceDisconnect, RecordRecovery, Mark, FollowUp, Proceed
<1>5. CASE SendAndAwait \/ ExchangeFails \/ SendUnread \/ AcceptanceSeen
  BY <1>5 DEF SendAndAwait, ExchangeFails, SendUnread, AcceptanceSeen, Proceed
<1>6. CASE ReadReply
  BY <1>6 DEF ReadReply, Continue, FollowUp, Proceed
<1> QED
  BY <1>1, <1>2, <1>3, <1>4, <1>5, <1>6 DEF Operates, RunnerStep

\* Which of the runner's steps change what.
LEMMA RunnerKeeps ==
  ASSUME Typing, Operates, at' # "failed"
  PROVE  /\ IF Connected THEN peer'[socket] = "open"
            ELSE IF EndDeliveries \/ ExchangeFails \/ ForceDisconnect THEN peer'[socket] = "closed"
            ELSE peer' = peer
         /\ SendAndAwait \/ SendUnread \/ wire' = wire
         /\ ReadReply \/ UNCHANGED <<read, acked, refusals, confirmed>>
         /\ NextSequence \/ position' = position
         /\ NextSequence \/ ForceDisconnect \/ ReadReply \/ RecordRecovery \/ leg' = leg
         /\ ExchangeFails => retryCount' = retryCount + 1 /\ forcedReconnects' = forcedReconnects
         /\ ForceDisconnect =>
              retryCount' = retryCount + 1 /\ forcedReconnects' = forcedReconnects + 1
         /\ ExchangeFails \/ ForceDisconnect \/ UNCHANGED <<retryCount, forcedReconnects>>
         /\ CompleteScenarioRun \/ CreateScenarioRun \/ runs' = runs
<1>1. /\ peer \in [Conn -> {"none", "open", "broken", "closed"}]
      /\ at \in {"handshaking", "next", "awaiting", "forcing"} => socket \in Conn /\ socket # 0
  BY RunnerAssumption DEF Typing, RunTypeOK, Located
<1>2. CASE CreateScenarioRun
  BY <1>2 DEF CreateScenarioRun, Proceed, Network, counted, Connected, EndDeliveries,
    ExchangeFails, ForceDisconnect
<1>3. CASE OverlaySeen
  BY <1>3 DEF OverlaySeen, Proceed, Network, counted, Connected, EndDeliveries,
    ExchangeFails, ForceDisconnect, ServerRests, vars, database
<1>4. CASE CompleteScenarioRun
  BY <1>4 DEF CompleteScenarioRun, Network, counted, Connected, EndDeliveries,
    ExchangeFails, ForceDisconnect
<1>5. CASE Connected
  BY <1>1, <1>5 DEF Connected, Proceed, counted, ExchangeFails, ForceDisconnect, ServerRests,
    vars, database
<1>6. CASE RecordReconnected \/ RecordDelay
  BY <1>6 DEF RecordReconnected, RecordDelay, Mark, RecordMarker, Network, counted, Connected,
    EndDeliveries, ExchangeFails, ForceDisconnect, vars, database
<1>7. CASE NextSequence
  BY <1>7 DEF NextSequence, Proceed, Network, counted, Connected, EndDeliveries, ExchangeFails,
    ForceDisconnect, ServerRests, vars, database
<1>8. CASE EndDeliveries
  BY <1>1, <1>8 DEF EndDeliveries, Close, Proceed, counted, Connected, ExchangeFails,
    ForceDisconnect, ServerRests, vars, database
<1>9. CASE SendAndAwait \/ SendUnread
  BY <1>9 DEF SendAndAwait, SendUnread, Proceed, counted, Connected, EndDeliveries, ExchangeFails,
    ForceDisconnect, ServerRests, vars, database
<1>10. CASE ReadReply
  <2>1. UNCHANGED <<position, Network, retryCount, forcedReconnects, runs>> /\ at = "awaiting"
    BY <1>10 DEF ReadReply, ServerRests, vars, database
  <2>2. at' \in {"recovering", "sending", "next"}
    BY <1>10 DEF ReadReply, Continue, FollowUp, Proceed
  <2> QED
    BY <1>10, <2>1, <2>2 DEF Network, Connected, EndDeliveries, ExchangeFails, ForceDisconnect, Proceed
<1>11. CASE ExchangeFails
  BY <1>1, <1>11 DEF ExchangeFails, Close, Proceed, Connected, EndDeliveries, ForceDisconnect,
    ServerRests, vars, database
<1>12. CASE ForceDisconnect
  BY <1>1, <1>12 DEF ForceDisconnect, Close, Proceed, Connected, EndDeliveries, ExchangeFails,
    RecordMarker, vars, database
<1>13. CASE AcceptanceSeen
  BY <1>13 DEF AcceptanceSeen, Proceed, Network, counted, Connected, EndDeliveries, ExchangeFails,
    ForceDisconnect, ServerRests, vars, database
<1>14. CASE RecordRecovery
  BY <1>14 DEF RecordRecovery, Network, counted, Connected, EndDeliveries, ExchangeFails,
    ForceDisconnect, RecordMarker, vars, database
<1> QED
  BY <1>2, <1>3, <1>4, <1>5, <1>6, <1>7, <1>8, <1>9, <1>10, <1>11, <1>12, <1>13, <1>14, RunnerStops

-----------------------------------------------------------------------------
(* The counters and the lines *)

\* A reply that can be read is about an attempt of its outcome and event.
LEMMA UnreadReplies ==
  ASSUME ProtocolInv, NEW c, NEW rep \in Unread(c)
  PROVE  /\ rep.attempt \in Positions \ read /\ attempts[rep.attempt].conn = c
         /\ attempts[rep.attempt].outcome = rep.status
         /\ attempts[rep.attempt].event = rep.event
<1>1. RepliesAreDurable /\ PendingReplies
  BY DEF ProtocolInv, ClientInv, SafetyInv, BaseInv
<1>2. Durable(rep)
  BY <1>1 DEF Unread, RepliesAreDurable, PendingReplies
<1> QED
  BY <1>2 DEF Durable, Unread

LEMMA CountersFitNext ==
  ASSUME ProtocolInv, AttemptsFit, CountersFit, server = "up", [RunNext]_allVars, Calm'
  PROVE  CountersFit'
<1>1. ClientInv /\ Typing /\ LegsFit /\ BaseInv /\ TypeOK /\ at' # "failed"
  BY DEF ProtocolInv, ClientInv, SafetyInv, BaseInv, Calm
<1>2. /\ ServerMoves \/ LinesShake \/ Dials \/ Operates
      /\ \A e \in Event : effects'[e].failure = effects[e].failure
  BY CalmSteps
<1>3. ASSUME CompleteScenarioRun
      PROVE  /\ Completed' /\ report'[TheRun] = Cardinality(acked)
             /\ retries'[TheRun] = retryCount /\ UNCHANGED <<acked, retryCount>>
  BY <1>1, <1>3, RunnerAssumption DEF CompleteScenarioRun, CompleteRun, counted, Completed, TypeOK,
    Typing, RunTypeOK
<1>4. Completed' => Completed \/ CompleteScenarioRun
  BY <1>1, CompletedOnce
<1>5. Completed => /\ Completed' /\ UNCHANGED <<acked, retryCount>>
                   /\ report'[TheRun] = report[TheRun] /\ retries' = retries
  <2> SUFFICES ASSUME Completed
               PROVE  /\ Completed' /\ UNCHANGED <<acked, retryCount>>
                      /\ report'[TheRun] = report[TheRun] /\ retries' = retries
    OBVIOUS
  <2>1. ~RunnerStep
    BY <1>1, RunnerIsNotDone
  <2>2. UNCHANGED <<acked, retryCount>>
    BY <1>2, <2>1 DEF ServerMoves, LinesShake, Dials, Operates, Ours
  <2>3. runs[TheRun] = "completed"
    BY DEF Completed
  <2>4. retries' = retries
    BY <1>1, <2>3, EvidenceKept
  <2> QED
    BY <1>1, <2>2, <2>3, <2>4, RowsKept DEF Completed
<1>6. at' = "done" => Completed'
  <2>1. at = "done" => Completed'
    BY <1>5 DEF CountersFit
  <2>2. Operates => at' # "done" \/ CompleteScenarioRun
    BY <1>1, RunnerStops
  <2>3. ~Operates => at' # "done" \/ at = "done"
    BY <1>2 DEF ServerMoves, LinesShake, Dials
  <2> QED
    BY <1>3, <2>1, <2>2, <2>3
<1>7. Completed' => report'[TheRun] = Cardinality(acked') /\ retries'[TheRun] = retryCount'
  BY <1>3, <1>4, <1>5 DEF CountersFit
<1>8. Duplicated(TheRun) \subseteq Duplicated(TheRun)'
  BY AttemptsStay DEF Duplicated, Outcome, AttemptsOf
<1>9. confirmed' \subseteq Duplicated(TheRun)'
  <2>1. CASE ReadReply
    <3>1. PICK rep \in Unread(socket) : Continue(rep)
      BY <2>1 DEF ReadReply
    <3>3. confirmed' = confirmed \/ (/\ leg = "duplicate" /\ rep.status = "duplicate"
                                     /\ confirmed' = confirmed \cup {Current})
      BY <3>1 DEF Continue
    <3>4. ASSUME leg = "duplicate", rep.status = "duplicate"
          PROVE  Current \in Duplicated(TheRun)
      <4>1. /\ at = "awaiting" /\ socket \in Conn /\ peer[socket] # "closed" /\ position >= 1
        BY <1>1, <2>1 DEF ReadReply, Typing, Located
      <4>2. Answers(rep)
        BY <4>1, <3>1 DEF ProtocolInv, OneExchange
      <4>3. Payload.shape = "valid" /\ Payload.event = Current
        BY <3>4 DEF Payload
      <4>4. rep.event = Current
        BY <4>2, <4>3 DEF Answers, ClaimedEvent
      <4>5. rep.attempt \in Positions /\ attempts[rep.attempt].run = TheRun
            /\ attempts[rep.attempt].outcome = "duplicate"
            /\ attempts[rep.attempt].event = Current
        BY <3>4, <4>4, UnreadReplies DEF AttemptsFit
      <4> QED
        BY <4>5 DEF Duplicated, Outcome, AttemptsOf
    <3> QED
      BY <1>8, <3>3, <3>4 DEF CountersFit
  <2>2. CASE ~ReadReply
    BY <1>1, <1>8, <2>2, CountersMove DEF CountersFit
  <2> QED
    BY <2>1, <2>2
<1> QED
  BY <1>2, <1>6, <1>7, <1>9 DEF CountersFit

LEMMA LinesFitNext ==
  ASSUME ProtocolInv, AttemptsFit, LinesFit, [RunNext]_allVars, Calm'
  PROVE  LinesFit'
<1>1. ClientInv /\ Typing /\ LegsFit /\ OneExchange /\ SocketsInTurn /\ at' # "failed" /\ server = "up"
  BY DEF ProtocolInv, Calm, LinesFit
<1>2. /\ ServerMoves \/ LinesShake \/ Dials \/ Operates
      /\ server' = "up"
  BY <1>1, CalmSteps
<1>3. /\ peer \in [Conn -> {"none", "open", "broken", "closed"}]
      /\ wire \in [Conn -> Message \cup {NoMessage}]
      /\ pc \in [Conn -> States]
  BY <1>1 DEF Typing, RunTypeOK, ClientInv, SafetyInv, BaseInv, TypeOK
<1>4. CASE ServerMoves
  <2>1. PICK c \in Conn : HandlerMoves(c)
    BY <1>4 DEF ServerMoves
  <2>2. UNCHANGED <<at, socket, peer, leg, position>>
    BY <1>4 DEF ServerMoves, Ours
  <2>3. ASSUME NEW d \in Conn, peer[d] = "none"
        PROVE  wire'[d] = NoMessage /\ pc'[d] \in {"idle", "accepting", "receiving", "closed"}
    <3>1. wire[d] = NoMessage /\ pc[d] \in {"idle", "accepting", "receiving", "closed"}
      BY <2>3 DEF LinesFit
    <3>2. CASE d = c
      BY <1>3, <2>1, <3>1, <3>2 DEF HandlerMoves, Delivers, Refuses, Marks, Begins, Ends, Passes
    <3>3. CASE d # c
      BY <1>3, <2>1, <3>1, <3>3 DEF HandlerMoves, Delivers, Refuses, Marks, Begins, Ends, Passes
    <3> QED
      BY <3>2, <3>3
  <2> QED
    BY <1>2, <2>2, <2>3 DEF LinesFit
<1>5. CASE LinesShake
  <2>1. \A c \in Conn : peer'[c] = "none" => wire'[c] = NoMessage /\ pc'[c] = pc[c] /\ peer[c] = "none"
    BY <1>5 DEF LinesShake, LinesFit
  <2>2. UNCHANGED <<at, socket, leg, position>>
    BY <1>5 DEF LinesShake, Ours
  <2>3. at \in {"reconnected", "next", "delaying", "sending", "awaiting", "polling", "forcing",
                "recovering"} => socket \in Conn
    BY <1>1 DEF Typing, Located
  <2>4. \A c \in Conn : peer[c] \in {"open", "broken"} => peer'[c] \in {"open", "broken"}
    BY <1>5 DEF LinesShake
  <2> QED
    BY <1>2, <2>1, <2>2, <2>3, <2>4 DEF LinesFit
<1>6. CASE Dials
  BY <1>2, <1>6 DEF Dials, LinesFit, Ours
<1>7. CASE Operates
  <2>1. ASSUME NEW c \in Conn, peer'[c] = "none"
        PROVE  wire'[c] = NoMessage /\ pc'[c] \in {"idle", "accepting", "receiving", "closed"}
    <3>1. pc' = pc
      BY <1>7 DEF Operates
    <3>2. CASE c # socket
      BY <1>7, <2>1, <3>1, <3>2 DEF Operates, LinesFit
    <3>3. CASE c = socket
      <4>1. peer[c] = "none"
        BY <1>1, <1>7, <2>1, <3>3, RunnerKeeps
      <4>2. ~SendAndAwait /\ ~SendUnread
        BY <3>3, <4>1 DEF LinesFit, SendAndAwait, SendUnread
      <4>3. wire' = wire
        BY <1>1, <1>7, <4>2, RunnerKeeps
      <4> QED
        BY <3>1, <4>1, <4>3 DEF LinesFit
    <3> QED
      BY <3>2, <3>3
  <2>2. at' \in {"reconnected", "next", "delaying", "sending", "awaiting", "polling", "forcing",
                 "recovering"} => peer'[socket'] \in {"open", "broken"}
    <3>1. socket' = socket
      BY <1>7 DEF Operates
    <3>2. CASE Connected
      BY <1>1, <1>7, <3>1, <3>2, RunnerKeeps
    <3>3. ASSUME ~Connected,
                 at' \in {"reconnected", "next", "delaying", "sending", "awaiting", "polling",
                         "forcing", "recovering"}
          PROVE  peer'[socket'] \in {"open", "broken"}
      <4>1. /\ ~EndDeliveries /\ ~ExchangeFails /\ ~ForceDisconnect
            /\ at \in {"reconnected", "next", "delaying", "sending", "awaiting", "polling",
                       "forcing", "recovering"}
        <5>1. ~EndDeliveries /\ ~ExchangeFails /\ ~ForceDisconnect
          BY <1>1, <3>3 DEF EndDeliveries, ExchangeFails, ForceDisconnect, Proceed
        <5> QED
          BY <1>1, <1>7, <3>3, <5>1, RunnerStops
      <4>2. peer' = peer
        BY <1>1, <1>7, <3>3, <4>1, RunnerKeeps
      <4> QED
        BY <3>1, <4>1, <4>2 DEF LinesFit
    <3> QED
      BY <3>2, <3>3
  <2>3. at' = "recovering" => leg' = "retried"
    <3>1. at' = "recovering" => ReadReply
      BY <1>1, <1>7, RunnerStops
    <3>2. at' = "recovering" /\ ReadReply => leg' = "retried"
      BY DEF ReadReply, Continue, FollowUp, Proceed
    <3> QED
      BY <3>1, <3>2
  <2>4. at' = "delaying" => leg' = "planned"
    <3>1. at' = "delaying" => NextSequence
      BY <1>1, <1>7, RunnerStops
    <3> QED
      BY <3>1 DEF NextSequence
  <2>5. at' \in {"creating", "awaiting_overlay"} => position' = 0
    <3>1. at' \in {"creating", "awaiting_overlay"} => CreateScenarioRun /\ at = "creating"
      BY <1>1, <1>7, RunnerStops
    <3>2. CreateScenarioRun => position' = position
      BY DEF CreateScenarioRun
    <3> QED
      BY <3>1, <3>2 DEF LinesFit
  <2> QED
    BY <1>2, <2>1, <2>2, <2>3, <2>4, <2>5 DEF LinesFit
<1> QED
  BY <1>2, <1>4, <1>5, <1>6, <1>7

-----------------------------------------------------------------------------
(* The attempts of an exchange *)

\* What a handler that delivers nothing leaves alone.
LEMMA OthersStoreNothing ==
  ASSUME Typing, NEW c \in Conn, HandlerMoves(c)
  PROVE  /\ \A d \in Conn : wire'[d] \in {wire[d], NoMessage}
         /\ Delivers(c) \/ Positions' = Positions
<1>1. wire \in [Conn -> Message \cup {NoMessage}]
  BY DEF Typing, RunTypeOK
<1>2. \A d \in Conn : wire'[d] \in {wire[d], NoMessage}
  BY <1>1 DEF HandlerMoves, Delivers, Refuses, Marks, Begins, Ends, Passes
<1>3. Delivers(c) \/ Positions' = Positions
  BY DEF HandlerMoves, Refuses, Marks, MarksAttempt, Begins, Ends, Passes, AddsRow, AddsNothing,
    Positions
<1> QED
  BY <1>2, <1>3

\* The runner reads the attempt that its exchange made.
LEMMA ReadingTakesIt ==
  ASSUME ProtocolInv, OneAttempt, ReadReply
  PROVE  \E rep \in Unread(socket) :
           /\ read' = read \cup {rep.attempt} /\ Observe(rep)
           /\ rep.attempt \in UnreadOn(socket)
           /\ \A i \in UnreadOn(socket) : i = rep.attempt
           /\ wire[socket] = NoMessage
<1>1. socket \in Conn /\ peer[socket] # "closed"
  BY DEF ReadReply, ProtocolInv, Typing, Located
<1>2. PICK rep \in Unread(socket) : read' = read \cup {rep.attempt} /\ Observe(rep)
  BY DEF ReadReply
<1>3. rep.attempt \in UnreadOn(socket)
  BY UnreadReplies DEF UnreadOn
<1>4. wire[socket] = NoMessage
  BY <1>1, <1>2 DEF ProtocolInv, OneExchange
<1> QED
  BY <1>1, <1>2, <1>3, <1>4 DEF OneAttempt

LEMMA OneAttemptNext ==
  ASSUME ProtocolInv, AttemptsFit, LinesFit, OneAttempt, [RunNext]_allVars, Calm'
  PROVE  OneAttempt'
<1> DEFINE On(c) == /\ wire[c] # NoMessage \/ ~Exchanging => UnreadOn(c) = {}
                    /\ \A i, j \in UnreadOn(c) : i = j
<1>1. ClientInv /\ Typing /\ OneExchange /\ SocketsInTurn /\ at' # "failed" /\ server = "up"
      /\ TypeOK /\ Conn \subseteq Nat
  BY RunnerAssumption DEF ProtocolInv, ClientInv, SafetyInv, BaseInv, Calm, LinesFit
<1>2. ServerMoves \/ LinesShake \/ Dials \/ Operates
  BY <1>1, CalmSteps
<1>3. ASSUME NEW c \in Conn, Positions' = Positions, read \subseteq read'
      PROVE  UnreadOn(c)' \subseteq UnreadOn(c)
  BY <1>3, AttemptsStay DEF UnreadOn
<1>4. SUFFICES ASSUME NEW c \in Conn, c = socket', peer'[c] # "closed"
               PROVE  On(c)'
  BY DEF OneAttempt
<1>5. ASSUME c = socket, peer[c] # "closed"
      PROVE  On(c) /\ (~Exchanging => wire[c] = NoMessage)
  BY <1>1, <1>5 DEF OneAttempt, OneExchange
<1>6. CASE ServerMoves
  <2>1. UNCHANGED <<at, socket, peer, read>> /\ (Exchanging' <=> Exchanging)
    BY <1>6 DEF ServerMoves, Ours, Exchanging
  <2>2. On(c) /\ (~Exchanging => wire[c] = NoMessage)
    BY <1>4, <1>5, <2>1
  <2>3. PICK d \in Conn : HandlerMoves(d)
    BY <1>6 DEF ServerMoves
  <2>4. wire'[c] \in {wire[c], NoMessage}
    BY <1>1, <2>3, OthersStoreNothing
  <2>5. CASE ~Delivers(d)
    <3>1. UnreadOn(c)' \subseteq UnreadOn(c)
      BY <1>1, <1>3, <2>1, <2>3, <2>5, OthersStoreNothing
    <3> QED
      BY <2>1, <2>2, <2>4, <3>1
  <2>6. CASE Delivers(d)
    <3> DEFINE n == Len(attempts) + 1
    <3>1. /\ n \notin Positions /\ Positions' = Positions \cup {n} /\ attempts'[n].conn = d
          /\ wire[d] # NoMessage /\ wire' = [wire EXCEPT ![d] = NoMessage]
      BY <2>6 DEF Delivers, NewAttempt
    <3>2. UnreadOn(c)' \subseteq UnreadOn(c) \cup (IF d = c THEN {n} ELSE {})
      BY <2>1, <3>1, AttemptsStay DEF UnreadOn
    <3>3. CASE d = c
      <4>1. UnreadOn(c) = {} /\ Exchanging /\ wire'[c] = NoMessage
        BY <1>1, <2>2, <3>1, <3>3 DEF Typing, RunTypeOK
      <4> HIDE DEF n
      <4> QED
        BY <2>1, <3>2, <3>3, <4>1
    <3>4. CASE d # c
      BY <2>1, <2>2, <2>4, <3>2, <3>4
    <3> QED
      BY <3>3, <3>4
  <2> QED
    BY <2>5, <2>6
<1>7. CASE LinesShake
  <2>1. UNCHANGED <<at, socket, read, attempts>> /\ (Exchanging' <=> Exchanging)
        /\ wire'[c] \in {wire[c], NoMessage} /\ peer[c] # "closed"
    BY <1>4, <1>7 DEF LinesShake, Ours, Exchanging
  <2>2. UnreadOn(c)' \subseteq UnreadOn(c)
    BY <1>3, <2>1 DEF Positions
  <2> QED
    BY <1>4, <1>5, <2>1, <2>2
<1>8. CASE Dials
  <2>1. c = socket + 1 /\ UNCHANGED <<attempts, read>>
    BY <1>4, <1>8 DEF Dials, Ours
  <2>2. \A i \in Positions : attempts[i].conn <= socket /\ attempts[i].conn \in Nat
    BY <1>1, AttemptRows DEF AttemptsFit
  <2>3. socket \in Nat
    BY <1>1 DEF Typing, RunTypeOK
  <2>4. \A i \in Positions : attempts[i].conn # c
    BY <2>1, <2>2, <2>3
  <2>5. UnreadOn(c)' = {}
    BY <2>1, <2>4 DEF UnreadOn, Positions
  <2> QED
    BY <2>5
<1>9. CASE Operates
  <2>1. c = socket /\ Positions' = Positions
    BY <1>4, <1>9 DEF Operates, Positions
  <2>2. ~EndDeliveries /\ ~ExchangeFails /\ ~ForceDisconnect
    <3>1. ~Connected => ~EndDeliveries /\ ~ExchangeFails /\ ~ForceDisconnect
      BY <1>1, <1>4, <1>9, <2>1, RunnerKeeps
    <3>2. Connected => ~EndDeliveries /\ ~ExchangeFails /\ ~ForceDisconnect
      BY DEF Connected, EndDeliveries, ExchangeFails, ForceDisconnect
    <3> QED
      BY <3>1, <3>2
  <2>3. peer[c] # "closed"
    <3>1. Connected => peer[c] = "none"
      BY <1>1, <2>1 DEF Connected, OneExchange
    <3>2. ~Connected => peer' = peer
      BY <1>1, <1>9, <2>2, RunnerKeeps
    <3> QED
      BY <1>4, <3>1, <3>2
  <2>4. On(c) /\ (~Exchanging => wire[c] = NoMessage)
    BY <1>5, <2>1, <2>3
  <2>5. CASE ReadReply
    <3>1. PICK rep \in Unread(socket) : /\ read' = read \cup {rep.attempt}
                                        /\ \A i \in UnreadOn(socket) : i = rep.attempt
      BY <2>5, ReadingTakesIt
    <3>2. UnreadOn(c)' \subseteq UnreadOn(c)
      BY <1>3, <2>1, <3>1
    <3>3. rep.attempt \notin UnreadOn(c)'
      BY <3>1 DEF UnreadOn
    <3>4. UnreadOn(c)' = {}
      BY <2>1, <3>1, <3>2, <3>3
    <3> QED
      BY <3>4
  <2>6. CASE ~ReadReply
    <3>1. UnreadOn(c)' \subseteq UnreadOn(c)
      <4>1. read' = read
        BY <1>1, <1>9, <2>6, RunnerKeeps
      <4> QED
        BY <1>3, <2>1, <4>1
    <3>2. CASE SendAndAwait \/ SendUnread
      <4>1. ~Exchanging
        BY <3>2 DEF SendAndAwait, SendUnread, Exchanging
      <4> QED
        BY <2>4, <3>1, <4>1
    <3>3. CASE ~SendAndAwait /\ ~SendUnread
      <4>1. wire' = wire
        BY <1>1, <1>9, <3>3, RunnerKeeps
      <4>2. ~Exchanging' => ~Exchanging
        BY <1>1, <1>9, <2>2, <2>6, RunnerStops DEF Exchanging
      <4> QED
        BY <2>4, <3>1, <4>1, <4>2
    <3> QED
      BY <3>2, <3>3
  <2> QED
    BY <2>5, <2>6
<1> QED
  BY <1>2, <1>6, <1>7, <1>8, <1>9

-----------------------------------------------------------------------------
(* The refusals *)

\* A payload is refused exactly for an invalid event.
LEMMA PayloadShapes ==
  ASSUME Typing, NEW p \in 1 .. position
  PROVE  /\ PayloadOf(plan.order[p]).shape = "valid" <=> ValidAt(p)
         /\ \A a : Fits(a, p) => (a.outcome = "rejected" <=> ~ValidAt(p))
         /\ ValidAt(p) => ClaimedEvent(PayloadOf(plan.order[p])) = plan.order[p]
         /\ ClaimedEvent(PayloadOf(plan.order[p])) \in {plan.order[p], NoEvent}
         /\ PayloadOf(plan.order[p]).event \in {plan.order[p], NoEvent}
         /\ PayloadOf(plan.order[p]).event = ClaimedEvent(PayloadOf(plan.order[p]))
BY DEF PayloadOf, ValidAt, Fits, ClaimedEvent

LEMMA UndisturbedBefore ==
  ASSUME ProtocolInv, RefusalsFit, [RunNext]_allVars, Calm'
  PROVE  /\ retryCount' >= forcedReconnects'
         /\ Undisturbed' => Undisturbed /\ ~(at = "awaiting" /\ ExchangeFails)
<1>1. ClientInv /\ Typing /\ at' # "failed"
  BY DEF ProtocolInv, Calm
<1>2. retryCount \in Nat /\ forcedReconnects \in Nat
  BY <1>1 DEF Typing, RunTypeOK
<1>3. CASE RunnerStep /\ ~Dial
  <2>1. Operates
    BY <1>1, <1>3, RunnerKeepsToItsSocket DEF Operates
  <2>2. ExchangeFails => retryCount' = retryCount + 1 /\ forcedReconnects' = forcedReconnects
    BY <1>1, <2>1, RunnerKeeps
  <2>3. ForceDisconnect => retryCount' = retryCount + 1 /\ forcedReconnects' = forcedReconnects + 1
    BY <1>1, <2>1, RunnerKeeps
  <2>4. ExchangeFails \/ ForceDisconnect \/ UNCHANGED <<retryCount, forcedReconnects>>
    BY <1>1, <2>1, RunnerKeeps
  <2> QED
    BY <1>2, <2>2, <2>3, <2>4 DEF RefusalsFit, Undisturbed
<1>4. CASE ~(RunnerStep /\ ~Dial)
  <2>1. UNCHANGED <<retryCount, forcedReconnects>>
    <3>1. Dial => UNCHANGED <<retryCount, forcedReconnects>>
      BY <1>1, DialTakesTheNext DEF ProtocolInv
    <3>2. ServerStep \/ Environment => UNCHANGED <<retryCount, forcedReconnects>>
      BY <1>1, OutsideStep
    <3> QED
      BY <1>4, <3>1, <3>2 DEF RunNext, allVars, runnerVars, counted
  <2>2. ~ExchangeFails
    BY <1>2, <2>1 DEF ExchangeFails
  <2> QED
    BY <1>2, <2>1, <2>2 DEF RefusalsFit, Undisturbed
<1> QED
  BY <1>3, <1>4

LEMMA RefusalsFitNext ==
  ASSUME ProtocolInv, AttemptsFit, LinesFit, OneAttempt, RefusalsFit, [RunNext]_allVars, Calm'
  PROVE  RefusalsFit'
<1>1. ClientInv /\ Typing /\ LegsFit /\ at' # "failed" /\ server = "up" /\ TypeOK
  BY DEF ProtocolInv, ClientInv, SafetyInv, BaseInv, Calm, LinesFit
<1>2. ServerMoves \/ LinesShake \/ Dials \/ Operates
  BY <1>1, CalmSteps
<1>3. read \subseteq Positions /\ Positions \subseteq Positions'
  BY <1>1, AttemptsStay DEF Typing, RunTypeOK
<1>4. /\ ~ReadReply => refusals' = refusals /\ read' = read
      /\ read \subseteq read'
  <2>1. CASE Operates
    <3>1. ~ReadReply => UNCHANGED <<refusals, read>>
      BY <1>1, <2>1, RunnerKeeps
    <3>2. ReadReply => read \subseteq read'
      BY DEF ReadReply
    <3> QED
      BY <3>1, <3>2
  <2> QED
    BY <1>2, <2>1 DEF ServerMoves, LinesShake, Dials, Ours
<1>5. refusals'["rejected"] = Cardinality(Rejected(read)')
  <2>1. \A i \in Positions : attempts'[i].outcome = attempts[i].outcome
    BY AttemptsStay
  <2>2. CASE ~ReadReply
    <3>1. Rejected(read)' = Rejected(read)
      BY <1>3, <1>4, <2>1, <2>2 DEF Rejected
    <3> QED
      BY <1>4, <2>2, <3>1 DEF RefusalsFit
  <2>3. CASE ReadReply
    <3>1. PICK rep \in Unread(socket) : /\ read' = read \cup {rep.attempt} /\ Observe(rep)
                                        /\ rep.attempt \in UnreadOn(socket)
      BY <2>3, ReadingTakesIt
    <3>2. rep.attempt \in Positions /\ rep.attempt \notin read
      BY <3>1 DEF UnreadOn
    <3>3. attempts[rep.attempt].outcome = rep.status
      BY UnreadReplies
    <3>4. Rejected(read)' = IF rep.status = "rejected" THEN Rejected(read) \cup {rep.attempt}
                            ELSE Rejected(read)
      BY <1>3, <2>1, <3>1, <3>2, <3>3 DEF Rejected
    <3>5. refusals \in [{"rejected", "conflict"} -> Nat]
      BY <1>1 DEF Typing, RunTypeOK
    <3>6. refusals'["rejected"] = IF rep.status = "rejected" THEN refusals["rejected"] + 1
                                  ELSE refusals["rejected"]
      BY <3>1, <3>5 DEF Observe
    <3>7. IsFiniteSet(Rejected(read))
      <4>1. IsFiniteSet(Positions)
        BY <1>1, FS_Interval DEF Positions, TypeOK
      <4>2. Rejected(read) \subseteq Positions
        BY <1>3 DEF Rejected
      <4> QED
        BY <4>1, <4>2, FS_Subset
    <3>8. rep.attempt \notin Rejected(read)
      BY <3>2 DEF Rejected
    <3>9. Cardinality(Rejected(read) \cup {rep.attempt}) = Cardinality(Rejected(read)) + 1
      BY <3>7, <3>8, FS_AddElement
    <3> QED
      BY <3>4, <3>6, <3>9 DEF RefusalsFit
  <2> QED
    BY <2>2, <2>3
<1>6. ASSUME Undisturbed', NEW c \in Conn, wire'[c] # NoMessage, wire'[c].shape # "valid"
      PROVE  c = socket' /\ at' = "awaiting"
  <2>1. Undisturbed /\ ~(at = "awaiting" /\ ExchangeFails)
    BY <1>6, UndisturbedBefore
  <2>2. wire'[c] = wire[c] => c = socket /\ at = "awaiting"
    BY <1>6, <2>1 DEF RefusalsFit
  <2>3. CASE ServerMoves \/ LinesShake
    <3>1. wire'[c] \in {wire[c], NoMessage} /\ at' = at /\ socket' = socket
      BY <1>1, <2>3, OthersStoreNothing DEF ServerMoves, LinesShake
    <3> QED
      BY <1>6, <2>2, <3>1
  <2>4. CASE Dials
    BY <2>2, <2>4 DEF Dials
  <2>5. CASE Operates
    <3>1. socket' = socket /\ (c # socket => wire'[c] = wire[c])
      BY <2>5 DEF Operates
    <3>2. CASE SendAndAwait
      BY <2>2, <3>1, <3>2 DEF SendAndAwait, Proceed
    <3>3. CASE SendUnread
      <4>1. /\ at = "sending" /\ leg = "planned" /\ Current = plan.disconnect /\ Transmit
        BY <3>3 DEF SendUnread
      <4>2. wire'[c] # wire[c] => wire'[c] = Payload
        BY <1>1, <3>1, <4>1 DEF Transmit, Typing, RunTypeOK
      <4>3. Payload.shape = "valid"
        BY <1>1, <4>1, OrderFacts DEF Payload
      <4> QED
        BY <1>6, <2>2, <4>1, <4>2, <4>3
    <3>4. CASE ~SendAndAwait /\ ~SendUnread
      <4>1. wire' = wire
        BY <1>1, <2>5, <3>4, RunnerKeeps
      <4>2. c = socket /\ at = "awaiting"
        BY <2>2, <4>1
      <4>3. ReadReply
        BY <1>1, <2>1, <2>5, <4>2, RunnerStops
      <4>4. wire[socket] = NoMessage
        BY <4>3, ReadingTakesIt
      <4> QED
        BY <1>6, <4>1, <4>2, <4>4
    <3> QED
      BY <3>2, <3>3, <3>4
  <2> QED
    BY <1>2, <2>3, <2>4, <2>5
<1>7. ASSUME Undisturbed', NEW i \in Positions', i \notin read', attempts'[i].outcome = "rejected"
      PROVE  attempts'[i].conn = socket' /\ at' = "awaiting"
  <2>1. Undisturbed /\ ~(at = "awaiting" /\ ExchangeFails)
    BY <1>7, UndisturbedBefore
  <2>2. CASE i \in Positions
    <3>1. i \in Rejected(Positions \ read) /\ attempts'[i].conn = attempts[i].conn
      BY <1>4, <1>7, <2>2, AttemptsStay DEF Rejected
    <3>2. attempts[i].conn = socket /\ at = "awaiting"
      BY <2>1, <3>1 DEF RefusalsFit
    <3>3. CASE Operates
      <4>1. ReadReply
        BY <1>1, <2>1, <3>2, <3>3, RunnerStops
      <4>2. i \in read'
        BY <3>1, <3>2, <4>1, ReadingTakesIt DEF Rejected, UnreadOn
      <4> QED
        BY <1>7, <4>2
    <3> QED
      BY <1>2, <3>1, <3>2, <3>3 DEF ServerMoves, LinesShake, Dials
  <2>3. CASE i \notin Positions
    <3>1. PICK c \in Conn : ServerStep /\ i = Len(attempts) + 1 /\ Delivers(c)
      BY <1>1, <1>7, <2>3, NewAttempts
    <3>2. PICK p \in 1 .. position : wire[c] = PayloadOf(plan.order[p]) /\ Fits(attempts'[i], p)
      BY <3>1 DEF Delivers, NewAttempt
    <3>3. wire[c] # NoMessage /\ attempts'[i].conn = c
      BY <3>1 DEF Delivers, NewAttempt
    <3>4. wire[c].shape # "valid"
      BY <1>1, <1>7, <3>2, PayloadShapes
    <3>5. c = socket /\ at = "awaiting"
      BY <2>1, <3>3, <3>4 DEF RefusalsFit
    <3>6. at' = at /\ socket' = socket
      BY <1>1, <3>1, OutsideStep
    <3> QED
      BY <3>3, <3>5, <3>6
  <2> QED
    BY <2>2, <2>3
<1>8. \A i \in (Rejected(Positions \ read))' : i \in Positions' /\ i \notin read'
                                              /\ attempts'[i].outcome = "rejected"
  BY DEF Rejected
<1> QED
  BY <1>5, <1>6, <1>7, <1>8, UndisturbedBefore DEF RefusalsFit

-----------------------------------------------------------------------------
(* The held events *)

\* A marker of the hold is a time on the runner's socket.
LEMMA DelayIsMarked ==
  ASSUME Typing, RecordDelay
  PROVE  HeldOn(Current, socket)' # {} /\ Current' = Current /\ socket' = socket
<1>1. timeline' = Append(timeline, Entry("delay_injected", TheRun, socket, Current))
  BY RunnerAdds DEF RunnerStep
<1>2. UNCHANGED <<position, config, socket>>
  BY DEF RecordDelay, Mark, RecordMarker
<1>3. Len(timeline) + 1 \in Times("delay_injected", TheRun)'
      /\ timeline'[Len(timeline) + 1] = Entry("delay_injected", TheRun, socket, Current)
  BY <1>1, TimesAfter DEF Entry
<1>4. Len(timeline) + 1 \in {t \in TimesOf("delay_injected", TheRun, Current)' :
                               timeline'[t].conn = socket}
  BY <1>2, <1>3 DEF TimesOf, Entry, Current, plan
<1> QED
  BY <1>2, <1>4 DEF HeldOn, Current, plan

LEMMA DelaysFitNext ==
  ASSUME ProtocolInv, AttemptsFit, LinesFit, RefusalsFit, DelaysFit, [RunNext]_allVars, Calm'
  PROVE  DelaysFit'
<1> DEFINE Held(e, c) ==
             {t \in {u \in {v \in DOMAIN timeline' : timeline'[v].kind = "delay_injected"
                                                     /\ timeline'[v].run = TheRun} :
                        timeline'[u].of = e} : timeline'[t].conn = c}
<1>1. ClientInv /\ Typing /\ LegsFit /\ at' # "failed" /\ server = "up" /\ TypeOK
  BY DEF ProtocolInv, ClientInv, SafetyInv, BaseInv, Calm, LinesFit
<1>2. ServerMoves \/ LinesShake \/ Dials \/ Operates
  BY <1>1, CalmSteps
<1>3. /\ plan.disconnect \notin plan.delayed /\ plan.delayed \subseteq Event
      /\ plan.invalid \cap plan.delayed = {} /\ plan' = plan
  <2>1. plan \in Plan /\ plan' = plan
    BY <1>1, PlanFacts, PlanStays DEF Typing
  <2> QED
    BY <2>1, PlanAssumption
<1>4. \A e, c : HeldOn(e, c) \subseteq Held(e, c)
  <2>1. \A e, c : HeldOn(e, c)' = Held(e, c)
    BY DEF HeldOn, TimesOf, Times
  <2> HIDE DEF Held
  <2> QED
    BY <2>1, TimesGrow
<1>5. SUFFICES ASSUME Undisturbed' PROVE DelaysFit'
  BY DEF DelaysFit
<1>6. Undisturbed /\ ~(at = "awaiting" /\ ExchangeFails)
  BY <1>5, UndisturbedBefore
<1>7. position' = position => Current' = Current
  BY <1>3 DEF Current
<1>8. ASSUME position' >= 1, Current' \in plan.delayed,
             at' \in {"dialing", "handshaking", "reconnected", "sending", "awaiting"}
      PROVE  at' \in {"sending", "awaiting"} /\ HeldOn(Current, socket)' # {}
  <2>1. ASSUME position' = position, at \in {"dialing", "handshaking", "reconnected", "sending", "awaiting"}
        PROVE  at \in {"sending", "awaiting"} /\ HeldOn(Current, socket) # {}
    BY <1>6, <1>7, <1>8, <2>1 DEF DelaysFit
  <2>2. position' = position /\ socket' = socket
          => (HeldOn(Current, socket) # {} => HeldOn(Current, socket)' # {})
    <3> SUFFICES ASSUME position' = position, socket' = socket, NEW t \in HeldOn(Current, socket)
                 PROVE  HeldOn(Current, socket)' # {}
      OBVIOUS
    <3>1. t \in HeldOn(Current, socket)'
      <4>1. HeldOn(Current, socket)' = {u \in TimesOf("delay_injected", TheRun, Current)' :
                                          timeline'[u].conn = socket}
        BY DEF HeldOn
      <4>2. TimesOf("delay_injected", TheRun, Current) \subseteq TimesOf("delay_injected", TheRun, Current)'
        <5>1. TimesOf("delay_injected", TheRun, Current)'
                = {u \in Times("delay_injected", TheRun)' : timeline'[u].of = Current}
          BY <1>7 DEF TimesOf
        <5> QED
          BY <5>1, TimesGrow DEF TimesOf
      <4>3. t \in TimesOf("delay_injected", TheRun, Current) /\ timeline'[t].conn = socket
        BY TimesGrow DEF HeldOn, TimesOf
      <4> QED
        BY <4>1, <4>2, <4>3
    <3> QED
      BY <3>1
  <2>3. CASE ServerMoves \/ LinesShake
    BY <1>8, <2>1, <2>2, <2>3 DEF ServerMoves, LinesShake, Ours
  <2>4. CASE Dials
    BY <1>8, <2>1, <2>4 DEF Dials, Ours
  <2>5. CASE Operates
    <3>1. socket' = socket /\ (NextSequence \/ position' = position)
      BY <1>1, <2>5, RunnerKeeps DEF Operates
    <3>2. CASE RecordDelay
      BY <1>1, <3>2, DelayIsMarked DEF RecordDelay, Mark, Proceed
    <3>3. ~NextSequence
      <4>1. NextSequence => (Current' \in plan.delayed => at' = "delaying")
        BY <1>3 DEF NextSequence, Current, Proceed
      <4> QED
        BY <1>8, <4>1
    <3>4. ~ForceDisconnect
      BY <1>1, <1>3, <1>7, <1>8, <3>1, <3>3 DEF ForceDisconnect, Typing, Located
    <3>5. ~RecordRecovery
      BY <1>1, <1>3, <1>7, <1>8, <3>1, <3>3 DEF RecordRecovery, LinesFit, LegsFit
    <3>6. ~OverlaySeen
      <4>1. position = 0 => position' # position
        BY <1>8
      <4> QED
        BY <3>1, <3>3, <4>1 DEF OverlaySeen, LinesFit
    <3>7. CASE Connected \/ RecordReconnected \/ SendAndAwait \/ ReadReply
      <4>1. at \in {"handshaking", "reconnected", "sending", "awaiting"}
        BY <3>7 DEF Connected, RecordReconnected, SendAndAwait, ReadReply
      <4>2. at \in {"sending", "awaiting"} /\ HeldOn(Current, socket) # {}
        BY <2>1, <3>1, <3>3, <4>1
      <4>3. at' \in {"sending", "awaiting"}
        BY <1>1, <1>6, <1>8, <2>5, <4>2, RunnerStops
      <4> QED
        BY <2>2, <3>1, <3>3, <4>2, <4>3
    <3>8. Connected \/ RecordReconnected \/ SendAndAwait \/ ReadReply \/ RecordDelay
      BY <1>1, <1>6, <1>8, <2>5, <3>3, <3>4, <3>5, <3>6, RunnerStops
    <3> QED
      BY <3>2, <3>7, <3>8
  <2> QED
    BY <1>2, <2>3, <2>4, <2>5
<1>9. ASSUME NEW c \in Conn, wire'[c] # NoMessage, wire'[c].event \in plan.delayed
      PROVE  Held(wire'[c].event, c) # {}
  <2>1. CASE wire'[c] = wire[c]
    <3>1. HeldOn(wire[c].event, c) # {}
      BY <1>6, <1>9, <2>1 DEF DelaysFit
    <3> HIDE DEF Held
    <3> QED
      BY <1>4, <2>1, <3>1
  <2>2. CASE wire'[c] # wire[c]
    <3>1. Operates /\ c = socket
      BY <1>1, <1>2, <1>9, <2>2, OthersStoreNothing DEF ServerMoves, LinesShake, Dials, Operates
    <3>2. SendAndAwait \/ SendUnread
      BY <1>1, <2>2, <3>1, RunnerKeeps
    <3>3. wire'[c] = Payload /\ at = "sending"
      BY <1>1, <2>2, <3>1, <3>2 DEF SendAndAwait, SendUnread, Transmit, Typing, RunTypeOK
    <3>4. position >= 1 /\ Payload.event = Current /\ Current \in plan.delayed
      BY <1>1, <1>3, <1>9, <3>3, NullAssumption DEF Payload, Typing, Located
    <3>5. HeldOn(Current, socket) # {}
      BY <1>6, <3>3, <3>4 DEF DelaysFit
    <3> HIDE DEF Held
    <3> QED
      BY <1>4, <3>1, <3>3, <3>4, <3>5
  <2> QED
    BY <2>1, <2>2
<1>10. ASSUME NEW i \in Positions', attempts'[i].event \in plan.delayed
       PROVE  \E t \in Held(attempts'[i].event, attempts'[i].conn),
                 u \in TimesOf("received", TheRun, i)' : t < u
  <2>1. CASE i \in Positions
    <3>1. attempts'[i].event = attempts[i].event /\ attempts'[i].conn = attempts[i].conn
      BY <2>1, AttemptsStay
    <3>2. PICK t \in HeldOn(attempts[i].event, attempts[i].conn),
               u \in TimesOf("received", TheRun, i) : t < u
      BY <1>6, <1>10, <2>1, <3>1 DEF DelaysFit
    <3>3. u \in TimesOf("received", TheRun, i)'
      BY <3>2, TimesGrow
    <3> HIDE DEF Held
    <3> QED
      BY <1>4, <3>1, <3>2, <3>3
  <2>2. CASE i \notin Positions
    <3>1. PICK c \in Conn : ServerStep /\ i = Len(attempts) + 1 /\ Delivers(c)
      BY <1>1, <1>10, <2>2, NewAttempts
    <3>2. PICK p \in 1 .. position : wire[c] = PayloadOf(plan.order[p]) /\ Fits(attempts'[i], p)
      BY <3>1 DEF Delivers, NewAttempt
    <3>3. wire[c] # NoMessage /\ attempts'[i].conn = c
      BY <3>1 DEF Delivers, NewAttempt
    <3>4. attempts'[i].event = wire[c].event
      BY <1>1, <3>2, PayloadShapes DEF Fits
    <3>5. PICK t \in HeldOn(wire[c].event, c) : TRUE
      BY <1>6, <1>10, <3>3, <3>4 DEF DelaysFit
    <3>6. t \in DOMAIN timeline
      BY <3>5 DEF HeldOn, TimesOf, Times
    <3>7. timeline' = Append(timeline, Entry("received", TheRun, c, i))
      BY <1>10, <3>1 DEF Delivers, Timed, plan
    <3>8. /\ Len(timeline) + 1 \in Times("received", TheRun)'
          /\ timeline'[Len(timeline) + 1] = Entry("received", TheRun, c, i)
          /\ Len(timeline) \in Nat /\ DOMAIN timeline = 1 .. Len(timeline)
      BY <1>1, <3>7, TimesAfter DEF Entry
    <3>9. Len(timeline) + 1 \in TimesOf("received", TheRun, i)' /\ t < Len(timeline) + 1
      BY <3>6, <3>8 DEF TimesOf, Entry
    <3> HIDE DEF Held
    <3> QED
      BY <1>4, <3>3, <3>4, <3>5, <3>9
  <2> QED
    BY <2>1, <2>2
<1> QED
  BY <1>3, <1>8, <1>9, <1>10 DEF DelaysFit, HeldOn, TimesOf, Times

-----------------------------------------------------------------------------
(* The times of the target's attempts and of the sockets *)

\* A handler adds an entry of the server's; the end of a socket is its own.
LEMMA HandlerStamps ==
  ASSUME NEW c \in Conn, HandlerMoves(c)
  PROVE  \/ timeline' = timeline
         \/ \E entry : /\ timeline' = Append(timeline, entry)
                       /\ entry.kind \notin SubmittedKinds
                       /\ entry.kind = "disconnected" => Ends(c) /\ entry.conn = c
<1>1. CASE Delivers(c)
  BY <1>1 DEF Delivers, Entry, SubmittedKinds
<1>2. CASE Marks(c)
  BY <1>2 DEF Marks, MarksAttempt, Entry, SubmittedKinds
<1>3. CASE Begins(c)
  BY <1>3 DEF Begins, AddsRow, Entry, SubmittedKinds
<1>4. CASE Ends(c)
  <2>1. AddsRow(c, "disconnected")
    BY <1>4 DEF Ends
  <2> QED
    BY <1>4, <2>1 DEF AddsRow, Entry, SubmittedKinds
<1> QED
  BY <1>1, <1>2, <1>3, <1>4 DEF HandlerMoves, Refuses, Passes, AddsNothing

\* The times of one kind are left alone by an entry of another.
LEMMA TimesKeep ==
  ASSUME Typing, NEW kind,
         timeline' = timeline
           \/ \E entry : timeline' = Append(timeline, entry) /\ entry.kind # kind
  PROVE  /\ Times(kind, TheRun)' = Times(kind, TheRun)
         /\ \A key : /\ TimesAt(kind, TheRun, key)' = TimesAt(kind, TheRun, key)
                     /\ TimesOf(kind, TheRun, key)' = TimesOf(kind, TheRun, key)
         /\ \A t \in Times(kind, TheRun) : timeline'[t] = timeline[t]
<1>1. Times(kind, TheRun)' = Times(kind, TheRun)
      /\ \A t \in Times(kind, TheRun) : timeline'[t] = timeline[t]
  <2>1. CASE timeline' = timeline
    BY <2>1 DEF Times
  <2>2. CASE \E entry : timeline' = Append(timeline, entry) /\ entry.kind # kind
    <3>1. PICK entry : timeline' = Append(timeline, entry) /\ entry.kind # kind
      BY <2>2
    <3>2. Times(kind, TheRun)' = Times(kind, TheRun) \cup {}
      BY <3>1, TimesAfter
    <3>3. \A t \in Times(kind, TheRun) : t \in DOMAIN timeline
      BY DEF Times
    <3> QED
      BY <3>1, <3>2, <3>3, TimesAfter
  <2> QED
    BY <2>1, <2>2
<1>2. ASSUME NEW key
      PROVE  /\ TimesAt(kind, TheRun, key)' = TimesAt(kind, TheRun, key)
             /\ TimesOf(kind, TheRun, key)' = TimesOf(kind, TheRun, key)
  BY <1>1 DEF TimesAt, TimesOf
<1> QED
  BY <1>1, <1>2

LEMMA TimesFitNext ==
  ASSUME ProtocolInv, AttemptsFit, LinesFit, TimesFit, [RunNext]_allVars, Calm'
  PROVE  TimesFit'
<1> DEFINE Opened(c) ==
             {u \in {v \in DOMAIN timeline' : timeline'[v].kind = "connected"
                                                /\ timeline'[v].run = TheRun} :
                timeline'[u].conn = c}
<1>1. ClientInv /\ Typing /\ at' # "failed" /\ server = "up" /\ TypeOK /\ plan' = plan
  BY PlanStays DEF ProtocolInv, ClientInv, SafetyInv, BaseInv, Calm, LinesFit
<1>2. ServerMoves \/ LinesShake \/ Dials \/ Operates
  BY <1>1, CalmSteps
<1>3. /\ pc \in [Conn -> States] /\ Len(timeline) \in Nat /\ DOMAIN timeline = 1 .. Len(timeline)
      /\ \A i \in Positions : attempts[i] \in Attempts
  BY <1>1, AttemptRows, TimesGrow DEF TypeOK
<1>4. SUFFICES ASSUME plan.disconnect # None PROVE TimesFit'
  BY <1>1 DEF TimesFit
<1>5. \A c : TimesAt("connected", TheRun, c) # {} => Opened(c) # {}
  <2>1. \A c : TimesAt("connected", TheRun, c)' = Opened(c)
    BY DEF TimesAt, Times
  <2> HIDE DEF Opened
  <2> QED
    BY <2>1, TimesGrow
<1>6. ASSUME NEW i \in Positions', attempts'[i].event = plan.disconnect
      PROVE  \E t \in TimesOf("received", TheRun, i)' :
               attempts'[i].replied => \E u \in TimesOf("answered", TheRun, i)' : t < u
  <2>1. CASE i \in Positions
    <3>1. PICK t \in TimesOf("received", TheRun, i) :
            attempts[i].replied => \E u \in TimesOf("answered", TheRun, i) : t < u
      BY <1>4, <1>6, <2>1, AttemptsStay DEF TimesFit
    <3>2. t \in TimesOf("received", TheRun, i)' /\ t \in DOMAIN timeline
      BY <3>1, TimesGrow DEF TimesOf
    <3>3. CASE attempts[i].replied
      BY <3>1, <3>2, <3>3, TimesGrow
    <3>4. ASSUME ~attempts[i].replied, attempts'[i].replied
          PROVE  \E u \in TimesOf("answered", TheRun, i)' : t < u
      <4>1. attempts' # attempts
        BY <3>4
      <4>2. PICK c \in Conn : HandlerMoves(c)
        BY <1>2, <4>1 DEF ServerMoves, LinesShake, Dials, Operates
      <4>3. ~Delivers(c)
        BY <2>1, <3>4 DEF Delivers, NewAttempt
      <4>4. PICK k \in Positions : MarksAttempt(k)
        BY <4>1, <4>2, <4>3 DEF HandlerMoves, Refuses, AddsNothing, Marks, Begins, Ends, AddsRow, Passes
      <4>5. i = k
        <5>1. i # k => attempts'[i] = attempts[i]
          BY <2>1, <4>4 DEF MarksAttempt
        <5> QED
          BY <3>4, <5>1
      <4>6. attempts[i].event = plan.disconnect
        BY <1>6, <2>1, AttemptsStay
      <4>7. timeline' = Append(timeline, Entry("answered", TheRun, attempts[i].conn, i))
        BY <3>4, <4>4, <4>5, <4>6 DEF MarksAttempt
      <4>8. /\ Len(timeline) + 1 \in Times("answered", TheRun)'
            /\ timeline'[Len(timeline) + 1] = Entry("answered", TheRun, attempts[i].conn, i)
        BY <1>1, <4>7, TimesAfter DEF Entry
      <4>9. Len(timeline) + 1 \in TimesOf("answered", TheRun, i)'
        BY <4>8 DEF TimesOf, Entry
      <4> QED
        BY <1>3, <3>2, <4>9
    <3> QED
      BY <3>2, <3>3, <3>4
  <2>2. CASE i \notin Positions
    <3>1. PICK c \in Conn : i = Len(attempts) + 1 /\ Delivers(c)
      BY <1>1, <2>2, NewAttempts
    <3>2. attempts'[i].replied = FALSE
      BY <3>1 DEF Delivers, NewAttempt
    <3>3. timeline' = Append(timeline, Entry("received", TheRun, c, i))
      BY <1>4, <1>6, <3>1 DEF Delivers, Timed, plan
    <3>4. /\ Len(timeline) + 1 \in Times("received", TheRun)'
          /\ timeline'[Len(timeline) + 1] = Entry("received", TheRun, c, i)
      BY <1>1, <3>3, TimesAfter DEF Entry
    <3>5. Len(timeline) + 1 \in TimesOf("received", TheRun, i)'
      BY <3>4 DEF TimesOf, Entry
    <3> QED
      BY <3>2, <3>5
  <2> QED
    BY <2>1, <2>2
<1>7. ASSUME NEW i \in Positions'
      PROVE  Opened(attempts'[i].conn) # {}
  <2> HIDE DEF Opened
  <2>1. CASE i \in Positions
    <3>1. attempts'[i].conn = attempts[i].conn
      BY <2>1, AttemptsStay
    <3> QED
      BY <1>4, <1>5, <2>1, <3>1 DEF TimesFit
  <2>2. CASE i \notin Positions
    <3>1. PICK c \in Conn : i = Len(attempts) + 1 /\ Delivers(c)
      BY <1>1, <2>2, NewAttempts
    <3>2. attempts'[i].conn = c /\ pc[c] = "receiving"
      BY <3>1 DEF Delivers, NewAttempt
    <3> QED
      BY <1>4, <1>5, <3>2 DEF TimesFit
  <2> QED
    BY <2>1, <2>2
<1>8. ASSUME NEW c \in Conn, pc'[c] \notin {"idle", "accepting", "closed"}
      PROVE  Opened(c) # {}
  <2>1. CASE pc[c] \notin {"idle", "accepting", "closed"}
    <3> HIDE DEF Opened
    <3> QED
      BY <1>4, <1>5, <2>1 DEF TimesFit
  <2>2. CASE pc[c] \in {"idle", "accepting", "closed"}
    <3>1. PICK d \in Conn : HandlerMoves(d)
      BY <1>2, <1>8, <2>2 DEF ServerMoves, LinesShake, Dials, Operates
    <3>2. Begins(c)
      BY <1>3, <1>8, <2>2, <3>1 DEF HandlerMoves, Delivers, Refuses, Marks, Begins, Ends, Passes
    <3>3. timeline' = Append(timeline, Entry("connected", TheRun, c, 0))
      BY <1>4, <3>2 DEF Begins, AddsRow
    <3>4. /\ Len(timeline) + 1 \in Times("connected", TheRun)'
          /\ timeline'[Len(timeline) + 1] = Entry("connected", TheRun, c, 0)
      BY <1>1, <3>3, TimesAfter DEF Entry
    <3>5. Len(timeline) + 1 \in Opened(c)
      BY <3>4 DEF Times, Entry
    <3> QED
      BY <3>5
  <2> QED
    BY <2>1, <2>2
<1> QED
  BY <1>1, <1>6, <1>7, <1>8 DEF TimesFit, TimesAt, Times

LEMMA SocketsStayNext ==
  ASSUME ProtocolInv, AttemptsFit, LinesFit, SocketsStay, [RunNext]_allVars, Calm'
  PROVE  SocketsStay'
<1>1. ClientInv /\ Typing /\ OneExchange /\ SocketsInTurn /\ at' # "failed" /\ server = "up" /\ TypeOK
      /\ Binding
  BY DEF ProtocolInv, ClientInv, SafetyInv, BaseInv, Calm, LinesFit
<1>2. ServerMoves \/ LinesShake \/ Dials \/ Operates
  BY <1>1, CalmSteps
<1>3. /\ pc \in [Conn -> States] /\ peer \in [Conn -> {"none", "open", "broken", "closed"}]
      /\ runs \in [Run -> {"absent", "running", "completed"}]
  BY <1>1 DEF TypeOK, Typing, RunTypeOK
<1>4. SUFFICES ASSUME losses' = 0, ~Completed', NEW c \in Conn
               PROVE  /\ peer'[c] # "broken"
                      /\ peer'[c] # "closed" =>
                           pc'[c] # "closing" /\ TimesAt("disconnected", TheRun, c)' = {}
  BY DEF SocketsStay
<1>5. losses = 0 /\ ~Completed
  <2>1. losses = 0
    BY <1>4, CalmBefore
  <2>2. runs[TheRun] = "completed" => runs'[TheRun] = "completed"
    BY <1>1, RowsKept
  <2> QED
    BY <1>4, <2>1, <2>2 DEF Completed
<1>6. /\ peer[c] # "broken"
      /\ peer[c] # "closed" => pc[c] # "closing" /\ TimesAt("disconnected", TheRun, c) = {}
  BY <1>5 DEF SocketsStay
<1>7. CASE ServerMoves
  <2>1. PICK d \in Conn : HandlerMoves(d)
    BY <1>7 DEF ServerMoves
  <2>2. peer' = peer
    BY <1>7 DEF ServerMoves
  <2>3. ASSUME peer[c] # "closed"
        PROVE  pc'[c] # "closing" /\ TimesAt("disconnected", TheRun, c)' = {}
    <3>1. d = c => ~Refuses(c)
      <4>1. pc[c] = "receiving" => runs[TheRun] = "running"
        BY <1>1, <1>3, <1>5, RunnerAssumption DEF Binding, SocketsInTurn, Completed
      <4> QED
        BY <4>1 DEF Refuses
    <3>2. ~Ends(c)
      BY <1>3, <1>6, <2>3 DEF Ends, LinesFit
    <3>3. pc'[c] # "closing"
      BY <1>3, <1>6, <2>1, <2>3, <3>1
      DEF HandlerMoves, Delivers, Refuses, Marks, Begins, Ends, Passes
    <3>4. CASE timeline' = timeline
      BY <1>1, <1>6, <2>3, <3>3, <3>4, TimesKeep
    <3>5. ASSUME NEW entry, timeline' = Append(timeline, entry),
                 entry.kind = "disconnected" => entry.conn # c
          PROVE  TimesAt("disconnected", TheRun, c)' = {}
      <4>1. CASE entry.kind # "disconnected"
        BY <1>1, <1>6, <2>3, <3>5, <4>1, TimesKeep
      <4>2. CASE entry.kind = "disconnected"
        <5>1. \A t \in Times("disconnected", TheRun)' :
                timeline'[t] = entry \/ (t \in Times("disconnected", TheRun) /\ timeline'[t] = timeline[t])
          <6>1. \A t \in Times("disconnected", TheRun) : t \in DOMAIN timeline
            BY DEF Times
          <6> QED
            BY <1>1, <3>5, <6>1, TimesAfter
        <5> QED
          BY <1>6, <2>3, <3>5, <4>2, <5>1 DEF TimesAt
      <4> QED
        BY <4>1, <4>2
    <3>6. timeline' = timeline \/ \E entry : /\ timeline' = Append(timeline, entry)
                                             /\ entry.kind = "disconnected" => entry.conn # c
      <4>1. CASE d = c
        BY <2>1, <3>2, <4>1, HandlerStamps
      <4>2. CASE d # c
        BY <2>1, <4>2, HandlerStamps
      <4> QED
        BY <4>1, <4>2
    <3> QED
      BY <3>3, <3>4, <3>5, <3>6
  <2> QED
    BY <1>6, <2>2, <2>3
<1>8. CASE LinesShake
  <2>1. peer'[c] = peer[c] /\ UNCHANGED <<pc, timeline>>
    BY <1>4, <1>8 DEF LinesShake
  <2> QED
    BY <1>1, <1>6, <2>1, TimesKeep
<1>9. CASE Dials
  <2>1. peer' = peer /\ pc'[c] \in {pc[c], "accepting", "closed"} /\ timeline' = timeline
    BY <1>9 DEF Dials
  <2> QED
    BY <1>1, <1>6, <2>1, TimesKeep
<1>10. CASE Operates
  <2>1. pc' = pc /\ (c # socket => peer'[c] = peer[c])
    BY <1>10 DEF Operates
  <2>2. peer'[c] # "broken" /\ (peer'[c] # "closed" => peer[c] # "closed")
    <3>1. CASE c # socket
      BY <1>6, <2>1, <3>1
    <3>2. CASE c = socket /\ Connected
      <4>1. peer'[c] = "open"
        BY <1>1, <1>10, <3>2, RunnerKeeps
      <4>2. peer[c] = "none"
        BY <1>1, <3>2 DEF Connected, OneExchange
      <4> QED
        BY <4>1, <4>2
    <3>3. CASE c = socket /\ ~Connected
      BY <1>1, <1>6, <1>10, <3>3, RunnerKeeps
    <3> QED
      BY <3>1, <3>2, <3>3
  <2>3. timeline' = timeline
          \/ \E entry : timeline' = Append(timeline, entry) /\ entry.kind # "disconnected"
    BY <1>1, <1>10, RunnerAdds DEF Operates, Entry
  <2>4. TimesAt("disconnected", TheRun, c)' = TimesAt("disconnected", TheRun, c)
    BY <1>1, <2>3, TimesKeep
  <2> QED
    BY <1>6, <2>1, <2>2, <2>4
<1> QED
  BY <1>2, <1>7, <1>8, <1>9, <1>10

-----------------------------------------------------------------------------
(* The target of the forced reconnect *)

\* An attempt at the target was made of the target's payload, at its position.
LEMMA TargetPositions ==
  ASSUME Typing, AttemptsFit, plan.disconnect # None, NEW i \in Positions,
         attempts[i].event = plan.disconnect
  PROVE  \E p \in 1 .. position : plan.order[p] = plan.disconnect
<1>1. PICK p \in 1 .. position : Fits(attempts[i], p)
  BY DEF AttemptsFit
<1>2. attempts[i].event \in {plan.order[p], NoEvent}
  BY <1>1, PayloadShapes DEF Fits
<1>3. plan.disconnect # NoEvent
  <2>1. plan \in Plan
    BY PlanFacts DEF Typing
  <2> QED
    BY <2>1, PlanAssumption, NullAssumption
<1> QED
  BY <1>2, <1>3

LEMMA TargetOnceNext ==
  ASSUME ProtocolInv, AttemptsFit, LinesFit, TargetOnce, [RunNext]_allVars, Calm'
  PROVE  TargetOnce'
<1>1. ClientInv /\ Typing /\ OneExchange /\ LegsFit /\ at' # "failed" /\ server = "up" /\ TypeOK
      /\ plan' = plan
  BY PlanStays DEF ProtocolInv, ClientInv, SafetyInv, BaseInv, Calm, LinesFit
<1>2. ServerMoves \/ LinesShake \/ Dials \/ Operates
  BY <1>1, CalmSteps
<1>3. SUFFICES ASSUME plan.disconnect # None PROVE TargetOnce'
  BY <1>1 DEF TargetOnce
<1>4. /\ plan.disconnect \in Event /\ plan.disconnect # NoEvent
      /\ plan.disconnect \notin plan.invalid /\ plan.disconnect \notin plan.duplicate
      /\ wire \in [Conn -> Message \cup {NoMessage}]
  <2>1. plan \in Plan
    BY <1>1, PlanFacts DEF Typing
  <2> QED
    BY <1>1, <1>3, <2>1, PlanAssumption, NullAssumption, OrderFacts DEF Typing, RunTypeOK
<1>5. ASSUME Positions' = Positions, NEW c
      PROVE  TargetOn(c)' = TargetOn(c)
  BY <1>1, <1>5, AttemptsStay DEF TargetOn
<1>6. CASE ServerMoves
  <2>1. PICK d \in Conn : HandlerMoves(d)
    BY <1>6 DEF ServerMoves
  <2>2. UNCHANGED <<at, socket, position, peer>> /\ Current' = Current
    BY <1>1, <1>6 DEF ServerMoves, Ours, Current
  <2>3. \A c \in Conn : wire'[c] \in {wire[c], NoMessage}
    BY <1>1, <2>1, OthersStoreNothing
  <2>4. CASE ~Delivers(d)
    <3>1. \A c : TargetOn(c)' = TargetOn(c)
      BY <1>1, <1>5, <2>1, <2>4, OthersStoreNothing
    <3>2. ASSUME NEW c \in Conn, wire'[c] # NoMessage, wire'[c].event = plan.disconnect
          PROVE  TargetOn(c) = {}
      BY <1>3, <2>3, <3>2 DEF TargetOnce
    <3>3. TargetOn(socket)' = TargetOn(socket)
      BY <2>2, <3>1 DEF TargetOn
    <3> QED
      BY <1>1, <1>3, <2>2, <3>1, <3>2, <3>3 DEF TargetOnce
  <2>5. CASE Delivers(d)
    <3> DEFINE n == Len(attempts) + 1
    <3>1. /\ Positions' = Positions \cup {n} /\ n \notin Positions
          /\ attempts'[n].conn = d /\ wire[d] # NoMessage
          /\ wire' = [wire EXCEPT ![d] = NoMessage]
      BY <2>5 DEF Delivers, NewAttempt
    <3>2. PICK p \in 1 .. position : wire[d] = PayloadOf(plan.order[p]) /\ Fits(attempts'[n], p)
      BY <2>5 DEF Delivers, NewAttempt
    <3>3. attempts'[n].event = wire[d].event
      BY <1>1, <3>2, PayloadShapes DEF Fits
    <3> HIDE DEF n
    <3>4. ASSUME NEW c, c # d \/ wire[d].event # plan.disconnect
          PROVE  TargetOn(c)' = TargetOn(c)
      BY <1>1, <3>1, <3>3, <3>4, AttemptsStay DEF TargetOn
    <3>5. wire[d].event = plan.disconnect => TargetOn(d) = {} /\ TargetOn(d)' = {n}
      <4> SUFFICES ASSUME wire[d].event = plan.disconnect
                   PROVE  TargetOn(d) = {} /\ TargetOn(d)' = {n}
        OBVIOUS
      <4>1. TargetOn(d) = {}
        BY <1>3, <3>1 DEF TargetOnce
      <4> QED
        BY <1>1, <3>1, <3>3, <4>1, AttemptsStay DEF TargetOn
    <3>6. \A c \in Conn : \A i, j \in TargetOn(c)' : i = j
      BY <1>3, <3>4, <3>5 DEF TargetOnce
    <3>7. ASSUME NEW c \in Conn, wire'[c] # NoMessage, wire'[c].event = plan.disconnect
          PROVE  TargetOn(c)' = {}
      <4>1. c # d /\ wire'[c] = wire[c]
        BY <1>4, <3>1, <3>7
      <4> QED
        BY <1>3, <3>4, <3>7, <4>1 DEF TargetOnce
    <3>8. ASSUME position >= 1, Current = plan.disconnect,
                 at \in {"handshaking", "reconnected", "delaying", "sending"}
          PROVE  TargetOn(socket)' = {}
      <4>1. socket \in Conn /\ peer[socket] # "closed"
        BY <1>1, <3>8 DEF Typing, Located, OneExchange, LinesFit
      <4>2. wire[socket] = NoMessage
        BY <1>1, <3>8, <4>1 DEF OneExchange, Exchanging
      <4>3. socket # d
        BY <3>1, <4>2
      <4>4. TargetOn(socket) = {}
        BY <1>3, <3>8 DEF TargetOnce
      <4>5. \A c : c # d => {i \in Positions' : attempts'[i].event = plan.disconnect
                                                  /\ attempts'[i].conn = c} = TargetOn(c)
        BY <1>1, <3>4 DEF TargetOn
      <4> QED
        BY <1>1, <2>2, <4>3, <4>4, <4>5 DEF TargetOn
    <3> QED
      BY <1>1, <2>2, <3>6, <3>7, <3>8 DEF TargetOnce
  <2> QED
    BY <2>4, <2>5
<1>7. CASE LinesShake
  <2>1. UNCHANGED <<at, socket, position, attempts>> /\ Current' = Current
    BY <1>1, <1>7 DEF LinesShake, Ours, Current
  <2>2. \A c : TargetOn(c)' = TargetOn(c)
    BY <1>5, <2>1 DEF Positions
  <2>3. ASSUME NEW c \in Conn, wire'[c] # NoMessage, wire'[c].event = plan.disconnect
        PROVE  TargetOn(c) = {}
    <3>1. wire'[c] = wire[c]
      BY <1>7, <2>3 DEF LinesShake
    <3> QED
      BY <1>3, <2>3, <3>1 DEF TargetOnce
  <2>4. TargetOn(socket)' = TargetOn(socket)
    BY <2>1, <2>2 DEF TargetOn
  <2> QED
    BY <1>1, <1>3, <2>1, <2>2, <2>3, <2>4 DEF TargetOnce
<1>8. CASE Dials
  <2>1. UNCHANGED <<attempts, wire>> /\ socket' = socket + 1
    BY <1>8 DEF Dials
  <2>2. \A c : TargetOn(c)' = TargetOn(c)
    BY <1>5, <2>1 DEF Positions
  <2>3. \A i \in Positions : attempts[i].conn <= socket /\ attempts[i].conn \in Nat
    BY <1>1, AttemptRows, RunnerAssumption DEF AttemptsFit
  <2>4. socket \in Nat
    BY <1>1, RunnerAssumption DEF Typing, RunTypeOK
  <2>5. \A i \in Positions : attempts[i].conn # socket'
    BY <2>1, <2>3, <2>4
  <2>6. TargetOn(socket)' = {}
    BY <2>1, <2>5 DEF TargetOn, Positions
  <2> QED
    BY <1>1, <1>3, <2>1, <2>2, <2>6 DEF TargetOnce
<1>9. CASE Operates
  <2>1. UNCHANGED <<attempts, socket>> /\ \A c \in Conn \ {socket} : wire'[c] = wire[c]
    BY <1>9 DEF Operates
  <2>2. \A c : TargetOn(c)' = TargetOn(c)
    BY <1>5, <2>1 DEF Positions
  <2>3. TargetOn(socket)' = TargetOn(socket)
    BY <2>1, <2>2 DEF TargetOn
  <2>4. ASSUME NEW c \in Conn, wire'[c] # NoMessage, wire'[c].event = plan.disconnect
        PROVE  TargetOn(c) = {}
    <3>1. CASE wire'[c] = wire[c]
      BY <1>3, <2>4, <3>1 DEF TargetOnce
    <3>2. CASE wire'[c] # wire[c]
      <4>1. c = socket /\ (SendAndAwait \/ SendUnread)
        BY <1>1, <1>9, <2>1, <3>2, RunnerKeeps
      <4>2. wire'[c] = Payload /\ at = "sending"
        BY <1>1, <3>2, <4>1 DEF SendAndAwait, SendUnread, Transmit, Typing, RunTypeOK
      <4>3. Current = plan.disconnect /\ position >= 1
        BY <1>1, <1>4, <2>4, <4>2 DEF Payload, Typing, Located
      <4> QED
        BY <1>3, <4>1, <4>2, <4>3 DEF TargetOnce
    <3> QED
      BY <3>1, <3>2
  <2>5. ASSUME position' >= 1, Current' = plan.disconnect,
               at' \in {"handshaking", "reconnected", "delaying", "sending"}
        PROVE  TargetOn(socket) = {}
    <3>1. CASE NextSequence
      <4>1. position' = position + 1 /\ Current' = plan.order[position + 1]
            /\ position < Len(plan.order)
        BY <1>1, <3>1 DEF NextSequence, Current
      <4>2. \A p \in 1 .. position : plan.order[p] # plan.disconnect
        <5> SUFFICES ASSUME NEW p \in 1 .. position, plan.order[p] = plan.disconnect PROVE FALSE
          OBVIOUS
        <5>1. position \in 0 .. Len(plan.order) /\ Len(plan.order) \in Nat
          BY <1>1, OrderFacts
        <5>2. p \in 1 .. Len(plan.order) /\ position + 1 \in 1 .. Len(plan.order) /\ p # position + 1
          BY <4>1, <5>1
        <5>3. plan.order[p] = plan.order[position + 1]
          BY <2>5, <4>1
        <5> QED
          BY <1>1, <5>2, <5>3, OrderFacts
      <4> QED
        BY <1>1, <1>3, <4>2, TargetPositions DEF TargetOn
    <3>2. CASE ~NextSequence
      <4>1. position' = position /\ Current' = Current
        BY <1>1, <1>9, <3>2, RunnerKeeps DEF Current
      <4>2. ~ReadReply
        BY <1>1, <1>4, <2>5, <4>1 DEF ReadReply, Continue, FollowUp, Proceed
      <4>3. ~RecordRecovery
        BY <1>1, <1>4, <2>5, <4>1 DEF RecordRecovery, FollowUp, Proceed
      <4>4. at \in {"handshaking", "reconnected", "delaying", "sending"}
        BY <1>1, <1>9, <2>5, <3>2, <4>2, <4>3, RunnerStops
      <4> QED
        BY <1>3, <2>5, <4>1, <4>4 DEF TargetOnce
    <3> QED
      BY <3>1, <3>2
  <2> QED
    BY <1>1, <1>3, <2>1, <2>2, <2>3, <2>4, <2>5 DEF TargetOnce
<1> QED
  BY <1>2, <1>6, <1>7, <1>8, <1>9

LEMMA ForcingFitsNext ==
  ASSUME ProtocolInv, AttemptsFit, LinesFit, ForcingFits, [RunNext]_allVars, Calm'
  PROVE  ForcingFits'
<1>1. ClientInv /\ Typing /\ at' # "failed" /\ server = "up" /\ plan' = plan
  BY PlanStays DEF ProtocolInv, Calm, LinesFit
<1>2. ServerMoves \/ LinesShake \/ Dials \/ Operates
  BY <1>1, CalmSteps
<1>3. SUFFICES ASSUME at' = "forcing" PROVE ForcingFits'
  BY DEF ForcingFits
<1>4. /\ socket' = socket
      /\ \E i \in TargetOn(socket) : attempts[i].outcome = "accepted" /\ attempts[i].replied
  <2>1. CASE AcceptanceSeen
    <3>1. socket' = socket /\ at = "polling"
      BY <2>1 DEF AcceptanceSeen
    <3>2. Current = plan.disconnect
      BY <1>1, <3>1 DEF Typing, Located
    <3> QED
      BY <2>1, <3>1, <3>2 DEF AcceptanceSeen, TargetOn
  <2>2. CASE ~AcceptanceSeen
    <3>1. at = "forcing" /\ socket' = socket
      <4>1. CASE Operates
        BY <1>1, <1>3, <2>2, <4>1, RunnerStops DEF Operates
      <4> QED
        BY <1>2, <1>3, <4>1 DEF ServerMoves, LinesShake, Dials
    <3> QED
      BY <3>1 DEF ForcingFits
  <2> QED
    BY <2>1, <2>2
<1>5. PICK i \in TargetOn(socket) : attempts[i].outcome = "accepted" /\ attempts[i].replied
  BY <1>4
<1>6. i \in Positions
  BY <1>5 DEF TargetOn
<1>7. /\ i \in Positions' /\ attempts'[i].event = plan.disconnect /\ attempts'[i].conn = socket
      /\ attempts'[i].outcome = "accepted" /\ attempts'[i].replied
  BY <1>5, <1>6, AttemptsStay DEF TargetOn
<1>8. i \in TargetOn(socket)'
  BY <1>1, <1>4, <1>7 DEF TargetOn
<1> QED
  BY <1>7, <1>8 DEF ForcingFits

LEMMA ReconnectsFitNext ==
  ASSUME ProtocolInv, AttemptsFit, LinesFit, ReconnectsFit, [RunNext]_allVars, Calm'
  PROVE  ReconnectsFit'
<1>1. ClientInv /\ Typing /\ at' # "failed" /\ server = "up" /\ socket \in Nat
  BY RunnerAssumption DEF ProtocolInv, Calm, LinesFit, Typing, RunTypeOK
<1>2. ServerMoves \/ LinesShake \/ Dials \/ Operates
  BY <1>1, CalmSteps
<1>3. \A t \in Times("reconnected", TheRun) : timeline[t].conn \in Nat
  <2>1. timeline \in Seq(Entries)
    BY <1>1 DEF Typing, RunTypeOK
  <2>2. \A t \in DOMAIN timeline : timeline[t] \in Entries
    BY <2>1
  <2> QED
    BY <2>2, RunnerAssumption DEF Times, Entries
<1>4. CASE RecordReconnected
  <2> DEFINE n == Len(timeline) + 1
  <2>1. at = "reconnected" /\ at' = "sending" /\ socket' = socket
    BY <1>4 DEF RecordReconnected, Mark, Proceed
  <2>2. timeline' = Append(timeline, Entry("reconnected", TheRun, socket, 0))
    BY <1>1, <1>4, RunnerAdds DEF RunnerStep
  <2>3. /\ Times("reconnected", TheRun)' = Times("reconnected", TheRun) \cup {n}
        /\ timeline'[n].conn = socket
        /\ \A t \in DOMAIN timeline : timeline'[t] = timeline[t]
    BY <1>1, <2>2, TimesAfter DEF Entry
  <2>4. \A t \in Times("reconnected", TheRun) :
          timeline'[t] = timeline[t] /\ timeline[t].conn # socket
    BY <2>1, <2>3 DEF ReconnectsFit, TimesAt, Times
  <2> HIDE DEF n
  <2>5. \A t \in Times("reconnected", TheRun)' : timeline'[t].conn <= socket'
    BY <1>1, <2>1, <2>3, <2>4 DEF ReconnectsFit
  <2>6. \A t, u \in Times("reconnected", TheRun)' : timeline'[t].conn = timeline'[u].conn => t = u
    BY <2>3, <2>4 DEF ReconnectsFit
  <2> QED
    BY <2>1, <2>5, <2>6 DEF ReconnectsFit
<1>5. CASE ~RecordReconnected
  <2>1. timeline' = timeline
          \/ \E entry : timeline' = Append(timeline, entry) /\ entry.kind # "reconnected"
    <3>1. CASE ServerMoves
      BY <3>1, HandlerStamps DEF ServerMoves, SubmittedKinds
    <3>2. CASE Operates
      BY <1>1, <1>5, <3>2, RunnerAdds DEF Operates, Entry
    <3> QED
      BY <1>2, <3>1, <3>2 DEF LinesShake, Dials
  <2>2. /\ Times("reconnected", TheRun)' = Times("reconnected", TheRun)
        /\ \A key : TimesAt("reconnected", TheRun, key)' = TimesAt("reconnected", TheRun, key)
        /\ \A t \in Times("reconnected", TheRun) : timeline'[t] = timeline[t]
    BY <1>1, <2>1, TimesKeep
  <2>3. socket' = socket \/ (Dials /\ socket' = socket + 1)
    BY <1>2 DEF ServerMoves, LinesShake, Dials, Operates
  <2>4. \A t \in Times("reconnected", TheRun)' : timeline'[t].conn <= socket'
    BY <1>1, <1>3, <2>2, <2>3 DEF ReconnectsFit
  <2>5. \A t, u \in Times("reconnected", TheRun)' : timeline'[t].conn = timeline'[u].conn => t = u
    BY <2>2 DEF ReconnectsFit
  <2>6. ASSUME at' \in {"handshaking", "reconnected"}
        PROVE  \A t \in Times("reconnected", TheRun) : timeline[t].conn # socket'
    <3>1. CASE Dials
      BY <1>1, <1>3, <3>1 DEF Dials, ReconnectsFit
    <3>2. CASE ~Dials
      <4>1. at \in {"handshaking", "reconnected"}
        <5>1. CASE Operates
          BY <1>1, <2>6, <5>1, RunnerStops
        <5> QED
          BY <1>2, <2>6, <3>2, <5>1 DEF ServerMoves, LinesShake
      <4> QED
        BY <2>3, <3>2, <4>1 DEF ReconnectsFit, TimesAt
    <3> QED
      BY <3>1, <3>2
  <2>7. at' \in {"handshaking", "reconnected"} => TimesAt("reconnected", TheRun, socket)' = {}
    BY <2>2, <2>6 DEF TimesAt
  <2> QED
    BY <2>4, <2>5, <2>7 DEF ReconnectsFit
<1> QED
  BY <1>4, <1>5

-----------------------------------------------------------------------------
(* The markers of the forced reconnect *)

\* What is right about the two markers stays right.
LEMMA ForcedStaysRight ==
  ASSUME ProtocolInv, [RunNext]_allVars, socket' >= socket, socket \in Nat,
         NEW forced \in ForcedTimes, ForcedRight(forced)
  PROVE  /\ timeline'[forced] = timeline[forced]
         /\ ForcedRight(forced)'
<1>0. PICK old : old = timeline[forced].conn
  OBVIOUS
<1>1. /\ Typing /\ plan' = plan /\ BaseInv /\ TypeOK
      /\ losses \in Nat /\ losses' \in Nat /\ losses' >= losses
  BY PlanStays, CalmBefore DEF ProtocolInv, ClientInv, SafetyInv, BaseInv
<1>2. /\ timeline \in Seq(Entries) /\ forced \in DOMAIN timeline /\ timeline'[forced] = timeline[forced]
      /\ Len(timeline) \in Nat /\ DOMAIN timeline = 1 .. Len(timeline)
  BY <1>1, TimesGrow DEF ForcedTimes, Times, Typing, RunTypeOK
<1>3. old \in Nat
  <2>1. timeline[forced] \in Entries
    BY <1>2
  <2> QED
    BY <1>0, <2>1, RunnerAssumption DEF Entries
<1>4. \E opened \in TimesAt("connected", TheRun, old)' : opened < forced
  <2>1. TimesAt("connected", TheRun, old) \subseteq TimesAt("connected", TheRun, old)'
    BY TimesGrow
  <2> QED
    BY <1>0, <2>1 DEF ForcedRight
<1>5. \A closed \in TimesAt("disconnected", TheRun, old)' : closed < forced => losses' > 0
  <2> SUFFICES ASSUME NEW closed \in TimesAt("disconnected", TheRun, old)', closed < forced
               PROVE  losses' > 0
    OBVIOUS
  <2>1. closed \in Times("disconnected", TheRun)' /\ timeline'[closed].conn = old
    BY <1>2 DEF TimesAt
  <2>2. closed \in Times("disconnected", TheRun)
    <3>1. closed = Len(timeline) + 1 => FALSE
      BY <1>2
    <3> QED
      BY <2>1, <3>1, TimesGrow
  <2>3. closed \in DOMAIN timeline
    BY <2>2 DEF Times
  <2>4. timeline'[closed] = timeline[closed]
    BY <2>3, TimesGrow
  <2>5. closed \in TimesAt("disconnected", TheRun, old)
    BY <2>1, <2>2, <2>4 DEF TimesAt
  <2> QED
    BY <1>0, <1>1, <2>5 DEF ForcedRight
<1>6. AttemptsWithin(TheRun, plan.disconnect, old, "accepted", 1, forced)' # {}
  <2>1. PICK i \in AttemptsWithin(TheRun, plan.disconnect, old, "accepted", 1, forced) : TRUE
    BY <1>0 DEF ForcedRight
  <2>2. /\ i \in Positions /\ attempts[i].run = TheRun /\ attempts[i].event = plan.disconnect
        /\ attempts[i].conn = old /\ attempts[i].outcome = "accepted"
    BY <2>1 DEF AttemptsWithin, AttemptsOf
  <2>3. PICK t \in TimesOf("received", TheRun, i), u \in TimesOf("answered", TheRun, i) :
          1 <= t /\ t <= u /\ u <= forced
    BY <2>1 DEF AttemptsWithin
  <2>4. t \in TimesOf("received", TheRun, i)' /\ u \in TimesOf("answered", TheRun, i)'
    BY TimesGrow
  <2>5. /\ i \in Positions' /\ attempts'[i].run = TheRun /\ attempts'[i].event = plan.disconnect
        /\ attempts'[i].conn = old /\ attempts'[i].outcome = "accepted"
    BY <2>2, AttemptsStay
  <2>6. i \in AttemptsWithin(TheRun, plan.disconnect, old, "accepted", 1, forced)'
    BY <1>1, <1>2, <2>3, <2>4, <2>5 DEF AttemptsWithin, AttemptsOf
  <2> QED
    BY <2>6
<1>7. timeline[forced].of = plan.disconnect /\ old <= socket'
  <2>1. old <= socket
    BY <1>0 DEF ForcedRight
  <2>2. socket' \in Nat
    <3>1. Typing'
      BY TypingNext DEF ProtocolInv
    <3> QED
      BY <3>1, RunnerAssumption DEF Typing, RunTypeOK
  <2> QED
    BY <1>3, <2>1, <2>2 DEF ForcedRight
<1>8. timeline'[forced].conn = old
  BY <1>0, <1>2
<1>9. ForcedRight(forced)'
  BY <1>1, <1>2, <1>4, <1>5, <1>6, <1>7, <1>8 DEF ForcedRight
<1> QED
  BY <1>2, <1>9

LEMMA RecoveredStaysRight ==
  ASSUME ProtocolInv, [RunNext]_allVars, NEW forced \in ForcedTimes, NEW recovery \in RecoveryTimes,
         RecoveredRight(forced, recovery)
  PROVE  RecoveredRight(forced, recovery)'
<1>1. plan' = plan
  BY PlanStays
<1>2. forced \in DOMAIN timeline /\ recovery \in DOMAIN timeline
  BY DEF ForcedTimes, RecoveryTimes, Times
<1>3. timeline'[forced] = timeline[forced] /\ timeline'[recovery] = timeline[recovery]
  BY <1>2, TimesGrow
<1>4. PICK back \in TimesAt("reconnected", TheRun, timeline[recovery].conn) :
        forced < back /\ back < recovery
  BY DEF RecoveredRight
<1>5. back \in Times("reconnected", TheRun) /\ timeline[back].conn = timeline[recovery].conn
  BY <1>4 DEF TimesAt
<1>6. back \in Times("reconnected", TheRun)' /\ timeline'[back] = timeline[back]
  BY <1>5, TimesGrow DEF Times
<1>7. back \in TimesAt("reconnected", TheRun, timeline[recovery].conn)'
  BY <1>3, <1>5, <1>6 DEF TimesAt
<1> QED
  BY <1>1, <1>3, <1>4, <1>7 DEF RecoveredRight

\* The disconnect is forced after the acceptance was seen, and the socket had not ended.
LEMMA ForcingIsRight ==
  ASSUME ProtocolInv, AttemptsFit, LinesFit, TimesFit, SocketsStay, ForcingFits, ForceDisconnect,
         NEW f, f = Len(timeline) + 1
  PROVE  /\ Times("forced_disconnect", TheRun)' = Times("forced_disconnect", TheRun) \cup {f}
         /\ Times("recovery_complete", TheRun)' = Times("recovery_complete", TheRun)
         /\ ForcedRight(f)'
<1>0. PICK old : old = socket
  OBVIOUS
<1>1. /\ Typing /\ LegsFit /\ at = "forcing" /\ ~Completed /\ RunnerStep
  BY RunnerIsNotDone DEF ProtocolInv, ForceDisconnect, RunnerStep
<1>2. /\ timeline' = Append(timeline, Entry("forced_disconnect", TheRun, socket, Current))
      /\ UNCHANGED <<attempts, losses, socket, position, plan>>
      /\ losses \in Nat
  <2>1. UNCHANGED <<socket, position, losses, config>>
    BY DEF ForceDisconnect, RecordMarker
  <2> QED
    BY <1>1, <2>1, RunnerAdds DEF plan, Typing, RunTypeOK
<1>3. Current = plan.disconnect /\ socket \in Conn /\ socket \in Nat /\ peer[socket] # "closed"
      /\ plan.disconnect # None
  <2>1. Current = plan.disconnect /\ socket \in Conn /\ position >= 1
    BY <1>1 DEF Typing, Located
  <2>2. Current \in Event
    BY <1>1, <2>1, PlanFacts DEF Typing
  <2>3. Current # None
    BY <2>2, SequenceAssumption DEF None
  <2> QED
    BY <1>1, <2>1, <2>3, RunnerAssumption DEF LinesFit
<1>4. /\ Len(timeline) \in Nat /\ DOMAIN timeline = 1 .. Len(timeline)
      /\ \A t \in DOMAIN timeline : timeline'[t] = timeline[t]
      /\ timeline'[f] = Entry("forced_disconnect", TheRun, socket, Current)
      /\ Times("forced_disconnect", TheRun)' = Times("forced_disconnect", TheRun) \cup {f}
  BY <1>1, <1>2, TimesAfter DEF Entry
<1>5. \A kind : kind # "forced_disconnect" =>
        /\ Times(kind, TheRun)' = Times(kind, TheRun)
        /\ \A key : /\ TimesAt(kind, TheRun, key)' = TimesAt(kind, TheRun, key)
                    /\ TimesOf(kind, TheRun, key)' = TimesOf(kind, TheRun, key)
  <2> SUFFICES ASSUME NEW kind, kind # "forced_disconnect"
               PROVE  /\ Times(kind, TheRun)' = Times(kind, TheRun)
                      /\ \A key : /\ TimesAt(kind, TheRun, key)' = TimesAt(kind, TheRun, key)
                                  /\ TimesOf(kind, TheRun, key)' = TimesOf(kind, TheRun, key)
    OBVIOUS
  <2>1. \E entry : timeline' = Append(timeline, entry) /\ entry.kind # kind
    BY <1>2 DEF Entry
  <2> QED
    BY <1>1, <2>1, TimesKeep
<1>6. PICK i \in TargetOn(socket) : attempts[i].outcome = "accepted" /\ attempts[i].replied
  BY <1>1 DEF ForcingFits
<1>7. /\ i \in Positions /\ attempts[i].event = plan.disconnect /\ attempts[i].conn = socket
      /\ attempts[i].run = TheRun
  BY <1>6 DEF TargetOn, AttemptsFit
<1>8. \E opened \in TimesAt("connected", TheRun, old) : opened < f
  <2>1. PICK opened \in TimesAt("connected", TheRun, old) : TRUE
    BY <1>0, <1>3, <1>7 DEF TimesFit
  <2>2. opened \in DOMAIN timeline
    BY <2>1 DEF TimesAt, Times
  <2>3. opened < f
    BY <1>4, <2>2
  <2> QED
    BY <2>1, <2>3
<1>9. \A closed \in TimesAt("disconnected", TheRun, old) : closed < f => losses > 0
  <2>1. losses = 0 => TimesAt("disconnected", TheRun, old) = {}
    BY <1>0, <1>1, <1>3 DEF SocketsStay
  <2> QED
    BY <1>2, <2>1
<1>10. \E t \in TimesOf("received", TheRun, i), u \in TimesOf("answered", TheRun, i) :
         1 <= t /\ t <= u /\ u <= f
  <2>1. PICK t \in TimesOf("received", TheRun, i), u \in TimesOf("answered", TheRun, i) : t < u
    BY <1>3, <1>6, <1>7 DEF TimesFit
  <2>2. t \in DOMAIN timeline /\ u \in DOMAIN timeline
    BY <2>1 DEF TimesOf, Times
  <2>3. 1 <= t /\ t <= u /\ u <= f
    BY <1>4, <2>1, <2>2
  <2> QED
    BY <2>1, <2>3
<1>11. i \in AttemptsWithin(TheRun, plan.disconnect, old, "accepted", 1, f)'
  <2>1. /\ TimesOf("received", TheRun, i)' = TimesOf("received", TheRun, i)
        /\ TimesOf("answered", TheRun, i)' = TimesOf("answered", TheRun, i)
    BY <1>5
  <2>2. /\ i \in Positions' /\ attempts'[i].run = TheRun /\ attempts'[i].event = plan.disconnect
        /\ attempts'[i].conn = old /\ attempts'[i].outcome = "accepted"
    BY <1>0, <1>2, <1>6, <1>7 DEF Positions
  <2> QED
    BY <1>2, <1>10, <2>1, <2>2 DEF AttemptsWithin, AttemptsOf
<1>12. timeline'[f].conn = old /\ timeline'[f].of = plan.disconnect
  BY <1>0, <1>3, <1>4 DEF Entry
<1>13. ForcedRight(f)'
  <2>1. /\ TimesAt("connected", TheRun, old)' = TimesAt("connected", TheRun, old)
        /\ TimesAt("disconnected", TheRun, old)' = TimesAt("disconnected", TheRun, old)
    BY <1>5
  <2>2. AttemptsWithin(TheRun, plan.disconnect, old, "accepted", 1, f)' # {}
    BY <1>11
  <2> QED
    BY <1>0, <1>2, <1>3, <1>8, <1>9, <1>12, <2>1, <2>2 DEF ForcedRight
<1> QED
  BY <1>4, <1>5, <1>13

\* Between the forced disconnect and the recovery the target is delivered again.
LEMMA ResumingMoves ==
  ASSUME ProtocolInv, AttemptsFit, LinesFit, [RunNext]_allVars, Calm', ~ForceDisconnect
  PROVE  /\ Resuming' => Resuming /\ ~RecordRecovery
         /\ Resuming /\ ~Resuming' => RecordRecovery
         /\ RecordRecovery => Resuming
<1>1. ClientInv /\ Typing /\ LegsFit /\ at' # "failed" /\ server = "up"
  BY DEF ProtocolInv, Calm, LinesFit
<1>2. ServerMoves \/ LinesShake \/ Dials \/ Operates
  BY <1>1, CalmSteps
<1>3. RecordRecovery => at = "recovering" /\ leg = "retried" /\ at' = "next" /\ leg' = leg
  <2> SUFFICES ASSUME RecordRecovery
               PROVE  at = "recovering" /\ leg = "retried" /\ at' = "next" /\ leg' = leg
    OBVIOUS
  <2>1. at = "recovering" /\ FollowUp
    BY DEF RecordRecovery
  <2>2. leg = "retried" /\ position >= 1 /\ Current = plan.disconnect
    BY <1>1, <2>1 DEF LinesFit, LegsFit
  <2>3. Current \notin plan.duplicate
    BY <1>1, <2>2, OrderFacts
  <2> QED
    BY <2>1, <2>2, <2>3 DEF FollowUp, Proceed
<1>4. CASE ~Operates
  <2>1. leg' = leg /\ (at' = at \/ (at = "dialing" /\ at' = "handshaking"))
    BY <1>2, <1>4 DEF ServerMoves, LinesShake, Dials, Ours
  <2>2. (Resuming' <=> Resuming)
    BY <2>1 DEF Resuming
  <2>3. ~RecordRecovery
    BY <1>3, <2>1
  <2> QED
    BY <2>2, <2>3
<1>5. CASE Operates
  <2>1. CASE RecordRecovery
    BY <1>3, <2>1 DEF Resuming
  <2>2. CASE NextSequence
    BY <1>3, <2>2 DEF NextSequence, Resuming
  <2>3. CASE ReadReply
    <3>1. at = "awaiting" /\ (leg = "retried" => at' = "recovering" /\ leg' = leg)
          /\ (leg # "retried" => leg' # "retried")
      BY <2>3 DEF ReadReply, Continue, FollowUp, Proceed
    <3> QED
      BY <1>3, <3>1 DEF Resuming
  <2>4. CASE ~RecordRecovery /\ ~NextSequence /\ ~ReadReply
    <3>1. leg' = leg
      BY <1>1, <1>5, <2>4, RunnerKeeps
    <3>2. at \notin {"next", "completing", "done"} => at' \notin {"next", "completing", "done"}
             \/ (Connected /\ position = 0)
      BY <1>1, <1>5, <2>4, RunnerStops
    <3>3. at' \notin {"next", "completing", "done"} => at \notin {"next", "completing", "done"}
      BY <1>1, <1>5, <2>4, RunnerStops
    <3>4. leg = "retried" => position # 0
      BY <1>1 DEF LegsFit
    <3> QED
      BY <2>4, <3>1, <3>2, <3>3, <3>4 DEF Resuming
  <2> QED
    BY <2>1, <2>2, <2>3, <2>4
<1> QED
  BY <1>4, <1>5

\* Only the runner's two steps add its two markers.
LEMMA OthersMarkNothing ==
  ASSUME ProtocolInv, AttemptsFit, LinesFit, [RunNext]_allVars, Calm', ~ForceDisconnect
  PROVE  /\ ForcedTimes' = ForcedTimes
         /\ ~RecordRecovery => RecoveryTimes' = RecoveryTimes
<1>1. ClientInv /\ Typing /\ server = "up"
  BY DEF ProtocolInv, LinesFit
<1>2. ServerMoves \/ LinesShake \/ Dials \/ Operates
  BY <1>1, CalmSteps
<1>3. timeline' = timeline
        \/ \E entry : /\ timeline' = Append(timeline, entry) /\ entry.kind # "forced_disconnect"
                      /\ RecordRecovery \/ entry.kind # "recovery_complete"
  <2>1. CASE ServerMoves
    BY <2>1, HandlerStamps DEF ServerMoves, SubmittedKinds
  <2>2. CASE Operates
    BY <1>1, <2>2, RunnerAdds DEF Operates, Entry
  <2> QED
    BY <1>2, <2>1, <2>2 DEF LinesShake, Dials
<1>4. Times("forced_disconnect", TheRun)' = Times("forced_disconnect", TheRun)
  BY <1>1, <1>3, TimesKeep
<1>5. ~RecordRecovery => Times("recovery_complete", TheRun)' = Times("recovery_complete", TheRun)
  BY <1>1, <1>3, TimesKeep
<1> QED
  BY <1>4, <1>5 DEF ForcedTimes, RecoveryTimes

\* The way back from the forced disconnect to the marker of the recovery.
LEMMA ReturningNext ==
  ASSUME ProtocolInv, AttemptsFit, LinesFit, [RunNext]_allVars, Calm', ~ForceDisconnect,
         Resuming, Resuming', NEW forced \in ForcedTimes, ForcedRight(forced), Returning(forced)
  PROVE  Returning(forced)'
<1>0. PICK old : old = timeline[forced].conn
  OBVIOUS
<1>1. ClientInv /\ Typing /\ LegsFit /\ at' # "failed" /\ server = "up" /\ socket \in Nat
      /\ leg = "retried" /\ leg' = "retried" /\ position >= 1
  BY RunnerAssumption DEF ProtocolInv, Calm, LinesFit, Resuming, LegsFit, Typing, RunTypeOK
<1>2. ServerMoves \/ LinesShake \/ Dials \/ Operates
  BY <1>1, CalmSteps
<1>3. /\ forced \in DOMAIN timeline /\ timeline'[forced].conn = old
      /\ DOMAIN timeline = 1 .. Len(timeline) /\ Len(timeline) \in Nat
  BY <1>0, TimesGrow DEF ForcedTimes, Times
<1>4. old \in Nat /\ old <= socket
  <2>1. timeline[forced] \in Entries
    BY <1>1, <1>3 DEF Typing, RunTypeOK
  <2> QED
    BY <1>0, <2>1, RunnerAssumption DEF Entries, ForcedRight
<1>5. at # "dialing" => old < socket
  BY <1>0 DEF Returning
<1>6. at' # "dialing" => old < socket'
  <2>1. CASE Dials
    BY <1>1, <1>4, <2>1 DEF Dials
  <2>2. CASE ~Dials
    <3>1. socket' = socket
      BY <1>2, <2>2 DEF ServerMoves, LinesShake, Operates
    <3>2. at = "dialing" => at' = "dialing"
      <4>1. Operates => at # "dialing"
        BY <1>1, RunnerStops
      <4> QED
        BY <1>2, <2>2, <4>1 DEF ServerMoves, LinesShake
    <3> QED
      BY <1>5, <3>1, <3>2
  <2> QED
    BY <2>1, <2>2
<1>7. ASSUME at' \in {"sending", "awaiting", "recovering"}
      PROVE  \E back \in TimesAt("reconnected", TheRun, socket)' : forced < back
  <2>1. PICK new : new = socket
    OBVIOUS
  <2>2. socket' = new
    BY <1>2, <1>7, <2>1 DEF ServerMoves, LinesShake, Dials, Operates
  <2>3. \E back \in TimesAt("reconnected", TheRun, new)' : forced < back
    <3>1. CASE RecordReconnected
      <4>1. timeline' = Append(timeline, Entry("reconnected", TheRun, new, 0))
        BY <1>1, <2>1, <3>1, RunnerAdds DEF RunnerStep
      <4>2. /\ Len(timeline) + 1 \in Times("reconnected", TheRun)'
            /\ timeline'[Len(timeline) + 1].conn = new
        BY <1>1, <4>1, TimesAfter DEF Entry
      <4>3. Len(timeline) + 1 \in TimesAt("reconnected", TheRun, new)'
        BY <4>2 DEF TimesAt
      <4> QED
        BY <1>3, <4>3
    <3>2. CASE ~RecordReconnected
      <4>1. at \in {"sending", "awaiting", "recovering"}
        <5>1. ~RecordRecovery
          BY ResumingMoves
        <5>2. ~NextSequence /\ ~RecordDelay
          BY <1>1 DEF NextSequence, RecordDelay, LinesFit
        <5>3. Operates => at \in {"sending", "awaiting", "recovering"}
          BY <1>1, <1>7, <3>2, <5>1, <5>2, RunnerStops
        <5> QED
          BY <1>2, <1>7, <5>3 DEF ServerMoves, LinesShake, Dials
      <4>2. PICK back \in TimesAt("reconnected", TheRun, new) : forced < back
        BY <2>1, <4>1 DEF Returning
      <4>3. back \in TimesAt("reconnected", TheRun, new)'
        BY <4>2, TimesGrow
      <4> QED
        BY <4>2, <4>3
    <3> QED
      BY <3>1, <3>2
  <2> QED
    BY <2>2, <2>3 DEF TimesAt
<1> QED
  BY <1>3, <1>6, <1>7 DEF Returning

\* The recovery is recorded on the socket that the runner came back on.
LEMMA RecoveringIsRight ==
  ASSUME ProtocolInv, LinesFit, RecordRecovery, NEW r, r = Len(timeline) + 1,
         NEW forced \in ForcedTimes, Returning(forced), [RunNext]_allVars
  PROVE  /\ RecoveryTimes' = RecoveryTimes \cup {r}
         /\ RecoveredRight(forced, r)'
<1>0. PICK new : new = socket
  OBVIOUS
<1>1. Typing /\ LegsFit /\ at = "recovering" /\ RunnerStep /\ plan' = plan
  BY PlanStays DEF ProtocolInv, RecordRecovery, RunnerStep
<1>2. leg = "retried" /\ Current = plan.disconnect
  BY <1>1 DEF LinesFit, LegsFit
<1>3. timeline' = Append(timeline, Entry("recovery_complete", TheRun, new, Current))
  BY <1>0, <1>1, RunnerAdds
<1>4. /\ Times("recovery_complete", TheRun)' = Times("recovery_complete", TheRun) \cup {r}
      /\ timeline'[r].conn = new /\ timeline'[r].of = plan.disconnect
      /\ DOMAIN timeline = 1 .. Len(timeline) /\ Len(timeline) \in Nat
  BY <1>1, <1>2, <1>3, TimesAfter DEF Entry
<1>5. timeline'[forced].conn # new
  <2>1. timeline'[forced] = timeline[forced]
    BY TimesGrow DEF ForcedTimes, Times
  <2>2. timeline[forced].conn < socket
    BY <1>1 DEF Returning
  <2>3. timeline[forced] \in Entries
    BY <1>1 DEF ForcedTimes, Times, Typing, RunTypeOK
  <2>4. timeline[forced].conn \in Nat
    BY <2>3, RunnerAssumption DEF Entries
  <2>5. socket \in Nat
    BY <1>1, RunnerAssumption DEF Typing, RunTypeOK
  <2> QED
    BY <1>0, <2>1, <2>2, <2>4, <2>5
<1>6. PICK back \in TimesAt("reconnected", TheRun, new) : forced < back
  BY <1>0, <1>1 DEF Returning
<1>7. back \in TimesAt("reconnected", TheRun, new)'
  BY <1>6, TimesGrow
<1>8. back < r
  <2>1. back \in DOMAIN timeline
    BY <1>6 DEF TimesAt, Times
  <2> QED
    BY <1>4, <2>1
<1>9. RecoveredRight(forced, r)'
  BY <1>1, <1>4, <1>5, <1>6, <1>7, <1>8 DEF RecoveredRight
<1> QED
  BY <1>4, <1>9 DEF RecoveryTimes

\* The two markers of the forced disconnect, once each and of sockets that explain them.
LEMMA MarkersFitNext ==
  ASSUME ProtocolInv, AttemptsFit, LinesFit, TimesFit, SocketsStay, ForcingFits, MarkersFit,
         [RunNext]_allVars, Calm'
  PROVE  MarkersFit'
<1>1. /\ ClientInv /\ Typing /\ Typing' /\ LegsFit /\ CountersFollowPlan
      /\ at' # "failed" /\ server = "up"
  BY TypingNext DEF ProtocolInv, Calm, LinesFit
<1>2. ServerMoves \/ LinesShake \/ Dials \/ Operates
  BY <1>1, CalmSteps
<1>3. socket \in Nat /\ forcedReconnects \in {0, 1} /\ forcedReconnects' \in {0, 1}
  <2>1. forcedReconnects \in {0, 1} /\ forcedReconnects' \in {0, 1}
    BY <1>1 DEF Typing, RunTypeOK
  <2> QED
    BY <1>1, <2>1, SocketIsNumber
<1>4. socket' \in Nat /\ socket' >= socket
  <2>1. socket' = socket \/ socket' = socket + 1
    BY <1>2 DEF ServerMoves, LinesShake, Dials, Operates
  <2> QED
    BY <1>3, <2>1
<1>5. CASE ForceDisconnect
  <2>1. at = "forcing" /\ at' = "dialing" /\ leg' = "retried"
        /\ forcedReconnects' = forcedReconnects + 1
    BY <1>5 DEF ForceDisconnect, Proceed
  <2>2. forcedReconnects = 0 /\ forcedReconnects' = 1
    BY <1>3, <2>1
  <2>3. ForcedTimes = {} /\ RecoveryTimes = {}
    BY <2>2 DEF MarkersFit
  <2>4. PICK f : f = Len(timeline) + 1
    OBVIOUS
  <2>5. ForcedTimes' = {f} /\ RecoveryTimes' = {} /\ ForcedRight(f)'
    BY <1>5, <2>3, <2>4, ForcingIsRight DEF ForcedTimes, RecoveryTimes
  <2>6. Resuming' /\ Returning(f)'
    BY <2>1 DEF Resuming, Returning
  <2> QED
    BY <2>2, <2>5, <2>6 DEF MarkersFit
<1>6. CASE ~ForceDisconnect
  <2>1. forcedReconnects' = forcedReconnects
    <3>1. CASE Operates
      BY <1>1, <1>6, <3>1, RunnerKeeps DEF ExchangeFails
    <3>2. CASE ~Operates
      BY <1>2, <3>2 DEF ServerMoves, LinesShake, Dials, Ours
    <3> QED
      BY <3>1, <3>2
  <2>2. /\ Resuming' => Resuming /\ ~RecordRecovery
        /\ Resuming /\ ~Resuming' => RecordRecovery
        /\ RecordRecovery => Resuming
    BY <1>6, ResumingMoves
  <2>3. /\ ForcedTimes' = ForcedTimes
        /\ ~RecordRecovery => RecoveryTimes' = RecoveryTimes
    BY <1>6, OthersMarkNothing
  <2>4. CASE forcedReconnects = 0
    <3>1. ~Resuming
      BY <1>1, <2>4 DEF Resuming, CountersFollowPlan
    <3> QED
      BY <2>1, <2>2, <2>3, <2>4, <3>1 DEF MarkersFit
  <2>5. CASE forcedReconnects = 1
    <3>1. PICK forced \in ForcedTimes :
            /\ ForcedTimes = {forced} /\ ForcedRight(forced)
            /\ Resuming => RecoveryTimes = {} /\ Returning(forced)
            /\ ~Resuming => \E recovery \in RecoveryTimes :
                 RecoveryTimes = {recovery} /\ RecoveredRight(forced, recovery)
      BY <2>5 DEF MarkersFit
    <3>2. ForcedTimes' = {forced} /\ ForcedRight(forced)'
      BY <1>3, <1>4, <2>3, <3>1, ForcedStaysRight
    <3>3. Resuming' => RecoveryTimes' = {} /\ Returning(forced)'
      BY <1>6, <2>2, <2>3, <3>1, ReturningNext
    <3>4. ASSUME ~Resuming'
          PROVE  \E recovery \in RecoveryTimes' :
                   RecoveryTimes' = {recovery} /\ RecoveredRight(forced, recovery)'
      <4>1. CASE Resuming
        <5>1. PICK r : r = Len(timeline) + 1
          OBVIOUS
        <5>2. RecoveryTimes' = {r} /\ RecoveredRight(forced, r)'
          BY <2>2, <3>1, <3>4, <4>1, <5>1, RecoveringIsRight
        <5> QED
          BY <5>2
      <4>2. CASE ~Resuming
        <5>1. PICK recovery \in RecoveryTimes :
                RecoveryTimes = {recovery} /\ RecoveredRight(forced, recovery)
          BY <3>1, <4>2
        <5>2. RecoveryTimes' = RecoveryTimes
          BY <2>2, <2>3, <4>2
        <5>3. RecoveredRight(forced, recovery)'
          BY <5>1, RecoveredStaysRight
        <5> QED
          BY <5>1, <5>2, <5>3
      <4> QED
        BY <4>1, <4>2
    <3> QED
      BY <2>1, <2>5, <3>1, <3>2, <3>3, <3>4 DEF MarkersFit
  <2> QED
    BY <1>3, <2>4, <2>5
<1> QED
  BY <1>5, <1>6

\* The evidence, from the start and at every step.
LEMMA EvidenceInit == RunInit => EvidenceInv
<1> SUFFICES ASSUME RunInit PROVE EvidenceInv
  OBVIOUS
<1>1. /\ at = "creating" /\ position = 0 /\ leg = "planned" /\ socket = 0 /\ server = "up"
      /\ \A c \in Conn : pc[c] = "idle" /\ peer[c] = "none" /\ wire[c] = NoMessage
      /\ \A e \in Event : effects[e].failure = 0
      /\ ~Completed /\ refusals.rejected = 0
      /\ read = {} /\ acked = {} /\ confirmed = {} /\ retryCount = 0 /\ forcedReconnects = 0
  BY RunnerAssumption DEF RunInit, Init, Completed
<1>2. 0 \notin Conn
  BY RunnerAssumption
<1>3. Positions = {} /\ DOMAIN timeline = {}
  BY DEF RunInit, Init, VerdictInit, Positions
<1>4. \A kind : Times(kind, TheRun) = {}
  BY <1>3 DEF Times
<1>5. \A kind : \A c : TimesAt(kind, TheRun, c) = {}
  BY <1>4 DEF TimesAt
<1>6. AttemptsFit /\ OneAttempt
  BY <1>2, <1>1, <1>3 DEF AttemptsFit, OneAttempt
<1>7. CountersFit /\ LinesFit
  BY <1>1 DEF CountersFit, LinesFit
<1>8. RefusalsFit
  <2>1. Rejected(read) = {} /\ Rejected(Positions \ read) = {}
    BY <1>1, <1>3 DEF Rejected
  <2>2. Cardinality(Rejected(read)) = 0
    BY <2>1, FS_EmptySet
  <2> QED
    BY <1>1, <2>1, <2>2 DEF RefusalsFit
<1>9. DelaysFit /\ TimesFit /\ TargetOnce
  BY <1>1, <1>3 DEF DelaysFit, TimesFit, TargetOnce, TargetOn
<1>10. SocketsStay /\ ReconnectsFit /\ ForcingFits /\ MarkersFit
  BY <1>1, <1>4, <1>5
  DEF SocketsStay, ReconnectsFit, ForcingFits, MarkersFit, ForcedTimes, RecoveryTimes
<1>11. ProtocolInv
  BY ProtocolInit
<1> QED
  BY <1>6, <1>7, <1>8, <1>9, <1>10, <1>11 DEF EvidenceInv, EvidenceFits

LEMMA EvidenceNext == EvidenceInv /\ [RunNext]_allVars => EvidenceInv'
<1> SUFFICES ASSUME EvidenceInv, [RunNext]_allVars PROVE EvidenceInv'
  OBVIOUS
<1>1. ProtocolInv /\ ProtocolInv'
  BY ProtocolNext DEF EvidenceInv
<1>2. ASSUME Calm' PROVE EvidenceFits'
  <2>1. EvidenceFits
    BY <1>1, <1>2, CalmBefore DEF EvidenceInv
  <2>2. /\ AttemptsFit /\ CountersFit /\ LinesFit /\ OneAttempt /\ RefusalsFit /\ DelaysFit
        /\ TimesFit /\ SocketsStay /\ TargetOnce /\ ReconnectsFit /\ ForcingFits /\ MarkersFit
    BY <2>1 DEF EvidenceFits
  <2>3. server = "up"
    BY <2>2 DEF LinesFit
  <2>4. AttemptsFit' /\ CountersFit' /\ LinesFit' /\ OneAttempt'
    BY <1>1, <1>2, <2>2, <2>3, AttemptsFitNext, CountersFitNext, LinesFitNext, OneAttemptNext
  <2>5. RefusalsFit' /\ DelaysFit' /\ TimesFit' /\ SocketsStay'
    BY <1>1, <1>2, <2>2, RefusalsFitNext, DelaysFitNext, TimesFitNext, SocketsStayNext
  <2>6. TargetOnce' /\ ReconnectsFit' /\ ForcingFits' /\ MarkersFit'
    BY <1>1, <1>2, <2>2, TargetOnceNext, ReconnectsFitNext, ForcingFitsNext, MarkersFitNext
  <2> QED
    BY <2>4, <2>5, <2>6 DEF EvidenceFits
<1> QED
  BY <1>1, <1>2 DEF EvidenceInv

LEMMA EvidenceInvariant == RunSpec => []EvidenceInv
BY EvidenceInit, EvidenceNext, PTL DEF RunSpec

-----------------------------------------------------------------------------
(* The verdict on a run that its runner reconciled *)

\* A reconciled run that nothing interrupted.
ReconciledRun ==
  /\ ProtocolInv /\ ArrivalEvidence /\ EvidenceFits
  /\ at = "done" /\ Reconciled

LEMMA ReconciledCounts ==
  ASSUME ReconciledRun
  PROVE  /\ EventsOf(TheRun) = Stored /\ Stored = Manifest[TheRun] \ plan.invalid
         /\ Cardinality(EventsOf(TheRun)) = ExpectedUnique(TheRun)
         /\ report[TheRun] = ExpectedUnique(TheRun)
         /\ \A e \in EventsOf(TheRun) : effects[e].failure = 0
<1>1. ProtocolInv /\ ClientInv /\ Typing /\ CountersFit /\ Completed /\ at = "done" /\ Reconciled
  BY DEF ReconciledRun, ProtocolInv, EvidenceFits, CountersFit
<1>2. EventsOf(TheRun) = Stored
  BY <1>1, StoredEvents DEF EventsOf
<1>3. Stored = Manifest[TheRun] \ plan.invalid
  BY <1>1, CompletedReconciles
<1>4. IsFiniteSet(Manifest[TheRun])
  BY FiniteTables, RunnerAssumption
<1>5. Manifest[TheRun] \cap plan.invalid = plan.invalid
  BY <1>1, OrderFacts
<1>6. Cardinality(Manifest[TheRun] \ plan.invalid)
        = Cardinality(Manifest[TheRun]) - Cardinality(plan.invalid)
  BY <1>4, <1>5, FS_Difference
<1>7. Cardinality(Stored) = ExpectedUnique(TheRun)
  BY <1>3, <1>6 DEF ExpectedUnique, plan
<1>8. report[TheRun] = Cardinality(acked) /\ acked = Stored
  BY <1>1, <1>3 DEF CountersFit, Reconciled
<1>9. \A e \in EventsOf(TheRun) : effects[e].failure = 0
  BY <1>1 DEF CountersFit, EventsOf, Stored
<1> QED
  BY <1>2, <1>3, <1>7, <1>8, <1>9

LEMMA ReconciledDeliveries ==
  ASSUME ReconciledRun
  PROVE  /\ Outcome(TheRun, "conflict") = {} /\ Operational(TheRun) = {}
         /\ plan.duplicate \subseteq Duplicated(TheRun)
         /\ retryCount \in Nat /\ forcedReconnects \in Nat /\ retryCount >= forcedReconnects
         /\ Undisturbed =>
              Cardinality(Outcome(TheRun, "rejected") \ Operational(TheRun))
                = Cardinality(plan.invalid)
<1>1. /\ AttemptsFit /\ CountersFit /\ RefusalsFit /\ Typing /\ at = "done" /\ Reconciled
  BY DEF ReconciledRun, ProtocolInv, EvidenceFits
<1>2. AttemptsOf(TheRun) = Positions
  BY <1>1 DEF AttemptsFit, AttemptsOf
<1>3. \A i \in Positions : /\ attempts[i].outcome \in {"accepted", "duplicate", "rejected"}
                          /\ attempts[i].category # "internal_error"
  BY <1>1 DEF AttemptsFit, Fits
<1>4. Outcome(TheRun, "conflict") = {} /\ Operational(TheRun) = {}
  BY <1>2, <1>3 DEF Outcome, Operational
<1>5. plan.duplicate \subseteq Duplicated(TheRun)
  BY <1>1 DEF CountersFit, Reconciled
<1>6. retryCount \in Nat /\ forcedReconnects \in Nat /\ retryCount >= forcedReconnects
  BY <1>1 DEF RefusalsFit, Typing, RunTypeOK
<1>7. ASSUME Undisturbed
      PROVE  Cardinality(Outcome(TheRun, "rejected") \ Operational(TheRun))
               = Cardinality(plan.invalid)
  <2>1. Rejected(Positions \ read) = {}
    BY <1>1, <1>7 DEF RefusalsFit
  <2>2. read \subseteq Positions
    BY <1>1 DEF Typing, RunTypeOK
  <2>3. Outcome(TheRun, "rejected") \ Operational(TheRun) = Rejected(read)
    BY <1>2, <1>4, <2>1, <2>2 DEF Outcome, Rejected
  <2>4. Cardinality(Rejected(read)) = Cardinality(plan.invalid)
    BY <1>1 DEF RefusalsFit, Reconciled
  <2> QED
    BY <2>3, <2>4
<1> QED
  BY <1>4, <1>5, <1>6, <1>7

\* All of the planned order has arrived.
LEMMA ReconciledOrder ==
  ASSUME ReconciledRun
  PROVE  Arrivals(TheRun) = PlannedArrivals(plan)
<1> DEFINE valid == {i \in DOMAIN plan.order : plan.order[i] \notin plan.invalid}
           n == Cardinality(Stored)
<1>1. ProtocolInv /\ ArrivalEvidence /\ ClientInv /\ Typing
  BY DEF ReconciledRun, ProtocolInv
<1>2. EventsOf(TheRun) = Stored /\ Stored = Manifest[TheRun] \ plan.invalid
  BY ReconciledCounts
<1>3. {plan.order[p] : p \in valid} = Stored
  <2>1. DOMAIN plan.order = 1 .. Len(plan.order)
    BY <1>1, OrderFacts
  <2>2. \A p \in valid : plan.order[p] \in Stored
    BY <1>1, <1>2, <2>1, OrderFacts
  <2>3. ASSUME NEW e \in Stored PROVE \E p \in valid : plan.order[p] = e
    <3>1. PICK p \in 1 .. Len(plan.order) : plan.order[p] = e
      BY <1>1, <1>2, OrderFacts
    <3> QED
      BY <1>2, <2>1, <3>1
  <2> HIDE DEF valid
  <2> QED
    BY <2>2, <2>3
<1>4. Cardinality(valid) = n
  <2>1. valid \in SUBSET (1 .. Len(plan.order))
    BY <1>1, OrderFacts
  <2>2. Cardinality({plan.order[p] : p \in valid}) = Cardinality(valid)
    BY <1>1, <2>1, PositionsAndEvents
  <2> QED
    BY <1>3, <2>2
<1>5. \A i \in 1 .. n : Arrivals(TheRun)[i] = PlannedArrivals(plan)[i]
  BY <1>1, RowsInPlannedOrder
<1>6. /\ DOMAIN Arrivals(TheRun) = 1 .. n
      /\ Arrivals(TheRun) = [i \in DOMAIN Arrivals(TheRun) |-> Arrivals(TheRun)[i]]
  BY <1>2 DEF Arrivals
<1>7. /\ DOMAIN PlannedArrivals(plan) = 1 .. n
      /\ PlannedArrivals(plan) = [i \in DOMAIN PlannedArrivals(plan) |-> PlannedArrivals(plan)[i]]
  BY <1>4 DEF PlannedArrivals
<1> HIDE DEF n, valid
<1> QED
  BY <1>5, <1>6, <1>7

\* A non-empty set of positions has a first one.
LEMMA FirstPosition ==
  ASSUME NEW S \in SUBSET Nat, S # {}
  PROVE  \E i \in S : \A j \in S : i <= j
<1> DEFINE Less == OpToRel(<, Nat)
<1>1. IsWellFoundedOn(Less, Nat)
  BY NatLessThanWellFounded, Zenon
<1>2. PICK i \in S : \A j \in S : <<j, i>> \notin Less
  <2> HIDE DEF Less
  <2> QED
    BY <1>1, WFMin
<1>3. ASSUME NEW j \in S PROVE i <= j
  <2>1. <<j, i>> \in Nat \X Nat /\ <<j, i>>[1] = j /\ <<j, i>>[2] = i
    OBVIOUS
  <2>2. ~(j < i)
    BY <1>2, <2>1 DEF OpToRel
  <2> QED
    BY <2>2
<1> QED
  BY <1>3

LEMMA ReconciledDelays ==
  ASSUME ReconciledRun, Undisturbed, NEW e \in plan.delayed
  PROVE  DelayObserved(TheRun, e)
<1>1. /\ AttemptsFit /\ DelaysFit /\ ClientInv /\ Typing
  BY DEF ReconciledRun, ProtocolInv, EvidenceFits
<1>2. AttemptsOf(TheRun) = Positions /\ Positions \subseteq Nat
  BY <1>1 DEF AttemptsFit, AttemptsOf, Positions
<1>3. Persisted(e) /\ e \in Event
  <2>1. plan \in Plan
    BY <1>1, PlanFacts DEF Typing
  <2>2. e \in Manifest[TheRun] /\ e \notin plan.invalid
    BY <2>1, PlanAssumption, RunnerAssumption
  <2>3. e \in Stored
    BY <2>2, ReconciledCounts
  <2> QED
    BY <2>3 DEF Stored
<1> DEFINE accepted == {i \in Positions : attempts[i].event = e /\ attempts[i].outcome = "accepted"}
           tried == {i \in Positions : attempts[i].event = e}
<1>4. tried # {}
  <2>1. Cardinality(accepted) = 1
    BY <1>1, <1>3 DEF ClientInv, SafetyInv, OneAcceptedAttempt
  <2>2. accepted # {}
    <3> HIDE DEF accepted
    <3> QED
      BY <2>1, FS_EmptySet
  <2> QED
    BY <2>2
<1>5. PICK i \in tried : \A j \in tried : i <= j
  <2>1. tried \in SUBSET Nat
    BY <1>2
  <2> HIDE DEF tried
  <2> QED
    BY <1>4, <2>1, FirstPosition
<1>6. PICK t \in HeldOn(e, attempts[i].conn), u \in TimesOf("received", TheRun, i) : t < u
  BY <1>1, <1>5 DEF DelaysFit
<1>7. t \in TimesOf("delay_injected", TheRun, e) /\ timeline[t].conn = attempts[i].conn
  BY <1>6 DEF HeldOn
<1> QED
  BY <1>2, <1>5, <1>6, <1>7 DEF DelayObserved

\* The reconnect the verdict looks for is the one that the runner marked.
LEMMA ReconciledReconnect ==
  ASSUME ReconciledRun, plan.disconnect # None,
         NEW forced, NEW back, NEW recovery, NEW w,
         w = [forced |-> forced, back |-> back, recovery |-> recovery],
         ForcedTimes = {forced}, RecoveryTimes = {recovery},
         ForcedRight(forced), RecoveredRight(forced, recovery),
         back \in TimesAt("reconnected", TheRun, timeline[recovery].conn),
         forced < back, back < recovery
  PROVE  /\ w \in Reconnects(TheRun, plan.disconnect)
         /\ TargetCorrelated(TheRun, plan.disconnect)
<1>1. ReconnectsFit /\ Typing
  BY DEF ReconciledRun, ProtocolInv, EvidenceFits
<1>2. DOMAIN timeline \subseteq Nat
  BY <1>1 DEF Typing, RunTypeOK
<1>3. forced \in Nat /\ back \in Nat /\ recovery \in Nat
  BY <1>2 DEF ForcedTimes, RecoveryTimes, TimesAt, Times
<1>4. timeline[forced].of = plan.disconnect /\ timeline[recovery].of = plan.disconnect
  BY DEF ForcedRight, RecoveredRight
<1>5. Forced(TheRun, plan.disconnect) = {forced} /\ Recovered(TheRun, plan.disconnect) = {recovery}
  BY <1>4 DEF Forced, Recovered, TimesOf, ForcedTimes, RecoveryTimes
<1>6. Cardinality(Forced(TheRun, plan.disconnect)) = 1
  BY <1>5, FS_Singleton
<1>7. {t \in Recovered(TheRun, plan.disconnect) : t > forced} = {recovery}
  BY <1>3, <1>5
<1>8. {t \in TimesAt("reconnected", TheRun, timeline[recovery].conn) :
         forced < t /\ t < recovery} = {back}
  BY <1>1 DEF ReconnectsFit, TimesAt
<1>9. w \in [forced : Forced(TheRun, plan.disconnect), back : Times("reconnected", TheRun),
             recovery : Recovered(TheRun, plan.disconnect)]
  BY <1>5 DEF TimesAt
<1>10. w \in Reconnects(TheRun, plan.disconnect)
  BY <1>6, <1>7, <1>8, <1>9 DEF Reconnects
<1>11. TargetCorrelated(TheRun, plan.disconnect)
  BY <1>4 DEF TargetCorrelated, ForcedTimes, RecoveryTimes
<1> QED
  BY <1>10, <1>11

\* The target is judged once over a socket, so an interval that has it has it once.
LEMMA TargetWithin ==
  ASSUME ReconciledRun, plan.disconnect # None, NEW c \in Conn, NEW outcome, NEW first, NEW last,
         AttemptsWithin(TheRun, plan.disconnect, c, outcome, first, last) # {}
  PROVE  Cardinality(AttemptsWithin(TheRun, plan.disconnect, c, outcome, first, last)) = 1
<1> DEFINE within == AttemptsWithin(TheRun, plan.disconnect, c, outcome, first, last)
<1>1. TargetOnce
  BY DEF ReconciledRun, EvidenceFits
<1>2. within \subseteq TargetOn(c)
  BY DEF AttemptsWithin, TargetOn, AttemptsOf
<1>3. PICK i : i \in within
  OBVIOUS
<1> HIDE DEF within
<1>4. within = {i}
  BY <1>1, <1>2, <1>3 DEF TargetOnce
<1>5. Cardinality(within) = 1
  BY <1>4, FS_Singleton
<1> QED
  BY <1>5 DEF within

\* A reconnect that does not pass was handed over out of order or marked late.
LEMMA ReconciledReconnects ==
  ASSUME ReconciledRun, ~UnorderedHandover, ~LateMark
  PROVE  ReconnectPassed(TheRun)
<1> SUFFICES ASSUME plan.disconnect # None PROVE ReconnectPassed(TheRun)
  BY DEF ReconnectPassed, plan
<1>1. /\ MarkersFit /\ CountersFit /\ Typing /\ at = "done" /\ Reconciled /\ losses \in Nat
  BY DEF ReconciledRun, ProtocolInv, EvidenceFits, Typing, RunTypeOK
<1>2. forcedReconnects = 1 /\ retries[TheRun] >= 1 /\ ~Resuming
  <2>1. forcedReconnects \in {0, 1} /\ forcedReconnects >= 1
    BY <1>1 DEF Reconciled, Typing, RunTypeOK
  <2> QED
    BY <1>1, <2>1 DEF Reconciled, CountersFit, Resuming
<1>3. PICK forced \in ForcedTimes :
        /\ ForcedTimes = {forced} /\ ForcedRight(forced)
        /\ \E recovery \in RecoveryTimes :
             RecoveryTimes = {recovery} /\ RecoveredRight(forced, recovery)
  BY <1>1, <1>2 DEF MarkersFit
<1>4. PICK recovery \in RecoveryTimes :
        RecoveryTimes = {recovery} /\ RecoveredRight(forced, recovery)
  BY <1>3
<1>5. PICK back \in TimesAt("reconnected", TheRun, timeline[recovery].conn) :
        forced < back /\ back < recovery
  BY <1>4 DEF RecoveredRight
<1>6. PICK w : w = [forced |-> forced, back |-> back, recovery |-> recovery]
  OBVIOUS
<1>7. /\ w \in Reconnects(TheRun, plan.disconnect)
      /\ TargetCorrelated(TheRun, plan.disconnect)
  BY <1>3, <1>4, <1>5, <1>6, ReconciledReconnect
<1>8. PICK old, new : old = timeline[w.forced].conn /\ new = timeline[w.back].conn
  OBVIOUS
<1>9. /\ old \in Conn /\ new \in Conn
      /\ w.forced = forced /\ w.back = back /\ w.recovery = recovery
      /\ new = timeline[recovery].conn
  <2>1. forced \in DOMAIN timeline /\ back \in DOMAIN timeline
    BY <1>5 DEF ForcedTimes, TimesAt, Times
  <2>2. timeline[forced] \in Entries /\ timeline[back] \in Entries
    BY <1>1, <2>1 DEF Typing, RunTypeOK
  <2>3. timeline[forced].conn \in Conn /\ timeline[back].conn \in Conn
    BY <2>2 DEF Entries
  <2>4. timeline[back].conn = timeline[recovery].conn
    BY <1>5 DEF TimesAt
  <2> QED
    BY <1>6, <1>8, <2>3, <2>4
<1>10. TransportCorrelated(TheRun, w)
  <2>1. old # new
    BY <1>4, <1>8, <1>9 DEF RecoveredRight
  <2>2. PICK closed \in TimesAt("disconnected", TheRun, old), again \in TimesAt("connected", TheRun, new) :
          ~(closed > again) /\ ~(again > w.back) /\ ~(closed < w.forced /\ losses > 0)
    BY <1>7, <1>8 DEF UnorderedHandover
  <2>3. PICK opened \in TimesAt("connected", TheRun, old) : opened < forced
    BY <1>3, <1>8, <1>9 DEF ForcedRight
  <2>4. closed < forced => losses > 0
    BY <1>3, <1>8, <1>9 DEF ForcedRight
  <2>5. closed \in Nat /\ again \in Nat /\ opened \in Nat /\ forced \in Nat /\ back \in Nat
    <3>1. DOMAIN timeline \subseteq Nat
      BY <1>1 DEF Typing, RunTypeOK
    <3> QED
      BY <1>5, <2>2, <2>3, <3>1 DEF TimesAt, Times, ForcedTimes
  <2>6. opened <= w.forced /\ w.forced <= closed /\ closed <= again /\ again <= w.back
    BY <1>9, <2>2, <2>3, <2>4, <2>5
  <2> QED
    BY <1>8, <2>1, <2>6 DEF TransportCorrelated
<1>11. AttemptPath(TheRun, plan.disconnect, w)
  <2>1. AttemptsWithin(TheRun, plan.disconnect, old, "accepted", 1, w.forced) # {}
    BY <1>3, <1>8, <1>9 DEF ForcedRight
  <2>2. AttemptsWithin(TheRun, plan.disconnect, new, "duplicate", w.back, w.recovery) # {}
    BY <1>7, <1>8 DEF LateMark
  <2>3. /\ Cardinality(AttemptsWithin(TheRun, plan.disconnect, old, "accepted", 1, w.forced)) = 1
        /\ Cardinality(AttemptsWithin(TheRun, plan.disconnect, new, "duplicate",
                                      w.back, w.recovery)) = 1
    BY <1>9, <2>1, <2>2, TargetWithin
  <2> QED
    BY <1>8, <2>3 DEF AttemptPath
<1> QED
  BY <1>2, <1>7, <1>10, <1>11 DEF ReconnectPassed, plan

\* The names that a failure can have.
LEMMA FailureNames ==
  ASSUME NEW r
  PROVE  /\ Cardinality(EventsOf(r)) = ExpectedUnique(r) /\ report[r] = ExpectedUnique(r)
              /\ (\A e \in EventsOf(r) : effects[e].failure = 0) =>
              CountFailures(r) \subseteq {"acknowledged", "processed", "rendered"}
         /\ Outcome(r, "conflict") = {} /\ Operational(r) = {}
              /\ config[r].duplicate \subseteq Duplicated(r)
              /\ Arrivals(r) = PlannedArrivals(config[r]) =>
              DeliveryFailures(r) \subseteq {"rejections", "delays", "reconnect"}
         /\ "rejections" \in Failures(r) =>
              Cardinality(Outcome(r, "rejected") \ Operational(r)) # Cardinality(config[r].invalid)
         /\ "delays" \in Failures(r) => \E e \in config[r].delayed : ~DelayObserved(r, e)
         /\ "reconnect" \in Failures(r) => ~ReconnectPassed(r)
BY DEF CountFailures, DeliveryFailures, Failures, Failing

LEMMA ReconciledFailures ==
  ASSUME ReconciledRun
  PROVE  /\ Failures(TheRun) \subseteq {"acknowledged", "processed", "rendered", "rejections",
                                        "delays", "reconnect"}
         /\ Failures(TheRun) \cap {"rejections", "delays"} # {} => retryCount > forcedReconnects
         /\ "reconnect" \in Failures(TheRun) => UnorderedHandover \/ LateMark
<1>1. CountFailures(TheRun) \subseteq {"acknowledged", "processed", "rendered"}
  BY ReconciledCounts, FailureNames
<1>2. DeliveryFailures(TheRun) \subseteq {"rejections", "delays", "reconnect"}
  BY ReconciledDeliveries, ReconciledOrder, FailureNames DEF plan
<1>3. ASSUME Undisturbed PROVE "rejections" \notin Failures(TheRun)
  BY <1>3, ReconciledDeliveries, FailureNames DEF plan
<1>4. ASSUME Undisturbed PROVE "delays" \notin Failures(TheRun)
  BY <1>4, ReconciledDelays, FailureNames DEF plan
<1>5. ~Undisturbed => retryCount > forcedReconnects
  BY ReconciledDeliveries DEF Undisturbed
<1>6. "reconnect" \in Failures(TheRun) => UnorderedHandover \/ LateMark
  BY ReconciledReconnects, FailureNames
<1> QED
  BY <1>1, <1>2, <1>3, <1>4, <1>5, <1>6 DEF Failures

\* A run that its client reconciled, with nothing crashed or rolled back, fails for no
\* other reason than the races named: a retry, a slow handover of the forced socket, a
\* mark after its reply was read, or work that is not done yet.  Neither the order of
\* arrival, the counts, the duplicates nor the runner's markers ever fail it.
THEOREM FailuresExplained == RunSpec => []FailuresAreExplained
<1>1. EvidenceInv /\ ArrivalEvidence => FailuresAreExplained
  <2> SUFFICES ASSUME EvidenceInv, ArrivalEvidence, at = "done", Reconciled,
                      crashes = 0, faults = 0
               PROVE  LET failures == Failures(TheRun) IN
                      /\ failures \subseteq {"acknowledged", "processed", "rendered",
                                             "rejections", "delays", "reconnect"}
                      /\ failures \cap {"rejections", "delays"} # {} => retryCount > forcedReconnects
                      /\ "reconnect" \in failures => UnorderedHandover \/ LateMark
    BY DEF FailuresAreExplained
  <2>1. ReconciledRun
    BY DEF EvidenceInv, Calm, ReconciledRun
  <2> QED
    BY <2>1, ReconciledFailures
<1>2. RunSpec => []ArrivalEvidence
  BY CompositionKeepsIngestion, ArrivalsAreExact, PTL DEF ServerRefines
<1> QED
  BY <1>1, <1>2, EvidenceInvariant, PTL

=============================================================================
