------------------------------- MODULE Verdict -------------------------------
(***************************************************************************)
(* What analytics.py makes of a run's evidence: the overview with its      *)
(* verdict and the reconnect summary, as operators over the tables of      *)
(* Ingestion, the connection rows and the render acknowledgments.          *)
(*                                                                         *)
(* Timestamps are taken on the one event loop that also stores them, so    *)
(* only their order matters: timeline is the stored timestamps in order.   *)
(* A render acknowledgment is all that is seen here of the overlay side.   *)
(***************************************************************************)
EXTENDS Ingestion, SequencesExt

CONSTANTS Plan        \* the plans (config_json) a run may be created with

None == 0             \* no reconnect target

\* An event is named by its source sequence.
ASSUME SequenceAssumption == Event \subseteq Nat \ {0} /\ \A e \in Event : SourceSequence[e] = e
\* build_scenario's plans: the target, the duplicates and the delayed events are valid
\* ones (ScenarioPlan!FaultsDoNotMeet), and every event is sent once in the order.
ASSUME PlanAssumption ==
  \A p \in Plan :
    /\ p \in [invalid : SUBSET Event, duplicate : SUBSET Event, delayed : SUBSET Event,
              disconnect : Event \cup {None}, order : Seq(Event)]
    /\ p.invalid \cap (p.duplicate \cup p.delayed \cup {p.disconnect}) = {}
    /\ p.disconnect \notin p.duplicate \cup p.delayed
    /\ \A i, j \in DOMAIN p.order : p.order[i] = p.order[j] => i = j

VARIABLES
  config,    \* runs.config_json of each run
  retries,   \* runs.retry_count, as the completion request reported it
  timeline,  \* connection_events, received_at and response_sent_at in time order
  overlays,  \* runs with a row in overlay_sessions
  rendered   \* events with a row in render_acknowledgments

verdictVars == <<config, retries, timeline, overlays, rendered>>

ServerKinds    == {"connected", "disconnected"}
\* SUBMITTED_CONNECTION_EVENT_KINDS: no submitted row can pass for the server's.
SubmittedKinds == {"forced_disconnect", "reconnected", "recovery_complete", "delay_injected"}
AttemptKinds   == {"received", "answered"}
\* "of" is the event a marker's detail names, or the attempt a timestamp belongs to.
Entries == [kind : ServerKinds \cup SubmittedKinds \cup AttemptKinds,
            run : Run, conn : Conn, of : Nat]
Entry(kind, r, c, of) == [kind |-> kind, run |-> r, conn |-> c, of |-> of]

VerdictInit ==
  /\ config \in [Run -> Plan]
  /\ retries = [r \in Run |-> 0]
  /\ timeline = <<>>
  /\ overlays = {}
  /\ rendered = {}

\* The times at which r stored such a row or timestamp.
Times(kind, r)       == {t \in DOMAIN timeline : timeline[t].kind = kind /\ timeline[t].run = r}
TimesAt(kind, r, c)  == {t \in Times(kind, r) : timeline[t].conn = c}
TimesOf(kind, r, of) == {t \in Times(kind, r) : timeline[t].of = of}

-----------------------------------------------------------------------------
(* Rows stored beside Ingestion's tables *)

\* record_submitted_connection_event: a client's marker, while the run is open.
RecordMarker(kind, r, c, e) ==
  /\ LoopFree
  /\ runs[r] = "running"
  /\ kind \in SubmittedKinds
  /\ timeline' = Append(timeline, Entry(kind, r, c, e))
  /\ UNCHANGED <<config, retries, overlays, rendered>>
  /\ UNCHANGED vars

\* A document opens a session; rows of a session are never deleted.
OpenOverlay(r) ==
  /\ LoopFree
  /\ runs[r] # "absent"
  /\ overlays' = overlays \cup {r}
  /\ UNCHANGED <<config, retries, timeline, rendered>>
  /\ UNCHANGED vars

\* record_render_ack: of a processed event, also after the run's completion.
RenderEvent(e) ==
  /\ LoopFree
  /\ Persisted(e)
  /\ events[e].processed
  /\ events[e].run \in overlays
  /\ rendered' = rendered \cup {e}
  /\ UNCHANGED <<config, retries, timeline, overlays>>
  /\ UNCHANGED vars

\* The verdict compares times only for a reconnect target and for delayed events.
Timed(r, e) ==
  \/ e \in config[r].delayed
  \/ e # None /\ e = config[r].disconnect

\* What a step of the server adds to the timeline: a row of its own, the receipt of
\* the attempt it stores, the time of the reply it marks.  No step does two of these.
Stamps ==
  LET received == {i \in Positions' : i \notin Positions /\ Timed(attempts'[i].run, attempts'[i].event)}
      answered == {i \in Positions : /\ attempts'[i].replied /\ ~attempts[i].replied
                                     /\ attempts[i].event = config[attempts[i].run].disconnect}
      socketed == {c \in Conn : evidence'[c] # evidence[c] /\ config[bound[c]].disconnect # None}
  IN {Entry("received", attempts'[i].run, attempts'[i].conn, i) : i \in received}
       \cup {Entry("answered", attempts[i].run, attempts[i].conn, i) : i \in answered}
       \cup {Entry(Last(evidence'[c]), bound'[c], c, 0) : c \in socketed}

Stamp ==
  /\ Stamps = {} => UNCHANGED timeline
  /\ Stamps # {} => \E entry \in Stamps : timeline' = Append(timeline, entry)

-----------------------------------------------------------------------------
(* AnalyticsService._reconnect_summary, for a run r with target e *)

Forced(r, e)   == TimesOf("forced_disconnect", r, e)
Recovered(r, e) == TimesOf("recovery_complete", r, e)

\* The one forced disconnect, the one recovery after it, and the one reconnect
\* between them on the recovery's connection.
Reconnects(r, e) ==
  {w \in [forced : Forced(r, e), back : Times("reconnected", r), recovery : Recovered(r, e)] :
     /\ Cardinality(Forced(r, e)) = 1
     /\ {t \in Recovered(r, e) : t > w.forced} = {w.recovery}
     /\ {t \in TimesAt("reconnected", r, timeline[w.recovery].conn) :
           w.forced < t /\ t < w.recovery} = {w.back}}

\* The server saw the old socket end before the new one began.
TransportCorrelated(r, w) ==
  LET old == timeline[w.forced].conn
      new == timeline[w.back].conn
  IN /\ old # new
     /\ \E opened \in TimesAt("connected", r, old), closed \in TimesAt("disconnected", r, old),
           again \in TimesAt("connected", r, new) :
          opened <= w.forced /\ w.forced <= closed /\ closed <= again /\ again <= w.back

TargetCorrelated(r, e) ==
  /\ {timeline[t].of : t \in Times("forced_disconnect", r)} = {e}
  /\ {timeline[t].of : t \in Times("recovery_complete", r)} = {e}

\* The attempts at e over connection c, of this outcome, received and answered in
\* the interval.
AttemptsWithin(r, e, c, outcome, first, last) ==
  {i \in AttemptsOf(r) :
     /\ attempts[i].event = e /\ attempts[i].conn = c /\ attempts[i].outcome = outcome
     /\ \E t \in TimesOf("received", r, i), u \in TimesOf("answered", r, i) :
          first <= t /\ t <= u /\ u <= last}

\* Accepted over the forced transport, a duplicate over the reconnected one.
AttemptPath(r, e, w) ==
  /\ Cardinality(AttemptsWithin(r, e, timeline[w.forced].conn, "accepted", 1, w.forced)) = 1
  /\ Cardinality(AttemptsWithin(r, e, timeline[w.back].conn, "duplicate",
                                w.back, w.recovery)) = 1

-----------------------------------------------------------------------------
(* AnalyticsService.overview *)

Outcome(r, outcome) == {i \in AttemptsOf(r) : attempts[i].outcome = outcome}
Operational(r)      == {i \in Outcome(r, "rejected") : attempts[i].category = "internal_error"}
Duplicated(r)       == {attempts[i].event : i \in Outcome(r, "duplicate")}
ExpectedUnique(r)   == Cardinality(Manifest[r]) - Cardinality(config[r].invalid)

\* The canonical rows of a run by their arrival index.
Arrivals(r) ==
  [i \in 1 .. Cardinality(EventsOf(r)) |-> CHOOSE e \in EventsOf(r) : events[e].arrival = i]

ReconnectPassed(r) ==
  LET e == config[r].disconnect IN
  e # None =>
    /\ retries[r] >= 1
    /\ TargetCorrelated(r, e)
    /\ \E w \in Reconnects(r, e) : TransportCorrelated(r, w) /\ AttemptPath(r, e, w)

\* A marker for e, and e's first attempt after it on the same connection.  The sleep
\* between them is at least the configured one.
DelayObserved(r, e) ==
  \E t \in TimesOf("delay_injected", r, e), i \in AttemptsOf(r) :
    /\ attempts[i].event = e
    /\ \A j \in AttemptsOf(r) : attempts[j].event = e => i <= j
    /\ attempts[i].conn = timeline[t].conn
    /\ \E u \in TimesOf("received", r, i) : t < u

\* The order in which a plan's valid events have to arrive.
PlannedArrivals(p) ==
  LET valid == {i \in DOMAIN p.order : p.order[i] \notin p.invalid} IN
  [k \in 1 .. Cardinality(valid) |->
     p.order[CHOOSE i \in valid : Cardinality({j \in valid : j <= i}) = k]]

Failing(name, holds) == IF holds THEN {} ELSE {name}

\* The counters of runs, events and render acknowledgments that do not add up.
CountFailures(r) ==
  UNION {
    Failing("unique", Cardinality(EventsOf(r)) = ExpectedUnique(r)),
    Failing("client", report[r] = ExpectedUnique(r)),
    Failing("acknowledged", Cardinality({e \in EventsOf(r) : events[e].acked}) = ExpectedUnique(r)),
    Failing("processed", \A e \in EventsOf(r) : events[e].processed),
    Failing("processing", \A e \in EventsOf(r) : effects[e].failure = 0),
    Failing("rendered", Cardinality(EventsOf(r) \cap rendered)
                          = Cardinality({e \in EventsOf(r) : events[e].processed}))}

\* What is wrong with the deliveries, against the plan.
DeliveryFailures(r) ==
  UNION {
    Failing("conflicts", Outcome(r, "conflict") = {}),
    Failing("rejections", Cardinality(Outcome(r, "rejected") \ Operational(r))
                            = Cardinality(config[r].invalid)),
    Failing("operational", Operational(r) = {}),
    Failing("duplicates", config[r].duplicate \subseteq Duplicated(r)),
    Failing("order", Arrivals(r) = PlannedArrivals(config[r])),
    Failing("reconnect", ReconnectPassed(r)),
    Failing("delays", \A e \in config[r].delayed : DelayObserved(r, e))}

Failures(r) == CountFailures(r) \cup DeliveryFailures(r)

OverviewVerdict(r) ==
  IF runs[r] # "completed" THEN "running"
  ELSE IF r \notin overlays THEN "incomplete"
  ELSE IF Failures(r) = {} THEN "pass" ELSE "fail"

=============================================================================
