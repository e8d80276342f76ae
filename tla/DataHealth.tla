----------------------------- MODULE DataHealth -----------------------------
(***************************************************************************)
(* The data centre's health monitor and review engine, per data source.    *)
(* (floor_2_datacenter/review/, output/metadata_sidechannel_builder.py)    *)
(*                                                                         *)
(* The monitor is told of latencies, heartbeats and reconnects, scores the *)
(* source and reports each kind of event once; the engine keeps the events *)
(* and condenses them to a signal.  Scores are in hundredths.              *)
(***************************************************************************)
EXTENDS Integers, FiniteSets, SequencesExt

CONSTANTS
  Sources,         \* sources that deliver packets
  None,            \* no time
  Latencies,       \* latencies that are measured, in ms
  Samples,         \* latency samples that are kept
  HeartbeatWarning, HeartbeatCritical,    \* ages, in ticks of the clock
  ReconnectWindow, ReconnectThreshold

ASSUME DataHealthAssumption ==
  /\ None \notin Int
  /\ Latencies \subseteq Nat /\ Samples \in Nat \ {0}
  /\ HeartbeatWarning \in Nat /\ HeartbeatCritical \in Nat
  /\ HeartbeatWarning < HeartbeatCritical
  /\ ReconnectWindow \in Nat /\ ReconnectThreshold \in Nat \ {0}

VARIABLES
  now,      \* the clock
  health,   \* _source_health
  events,   \* the engine's _events; the monitor reports each type once per source
  cleared   \* history: sources whose events were cleared

LatencyThreshold == 200
LatencyCritical == 500

\* _get_or_create
NewHealth == [samples |-> <<>>, heartbeat |-> None, reconnects |-> <<>>,
              state |-> "HEALTHY", emitted |-> {}]

-----------------------------------------------------------------------------
(* The score. *)

LastOf(s, n) == SubSeq(s, IF Len(s) > n THEN Len(s) - n + 1 ELSE 1, Len(s))

Total(s) == FoldSeq(LAMBDA x, y : x + y, 0, s)

\* The average of the samples is above, or at least, a limit.
LatencyAbove(h, limit) == h.samples # <<>> /\ Total(h.samples) > limit * Len(h.samples)
LatencyAtLeast(h, limit) == h.samples # <<>> /\ Total(h.samples) >= limit * Len(h.samples)

\* get_heartbeat_age
HeartbeatOlder(h, age) == h.heartbeat # None /\ now - h.heartbeat > age

\* _get_reconnect_count
Recent(h) == SelectSeq(h.reconnects, LAMBDA t : t >= now - ReconnectWindow)

\* get_health_score
HealthScore(h) ==
  LET latency == IF LatencyAbove(h, LatencyCritical) THEN 40
                 ELSE IF LatencyAbove(h, LatencyThreshold) THEN 20 ELSE 0
      silence == IF HeartbeatOlder(h, HeartbeatCritical) THEN 30
                 ELSE IF HeartbeatOlder(h, HeartbeatWarning) THEN 15 ELSE 0
      reconnects == IF Len(Recent(h)) >= ReconnectThreshold THEN 30 ELSE 10 * Len(Recent(h))
  IN IF latency + silence + reconnects > 100 THEN 0
     ELSE 100 - latency - silence - reconnects

\* _update_state's classes
StateOf(score) ==
  IF score < 40 THEN "CRITICAL" ELSE IF score < 70 THEN "DEGRADED" ELSE "HEALTHY"

-----------------------------------------------------------------------------
(* Events. *)

Event(s, type, severity) == [source |-> s, type |-> type, severity |-> severity]

\* _update_state's event
StateEvent(state) ==
  [type |-> CASE state = "CRITICAL" -> "state_critical" [] state = "DEGRADED" -> "state_degraded"
              [] state = "HEALTHY" -> "state_healthy",
   severity |-> IF state = "CRITICAL" THEN "CRITICAL" ELSE "SEVERE"]

\* Fault: the old state is read after the new one is set, so no transition is seen.
ReportAlarms(s, h, alarms) ==
  LET fresh == {a \in alarms : a.type \notin h.emitted}
  IN /\ health' = [health EXCEPT ![s] = [h EXCEPT !.state = StateOf(HealthScore(h)),
                                            !.emitted = @ \cup {a.type : a \in fresh}]]
     /\ events' = events \cup {Event(s, a.type, a.severity) : a \in fresh}
     /\ UNCHANGED <<now, cleared>>

\* What a record_* call reports, and then _update_state: of each type only the first.
Report(s, h, alarms) ==
  LET new == StateOf(HealthScore(h))
      all == alarms \cup (IF new = h.state THEN {} ELSE {StateEvent(new)})
      fresh == {a \in all : a.type \notin h.emitted}
  IN /\ health' = [health EXCEPT ![s] = [h EXCEPT !.state = new,
                                            !.emitted = @ \cup {a.type : a \in fresh}]]
     /\ events' = events \cup {Event(s, a.type, a.severity) : a \in fresh}
     /\ UNCHANGED <<now, cleared>>

Alarm(type, severity) == {[type |-> type, severity |-> severity]}

RecordLatency(s, ms) ==
  LET h == [health[s] EXCEPT !.samples = LastOf(Append(@, ms), Samples)]
  IN Report(s, h, IF LatencyAtLeast(h, LatencyCritical) THEN Alarm("latency_critical", "CRITICAL")
                  ELSE IF LatencyAtLeast(h, LatencyThreshold) THEN Alarm("latency_warning", "SEVERE")
                  ELSE {})

\* record_heartbeat asks for the age of the heartbeat it has just noted, so only a
\* heartbeat with an old timestamp can raise its alarms.
RecordHeartbeat(s, at) ==
  LET h == [health[s] EXCEPT !.heartbeat = at]
  IN Report(s, h, IF HeartbeatOlder(h, HeartbeatCritical) THEN Alarm("heartbeat_missed", "CRITICAL")
                  ELSE IF HeartbeatOlder(h, HeartbeatWarning) THEN Alarm("heartbeat_warning", "SEVERE")
                  ELSE {})

RecordReconnect(s) ==
  LET h == [health[s] EXCEPT !.reconnects = Recent([reconnects |-> Append(@, now)])]
  IN Report(s, h, IF Len(h.reconnects) >= ReconnectThreshold
                  THEN Alarm("reconnect_storm", "CRITICAL") ELSE {})

\* clear_events: the monitor still takes the types for reported
ClearEvents(s) ==
  /\ events' = {e \in events : e.source # s}
  /\ cleared' = cleared \cup {s}
  /\ UNCHANGED <<now, health>>

-----------------------------------------------------------------------------
(* What the engine makes of the events. *)

EventsOf(s) == {e \in events : e.source = s}

\* How many of the events are of a severity.
CountOf(es, severity) == Cardinality({e \in es : e.severity = severity})

Weight(es) == CountOf(es, "CAUTION") + 2 * CountOf(es, "SEVERE") + 3 * CountOf(es, "CRITICAL")

\* compute_signal: one critical event decides before the weights are looked at
ComputeSignal(es) ==
  LET critical == CountOf(es, "CRITICAL") IN
  IF critical >= 2 THEN "CRITICAL"
  ELSE IF critical = 1 THEN "DEGRADED"
  ELSE IF Weight(es) >= 5 THEN "CRITICAL"
  ELSE IF Weight(es) >= 3 THEN "DEGRADED"
  ELSE IF Weight(es) >= 1 THEN "CAUTION"
  ELSE "GOOD"

\* _build_quality_facts: the worst state of all sources
OverallState ==
  LET states == {health[s].state : s \in Sources}
  IN IF "CRITICAL" \in states THEN "CRITICAL"
     ELSE IF "DEGRADED" \in states THEN "DEGRADED" ELSE "HEALTHY"

HealthInit ==
  /\ now = 0
  /\ health = [s \in Sources |-> NewHealth]
  /\ events = {}
  /\ cleared = {}

HealthCall ==
  \E s \in Sources :
    \/ \E ms \in Latencies : RecordLatency(s, ms)
    \/ \E at \in {0, now} : RecordHeartbeat(s, at)
    \/ RecordReconnect(s)
    \/ ClearEvents(s)

-----------------------------------------------------------------------------

\* A source in a bad state shows in its review signal as long as nobody clears the
\* events, however often it recovers and falls back and whatever was reported
\* before; the same for all sources together.  (_update_state, _emit_if_new,
\* compute_signal, _build_quality_facts)
BadStateIsSignalled ==
  \A s \in Sources \ cleared :
    /\ health[s].state = "CRITICAL" => ComputeSignal(EventsOf(s)) \in {"DEGRADED", "CRITICAL"}
    /\ health[s].state = "DEGRADED" => ComputeSignal(EventsOf(s)) # "GOOD"
    /\ cleared = {} /\ OverallState = "CRITICAL" => ComputeSignal(events) \in {"DEGRADED", "CRITICAL"}

=============================================================================
