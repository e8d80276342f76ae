-------------------------- MODULE DataCentreProofs --------------------------
(* What the data centre's validation, its stage tracker, its streams and its  *)
(* health monitor keep true, for any packets, feeds, clocks and limits.       *)
EXTENDS DataCentre, FiniteSetTheorems, TLAPS

-----------------------------------------------------------------------------
(* The health monitor. *)

Bad == {"CRITICAL", "DEGRADED"}

HealthStates == Bad \cup {"HEALTHY"}

\* The event of a state of a source.
Sign(s, state) == Event(s, StateEvent(state).type, StateEvent(state).severity)

IsHealth(h) ==
  /\ {"state", "emitted"} \subseteq DOMAIN h
  /\ h.state \in HealthStates

\* A bad state has been reported, and what has been reported of a state is there
\* until it is cleared.
Signed ==
  /\ DOMAIN health = Sources
  /\ IsFiniteSet(events)
  /\ \A s \in Sources :
       /\ IsHealth(health[s])
       /\ health[s].state \in Bad => StateEvent(health[s].state).type \in health[s].emitted
       /\ s \notin cleared => \A state \in Bad :
            StateEvent(state).type \in health[s].emitted => Sign(s, state) \in events

LEMMA ScoreClasses == ASSUME NEW score PROVE StateOf(score) \in HealthStates
BY DEF StateOf, HealthStates, Bad

StateTypes == {"state_critical", "state_degraded", "state_healthy"}

LEMMA StateTypesDiffer ==
  /\ StateEvent("CRITICAL").type = "state_critical"
  /\ StateEvent("DEGRADED").type = "state_degraded"
  /\ StateEvent("HEALTHY").type = "state_healthy"
BY DEF StateEvent

\* _emit_if_new reports a bad state that it has not reported before, whatever other
\* alarm x comes with it.
LEMMA ReportSigns ==
  ASSUME Signed, NEW s \in Sources, NEW h, IsHealth(h),
         h.state = health[s].state, h.emitted = health[s].emitted,
         NEW x, x.type \notin StateTypes, NEW alarms \in SUBSET {x},
         Report(s, h, alarms)
  PROVE  Signed'
<1> DEFINE new == StateOf(HealthScore(h))
           all == alarms \cup (IF new = h.state THEN {} ELSE {StateEvent(new)})
           fresh == {a \in all : a.type \notin h.emitted}
           told == h.emitted \cup {a.type : a \in fresh}
           record == [h EXCEPT !.state = new, !.emitted = @ \cup {a.type : a \in fresh}]
           more == {Event(s, a.type, a.severity) : a \in fresh}
<1>1. /\ health' = [health EXCEPT ![s] = record]
      /\ events' = events \cup more
      /\ cleared' = cleared
  BY DEF Report
<1>2. /\ DOMAIN health' = Sources /\ health'[s] = record
      /\ \A t \in Sources \ {s} : health'[t] = health[t]
  BY <1>1 DEF Signed
<1>3. new \in HealthStates
  BY ScoreClasses
<1> HIDE DEF new
<1>4. record.state = new /\ record.emitted = told /\ IsHealth(record)
  <2> DEFINE types == {a.type : a \in fresh}
  <2> HIDE DEF types, fresh
  <2>1. record = [h EXCEPT !.state = new, !.emitted = h.emitted \cup types]
    BY DEF types
  <2>2. told = h.emitted \cup types
    BY DEF types
  <2> HIDE DEF record
  <2>3. /\ DOMAIN record = DOMAIN h
        /\ record.state = new /\ record.emitted = h.emitted \cup types
    BY <2>1 DEF IsHealth
  <2> HIDE DEF told
  <2> QED BY <1>3, <2>2, <2>3 DEF IsHealth
<1> HIDE DEF record
<1>5. IsFiniteSet(events')
  <2>1. more \subseteq {Event(s, x.type, x.severity)} \cup {Sign(s, new)}
    <3> SUFFICES ASSUME NEW a \in fresh
                 PROVE  Event(s, a.type, a.severity) \in {Event(s, x.type, x.severity)} \cup {Sign(s, new)}
      OBVIOUS
    <3>1. a \in alarms \/ a \in (IF new = h.state THEN {} ELSE {StateEvent(new)})
      BY Zenon
    <3>2. a = x \/ a = StateEvent(new)
      BY <3>1
    <3> QED BY <3>2, Zenon DEF Sign
  <2>2. IsFiniteSet({Event(s, x.type, x.severity)} \cup {Sign(s, new)})
    <3>1. \A e, f : IsFiniteSet({e} \cup {f})
      BY FS_Singleton, FS_AddElement
    <3> QED BY <3>1, Zenon
  <2>3. IsFiniteSet(more)
    BY <2>1, <2>2, FS_Subset
  <2> QED BY <1>1, <2>3, FS_Union DEF Signed
<1>6. new # h.state => StateEvent(new) \in all
  OBVIOUS
<1>7. ASSUME new \in Bad PROVE StateEvent(new).type \in told
  <2>1. CASE new = h.state
    BY <1>7, <2>1 DEF Signed
  <2>2. CASE new # h.state
    BY <1>6, <2>2
  <2> QED BY <2>1, <2>2
<1>8. ASSUME s \notin cleared, NEW state \in Bad, StateEvent(state).type \in told
      PROVE  Sign(s, state) \in events'
  <2>1. CASE StateEvent(state).type \in h.emitted
    BY <1>1, <1>8, <2>1 DEF Signed
  <2>2. CASE StateEvent(state).type \notin h.emitted
    <3>1. PICK a \in fresh : a.type = StateEvent(state).type
      BY <1>8, <2>2
    <3>2. a # x
      BY <3>1, StateTypesDiffer DEF Bad, StateTypes
    <3>3. a = StateEvent(new)
      BY <3>2
    <3>4. new = state
      BY <1>3, <3>1, <3>3, StateTypesDiffer DEF Bad, HealthStates
    <3>5. Event(s, a.type, a.severity) \in more
      OBVIOUS
    <3> HIDE DEF more, fresh
    <3> QED BY <1>1, <3>3, <3>4, <3>5 DEF Sign
  <2> QED BY <2>1, <2>2
<1>9. events \subseteq events'
  BY <1>1
<1> HIDE DEF told, more, fresh, all
<1>10. ASSUME NEW t \in Sources
       PROVE  /\ IsHealth(health'[t])
              /\ health'[t].state \in Bad => StateEvent(health'[t].state).type \in health'[t].emitted
              /\ t \notin cleared' => \A state \in Bad :
                   StateEvent(state).type \in health'[t].emitted => Sign(t, state) \in events'
  <2>1. CASE t = s
    BY <1>1, <1>2, <1>4, <1>7, <1>8, <2>1
  <2>2. CASE t # s
    BY <1>1, <1>2, <1>9, <2>2 DEF Signed
  <2> QED BY <2>1, <2>2
<1> QED BY <1>2, <1>5, <1>10 DEF Signed

LEMMA HealthCallSigns ==
  ASSUME Signed, HealthCall
  PROVE  Signed'
<1> PICK s \in Sources :
      \/ \E ms \in Latencies : RecordLatency(s, ms)
      \/ \E at \in {0, now} : RecordHeartbeat(s, at)
      \/ RecordReconnect(s)
      \/ ClearEvents(s)
  BY DEF HealthCall
<1>0. IsHealth(health[s])
  BY DEF Signed
<1>1. ASSUME NEW ms \in Latencies, RecordLatency(s, ms) PROVE Signed'
  <2> DEFINE samples == LastOf(Append(health[s].samples, ms), Samples)
             h == [health[s] EXCEPT !.samples = samples]
             x == IF LatencyAtLeast(h, LatencyCritical)
                  THEN [type |-> "latency_critical", severity |-> "CRITICAL"]
                  ELSE [type |-> "latency_warning", severity |-> "SEVERE"]
             alarms == IF LatencyAtLeast(h, LatencyCritical) THEN Alarm("latency_critical", "CRITICAL")
                       ELSE IF LatencyAtLeast(h, LatencyThreshold) THEN Alarm("latency_warning", "SEVERE")
                       ELSE {}
  <2>1. Report(s, h, alarms)
    BY <1>1 DEF RecordLatency
  <2>2. x.type \notin StateTypes /\ alarms \in SUBSET {x}
    BY DEF Alarm, StateTypes
  <2>3. IsHealth(h) /\ h.state = health[s].state /\ h.emitted = health[s].emitted
    <3> HIDE DEF samples
    <3> QED BY <1>0 DEF IsHealth
  <2> HIDE DEF h, x, alarms
  <2> QED BY <2>1, <2>2, <2>3, ReportSigns
<1>2. ASSUME NEW at \in {0, now}, RecordHeartbeat(s, at) PROVE Signed'
  <2> DEFINE h == [health[s] EXCEPT !.heartbeat = at]
             x == IF HeartbeatOlder(h, HeartbeatCritical)
                  THEN [type |-> "heartbeat_missed", severity |-> "CRITICAL"]
                  ELSE [type |-> "heartbeat_warning", severity |-> "SEVERE"]
             alarms == IF HeartbeatOlder(h, HeartbeatCritical) THEN Alarm("heartbeat_missed", "CRITICAL")
                       ELSE IF HeartbeatOlder(h, HeartbeatWarning) THEN Alarm("heartbeat_warning", "SEVERE")
                       ELSE {}
  <2>1. Report(s, h, alarms)
    BY <1>2 DEF RecordHeartbeat
  <2>2. x.type \notin StateTypes /\ alarms \in SUBSET {x}
    BY DEF Alarm, StateTypes
  <2>3. IsHealth(h) /\ h.state = health[s].state /\ h.emitted = health[s].emitted
    BY <1>0 DEF IsHealth
  <2> HIDE DEF h, x, alarms
  <2> QED BY <2>1, <2>2, <2>3, ReportSigns
<1>3. ASSUME RecordReconnect(s) PROVE Signed'
  <2> DEFINE reconnects == Recent([reconnects |-> Append(health[s].reconnects, now)])
             h == [health[s] EXCEPT !.reconnects = reconnects]
             x == [type |-> "reconnect_storm", severity |-> "CRITICAL"]
             alarms == IF Len(h.reconnects) >= ReconnectThreshold
                       THEN Alarm("reconnect_storm", "CRITICAL") ELSE {}
  <2>1. Report(s, h, alarms)
    BY <1>3 DEF RecordReconnect
  <2>2. x.type \notin StateTypes /\ alarms \in SUBSET {x}
    BY DEF Alarm, StateTypes
  <2>3. IsHealth(h) /\ h.state = health[s].state /\ h.emitted = health[s].emitted
    <3> HIDE DEF reconnects
    <3> QED BY <1>0 DEF IsHealth
  <2> HIDE DEF h, x, alarms
  <2> QED BY <2>1, <2>2, <2>3, ReportSigns
<1>4. ASSUME ClearEvents(s) PROVE Signed'
  <2>1. /\ events' = {e \in events : e.source # s} /\ cleared' = cleared \cup {s}
        /\ health' = health
    BY <1>4 DEF ClearEvents
  <2>2. IsFiniteSet(events')
    BY <2>1, FS_Subset DEF Signed
  <2>3. ASSUME NEW t \in Sources, t \notin cleared', NEW state \in Bad,
               StateEvent(state).type \in health[t].emitted
        PROVE  Sign(t, state) \in events'
    <3>1. Sign(t, state) \in events /\ t # s
      BY <2>1, <2>3 DEF Signed
    <3>2. Sign(t, state).source = t
      BY DEF Sign, Event
    <3> QED BY <2>1, <3>1, <3>2
  <2> QED BY <2>1, <2>2, <2>3 DEF Signed
<1> QED BY <1>1, <1>2, <1>3, <1>4

\* A critical event makes the signal at least DEGRADED, any severe one not GOOD.
LEMMA EventsCount ==
  ASSUME NEW es, IsFiniteSet(es), NEW e \in es
  PROVE  /\ e.severity = "CRITICAL" => ComputeSignal(es) \in {"DEGRADED", "CRITICAL"}
         /\ e.severity = "SEVERE" => ComputeSignal(es) # "GOOD"
<1>1. ASSUME NEW severity
      PROVE  /\ CountOf(es, severity) \in Nat
             /\ e.severity = severity => CountOf(es, severity) >= 1
  <2> DEFINE some == {d \in es : d.severity = severity}
  <2>1. IsFiniteSet(some)
    BY FS_Subset
  <2>2. Cardinality(some) \in Nat /\ (Cardinality(some) = 0 <=> some = {})
    BY <2>1, FS_CardinalityType, FS_EmptySet
  <2> QED BY <2>2 DEF CountOf
<1>2. /\ CountOf(es, "CAUTION") \in Nat /\ CountOf(es, "SEVERE") \in Nat
      /\ CountOf(es, "CRITICAL") \in Nat
      /\ e.severity = "CRITICAL" => CountOf(es, "CRITICAL") >= 1
      /\ e.severity = "SEVERE" => CountOf(es, "SEVERE") >= 1
  BY <1>1
<1> QED BY <1>2 DEF ComputeSignal, Weight

\* Reported states show in the signals.
LEMMA SignsShow == Signed => BadStateIsSignalled
<1> SUFFICES ASSUME Signed, NEW s \in Sources \ cleared
             PROVE  /\ health[s].state = "CRITICAL" => ComputeSignal(EventsOf(s)) \in {"DEGRADED", "CRITICAL"}
                    /\ health[s].state = "DEGRADED" => ComputeSignal(EventsOf(s)) # "GOOD"
                    /\ cleared = {} /\ OverallState = "CRITICAL" =>
                         ComputeSignal(events) \in {"DEGRADED", "CRITICAL"}
  BY DEF BadStateIsSignalled
<1>1. IsFiniteSet(events) /\ \A t : IsFiniteSet(EventsOf(t))
  BY FS_Subset DEF Signed, EventsOf
<1>2. ASSUME NEW t \in Sources \ cleared, health[t].state \in Bad
      PROVE  /\ Sign(t, health[t].state) \in EventsOf(t)
             /\ Sign(t, health[t].state) \in events
             /\ Sign(t, health[t].state).severity =
                  IF health[t].state = "CRITICAL" THEN "CRITICAL" ELSE "SEVERE"
  BY <1>2 DEF Signed, Sign, Event, EventsOf, StateEvent
<1>3. health[s].state = "CRITICAL" => ComputeSignal(EventsOf(s)) \in {"DEGRADED", "CRITICAL"}
  BY <1>1, <1>2, EventsCount DEF Bad
<1>4. health[s].state = "DEGRADED" => ComputeSignal(EventsOf(s)) # "GOOD"
  BY <1>1, <1>2, EventsCount DEF Bad
<1>5. ASSUME cleared = {}, OverallState = "CRITICAL"
      PROVE  ComputeSignal(events) \in {"DEGRADED", "CRITICAL"}
  <2>1. PICK t \in Sources : health[t].state = "CRITICAL"
    BY <1>5 DEF OverallState
  <2>2. /\ Sign(t, health[t].state) \in events
        /\ Sign(t, health[t].state).severity = "CRITICAL"
    BY <1>2, <1>5, <2>1 DEF Bad
  <2> QED BY <1>1, <2>2, EventsCount
<1> QED BY <1>3, <1>4, <1>5

-----------------------------------------------------------------------------
(* Validation. *)

\* A packet whose timestamp was found in order is not ahead of its feed's last time.
InOrder ==
  /\ now \in Nat
  /\ DOMAIN lastTimestamps = Sources \X Feeds
  /\ \A k \in Sources \X Feeds : lastTimestamps[k] \in Int \cup {None}
  /\ \A id \in DOMAIN sent : sent[id] \in Packets
  /\ \A id \in seen :
       /\ id \in DOMAIN sent
       /\ lastTimestamps[<<sent[id].source, sent[id].feed>>] \in Int
       /\ sent[id].at <= lastTimestamps[<<sent[id].source, sent[id].feed>>]

\* Deliver receives a packet of Packets, and again the packet it had under the id.
LEMMA Delivered ==
  ASSUME InOrder, Deliver
  PROVE  \E id \in Ids, p \in Packets :
           /\ Receive(id, p)
           /\ id \in DOMAIN sent => p = sent[id]
<1> PICK id \in Ids :
      IF id \in DOMAIN sent THEN Receive(id, sent[id])
      ELSE \E p \in Packets : /\ p.at \in {now - 1, now, now + 1}
                              /\ p.feed # "spot_tick" => p.price = None
                              /\ Receive(id, p)
  BY DEF Deliver
<1>1. CASE id \in DOMAIN sent
  <2>1. sent[id] \in Packets /\ Receive(id, sent[id])
    BY <1>1 DEF InOrder
  <2> QED BY <2>1
<1>2. CASE id \notin DOMAIN sent
  <2>1. PICK p \in Packets : Receive(id, p)
    BY <1>2
  <2> QED BY <1>2, <2>1
<1> QED BY <1>1, <1>2

\* The last time of a feed follows every packet in order, valid or not.
LEMMA ReceiveKeepsOrder ==
  ASSUME InOrder, NEW id \in Ids, NEW p \in Packets, Receive(id, p),
         id \in DOMAIN sent => p = sent[id]
  PROVE  InOrder'
<1> DEFINE k == <<p.source, p.feed>>
           last == lastTimestamps[k]
           next == NextTimestamp(id, p)
<1>1. k \in Sources \X Feeds /\ p.at \in Int
  BY DEF Packets
<1>2. last \in Int \cup {None} /\ None \notin Int
  BY <1>1, DataHealthAssumption DEF InOrder
<1>3. /\ next \in Int \cup {None}
      /\ last \in Int => next \in Int /\ next >= last
      /\ TimestampOk(p) => next \in Int /\ p.at <= next
  BY <1>1, <1>2 DEF NextTimestamp
<1>4. /\ sent' = Put(sent, id, p) /\ now' = now
      /\ lastTimestamps' = [lastTimestamps EXCEPT ![k] = next]
      /\ seen' = IF TimestampOk(p) THEN seen \cup {id} ELSE seen
  BY DEF Receive
<1> HIDE DEF next, last
<1>5. /\ DOMAIN lastTimestamps' = Sources \X Feeds
      /\ lastTimestamps'[k] = next
      /\ \A j \in Sources \X Feeds : j # k => lastTimestamps'[j] = lastTimestamps[j]
  BY <1>1, <1>4 DEF InOrder
<1>6. /\ DOMAIN sent' = DOMAIN sent \cup {id}
      /\ sent'[id] = p
      /\ \A i \in DOMAIN sent : sent'[i] = sent[i]
  BY <1>4 DEF Put
<1>7. ASSUME NEW j \in Sources \X Feeds PROVE lastTimestamps'[j] \in Int \cup {None}
  BY <1>3, <1>5 DEF InOrder
<1>8. ASSUME NEW i \in DOMAIN sent' PROVE sent'[i] \in Packets
  BY <1>6 DEF InOrder
<1>9. ASSUME NEW i \in seen'
      PROVE  /\ i \in DOMAIN sent'
             /\ lastTimestamps'[<<sent'[i].source, sent'[i].feed>>] \in Int
             /\ sent'[i].at <= lastTimestamps'[<<sent'[i].source, sent'[i].feed>>]
  <2>1. CASE i = id /\ TimestampOk(p)
    BY <1>3, <1>5, <1>6, <2>1
  <2>2. CASE i \in seen
    <3> DEFINE j == <<sent[i].source, sent[i].feed>>
    <3>1. i \in DOMAIN sent /\ lastTimestamps[j] \in Int /\ sent[i].at <= lastTimestamps[j]
      BY <2>2 DEF InOrder
    <3>2. sent[i] \in Packets /\ sent'[i] = sent[i]
      BY <1>6, <3>1 DEF InOrder
    <3>3. j \in Sources \X Feeds /\ sent[i].at \in Int
      BY <3>2 DEF Packets
    <3> HIDE DEF j
    <3>4. CASE j = k
      <4>1. next \in Int /\ next >= lastTimestamps[j]
        BY <1>3, <3>1, <3>4 DEF last
      <4>2. sent[i].at <= next
        BY <3>1, <3>3, <4>1
      <4> QED BY <1>5, <1>6, <3>1, <3>2, <3>4, <4>1, <4>2 DEF j
    <3>5. CASE j # k
      <4>1. lastTimestamps'[j] = lastTimestamps[j]
        BY <1>5, <3>3, <3>5
      <4> QED BY <1>6, <3>1, <3>2, <4>1 DEF j
    <3> QED BY <3>4, <3>5
  <2> QED BY <1>4, <1>9, <2>1, <2>2
<1>10. now' \in Nat
  BY <1>4 DEF InOrder
<1> HIDE DEF k
<1> QED BY <1>5, <1>7, <1>8, <1>9, <1>10 DEF InOrder, Packets

-----------------------------------------------------------------------------
(* The stage tracker. *)

Stages == {"RAW", "VALIDATED", "CLEANED", "STRUCTURED"}

LEMMA StagesListed == ToSet(StageOrder) = Stages
BY DEF ToSet, StageOrder, Stages

\* Times of stages, none after t.
IsHistory(h, t) ==
  /\ h \in [Stages -> Nat \cup {None}]
  /\ \A stage \in Stages : h[stage] # None => h[stage] <= t

\* t is the latest time of h.
Latest(h, t) ==
  /\ t \in Nat
  /\ \E stage \in Stages : h[stage] = t
  /\ \A stage \in Stages : h[stage] # None => h[stage] <= t

\* The latest time in the history of a packet that is stored is when it got its stage.
Tracked ==
  /\ now \in Nat
  /\ DOMAIN since = DOMAIN normalized
  /\ DOMAIN normalized \subseteq DOMAIN history
  /\ \A id \in DOMAIN history : IsHistory(history[id], now) /\ history[id]["RAW"] # None
  /\ \A id \in DOMAIN normalized : Latest(history[id], since[id])

LEMMA NotedIsLatest ==
  ASSUME now \in Nat, NEW h, IsHistory(h, now), NEW stage \in Stages \ {"RAW"}
  PROVE  /\ IsHistory(Noted(h, stage), now)
         /\ Noted(h, stage)["RAW"] # None
         /\ Latest(Noted(h, stage), now)
<1> DEFINE n == Noted(h, stage)
<1>1. None \notin Nat
  BY DataHealthAssumption
<1>2. /\ n = [x \in Stages |-> n[x]]
      /\ n[stage] = now
      /\ n["RAW"] = IF h["RAW"] = None THEN now ELSE h["RAW"]
      /\ \A x \in Stages \ {"RAW", stage} : n[x] = h[x]
  BY DEF Noted, IsHistory, Stages
<1> HIDE DEF n
<1>3. \A x \in Stages : n[x] = now \/ n[x] = h[x]
  BY <1>2
<1>4. n["RAW"] # None
  BY <1>1, <1>2
<1>5. IsHistory(n, now)
  BY <1>2, <1>3 DEF IsHistory
<1>6. Latest(n, now)
  BY <1>2, <1>3 DEF IsHistory, Latest
<1> QED BY <1>4, <1>5, <1>6 DEF n

LEMMA NotedRaw ==
  ASSUME NEW h, IsHistory(h, now), h["RAW"] # None
  PROVE  Noted(h, "RAW") = h
BY DEF Noted, IsHistory, Stages

LEMMA NoHistoryIsOne ==
  /\ IsHistory(NoHistory, now)
  /\ now \in Nat => LET h == [NoHistory EXCEPT !["RAW"] = now]
                    IN IsHistory(h, now) /\ h["RAW"] # None /\ Latest(h, now)
BY StagesListed, DataHealthAssumption DEF NoHistory, IsHistory, Latest, Stages

\* Putting a packet in the stores keeps the histories of the others.
LEMMA ReceiveTracks ==
  ASSUME Tracked, NEW id \in Ids, NEW p, Receive(id, p)
  PROVE  Tracked'
<1>0. now' = now
  BY DEF Receive
<1>1. CASE ~Valid(id, p)
  BY <1>0, <1>1 DEF Receive, Tracked
<1>2. CASE Valid(id, p)
  <2> DEFINE h == Noted(OldHistory(id), "VALIDATED")
  <2>1. IsHistory(OldHistory(id), now)
    BY NoHistoryIsOne DEF OldHistory, Tracked
  <2>2. IsHistory(h, now) /\ h["RAW"] # None /\ Latest(h, now)
    BY <2>1, NotedIsLatest DEF Stages, Tracked
  <2>3. /\ DOMAIN normalized' = DOMAIN normalized \cup {id}
        /\ history' = Put(history, id, h) /\ since' = Put(since, id, now)
    BY <1>2 DEF Receive, Put
  <2> HIDE DEF h
  <2>4. /\ DOMAIN since' = DOMAIN since \cup {id}
        /\ DOMAIN history' = DOMAIN history \cup {id}
        /\ history'[id] = h /\ since'[id] = now
        /\ \A i \in DOMAIN history : i # id => history'[i] = history[i]
        /\ \A i \in DOMAIN since : i # id => since'[i] = since[i]
    BY <2>3 DEF Put
  <2> QED BY <1>0, <2>2, <2>3, <2>4 DEF Tracked
<1> QED BY <1>1, <1>2

\* The stage of one packet is advanced to another than the first.
LEMMA StepTracks ==
  ASSUME Tracked, now' = now, NEW id \in DOMAIN normalized, NEW stage \in Stages \ {"RAW"},
         DOMAIN normalized' = DOMAIN normalized,
         since' = [since EXCEPT ![id] = now],
         history' = [history EXCEPT ![id] = Noted(history[id], stage)]
  PROVE  Tracked'
<1> DEFINE h == Noted(history[id], stage)
<1>1. IsHistory(history[id], now)
  BY DEF Tracked
<1>2. IsHistory(h, now) /\ h["RAW"] # None /\ Latest(h, now)
  BY <1>1, NotedIsLatest DEF Tracked
<1> HIDE DEF h
<1>3. /\ DOMAIN since' = DOMAIN since /\ DOMAIN history' = DOMAIN history
      /\ history'[id] = h /\ since'[id] = now
      /\ \A i \in DOMAIN history : i # id => history'[i] = history[i]
      /\ \A i \in DOMAIN since : i # id => since'[i] = since[i]
  BY DEF Tracked, h
<1> QED BY <1>2, <1>3 DEF Tracked

LEMMA CleanTracks ==
  ASSUME Tracked, NEW id \in Ids, Clean(id)
  PROVE  Tracked'
<1>1. /\ id \in DOMAIN normalized /\ now' = now
      /\ DOMAIN normalized' = DOMAIN normalized
      /\ since' = [since EXCEPT ![id] = now]
      /\ history' = [history EXCEPT ![id] = Noted(history[id], "CLEANED")]
  BY DEF Clean, MayAdvance
<1>2. "CLEANED" \in Stages \ {"RAW"}
  BY DEF Stages
<1> QED BY <1>1, <1>2, StepTracks

LEMMA AdvanceTracks ==
  ASSUME Tracked, NEW id \in Ids, NEW stage \in Stages, Advance(id, stage)
  PROVE  Tracked'
<1>1. /\ id \in DOMAIN normalized /\ now' = now
      /\ DOMAIN normalized' = DOMAIN normalized
      /\ since' = [since EXCEPT ![id] = IF stage = "RAW" THEN since[id] ELSE now]
      /\ history' = [history EXCEPT ![id] = Noted(history[id], stage)]
  BY DEF Advance, MayAdvance
<1>2. CASE stage # "RAW"
  <2>1. since' = [since EXCEPT ![id] = now]
    BY <1>1, <1>2
  <2> QED BY <1>1, <1>2, <2>1, StepTracks
<1>3. CASE stage = "RAW"
  <2>1. Noted(history[id], "RAW") = history[id]
    BY <1>1, NotedRaw DEF Tracked
  <2>2. /\ DOMAIN since' = DOMAIN since /\ DOMAIN history' = DOMAIN history
        /\ \A i \in DOMAIN history : history'[i] = history[i]
        /\ \A i \in DOMAIN since : since'[i] = since[i]
    BY <1>1, <1>3, <2>1
  <2> QED BY <1>1, <2>2 DEF Tracked
<1> QED BY <1>2, <1>3

LEMMA ResetTracks ==
  ASSUME Tracked, NEW id \in Ids, ResetStage(id)
  PROVE  Tracked'
<1> DEFINE h == [NoHistory EXCEPT !["RAW"] = now]
<1>1. IsHistory(h, now) /\ h["RAW"] # None /\ Latest(h, now)
  BY NoHistoryIsOne DEF Tracked
<1>2. /\ id \in DOMAIN history /\ now' = now
      /\ history' = [history EXCEPT ![id] = h]
      /\ DOMAIN normalized' = DOMAIN normalized
      /\ id \in DOMAIN normalized => since' = [since EXCEPT ![id] = now]
      /\ id \notin DOMAIN normalized => since' = since
  BY DEF ResetStage
<1> HIDE DEF h
<1>3. /\ DOMAIN since' = DOMAIN since /\ DOMAIN history' = DOMAIN history
      /\ history'[id] = h
      /\ id \in DOMAIN normalized => since'[id] = now
      /\ \A i \in DOMAIN history : i # id => history'[i] = history[i]
      /\ \A i \in DOMAIN since : i # id => since'[i] = since[i]
  BY <1>2 DEF Tracked
<1> QED BY <1>1, <1>2, <1>3 DEF Tracked

LEMMA BuildTracks ==
  ASSUME Tracked, Build
  PROVE  Tracked'
<1>0. CASE SortRaises("spot_tick", Sources)
  <2>1. UNCHANGED <<now, normalized, history, since>>
    BY <1>0 DEF Build
  <2> QED BY <2>1 DEF Tracked
<1> SUFFICES ASSUME ~SortRaises("spot_tick", Sources) PROVE Tracked'
  BY <1>0
<1> DEFINE done == {id \in DOMAIN normalized : MayAdvance(normalized, id, "STRUCTURED")
                                                /\ id \in ToSet(cleaned)}
<1>1. /\ now' = now
      /\ DOMAIN normalized' = DOMAIN normalized
      /\ history' = [id \in DOMAIN history |->
            IF id \in done THEN Noted(history[id], "STRUCTURED") ELSE history[id]]
      /\ since' = [id \in DOMAIN since |-> IF id \in done THEN now ELSE since[id]]
  BY DEF Build
<1>2. done \subseteq DOMAIN normalized
  OBVIOUS
<1> HIDE DEF done
<1>3. ASSUME NEW id \in done
      PROVE  /\ IsHistory(Noted(history[id], "STRUCTURED"), now)
             /\ Noted(history[id], "STRUCTURED")["RAW"] # None
             /\ Latest(Noted(history[id], "STRUCTURED"), now)
  BY <1>2, NotedIsLatest DEF Tracked, Stages
<1> QED BY <1>1, <1>2, <1>3 DEF Tracked

LEMMA PurgeTracks ==
  ASSUME Tracked, PurgeNormalized
  PROVE  Tracked'
<1> PICK old :
      /\ normalized' = Restrict(normalized, DOMAIN normalized \ old)
      /\ since' = Restrict(since, DOMAIN since \ old)
      /\ history' = history /\ now' = now
  BY DEF PurgeNormalized
<1>1. /\ DOMAIN normalized' = DOMAIN normalized \ old
      /\ DOMAIN since' = DOMAIN since \ old
      /\ \A id \in DOMAIN since' : since'[id] = since[id]
  BY DEF Restrict
<1> QED BY <1>1 DEF Tracked

LEMMA TickTracks ==
  ASSUME Tracked, Tick
  PROVE  Tracked'
<1>1. /\ now' = now + 1 /\ now' \in Nat
      /\ UNCHANGED <<history, since, normalized>>
  BY DEF Tick, Tracked, layers
<1>2. ASSUME NEW h, IsHistory(h, now) PROVE IsHistory(h, now')
  <2>1. \A stage \in Stages : h[stage] \in Nat \cup {None}
    BY <1>2 DEF IsHistory
  <2> QED BY <1>1, <1>2, <2>1 DEF IsHistory, Tracked
<1> QED BY <1>1, <1>2 DEF Tracked

\* So the latest time of a packet's history is the time it got its stage.
LEMMA TrackedFinds == Tracked => StuckAreFound
<1> SUFFICES ASSUME Tracked PROVE StuckAreFound
  OBVIOUS
<1>1. ASSUME NEW id \in DOMAIN normalized
      PROVE  LastAdvanced(history[id]) = since[id]
  <2> DEFINE h == history[id]
             times == {h[stage] : stage \in {x \in DOMAIN h : h[x] # None}}
             t == since[id]
  <2>1. IsHistory(h, now) /\ Latest(h, t)
    BY <1>1 DEF Tracked
  <2> HIDE DEF h, t
  <2>2. None \notin Nat
    BY DataHealthAssumption
  <2>3. t \in times /\ \A x \in times : x \in Nat /\ x <= t
    BY <2>1, <2>2 DEF IsHistory, Latest
  <2> HIDE DEF times
  <2>4. \A x \in times : (\A y \in times : x >= y) <=> x = t
    BY <2>3
  <2>5. Max(times) = t
    BY <2>3, <2>4 DEF Max
  <2> QED BY <2>5 DEF LastAdvanced, times, h, t
<1>2. DOMAIN history \cap DOMAIN normalized = DOMAIN normalized
  BY DEF Tracked
<1> QED BY <1>1, <1>2 DEF StuckAreFound, StuckPackets

-----------------------------------------------------------------------------
(* Streams. *)

\* Ordering the members of a finite set lists each of them once, after those before it.
LEMMA SortedLists ==
  ASSUME NEW S, IsFiniteSet(S), NEW before \in [S -> SUBSET S],
         \A x \in S : x \notin before[x],
         \A x \in S : \A y \in before[x] : before[y] \subseteq before[x],
         \A x \in S : \A y \in S : x = y \/ x \in before[y] \/ y \in before[x]
  PROVE  LET n == Cardinality(S) r == Sorted(before)
         IN /\ n \in Nat /\ r \in [1..n -> S]
            /\ \A x \in S : \E k \in 1..n : r[k] = x
            /\ \A i \in 1..n : \A j \in 1..n : i < j => r[i] \in before[r[j]]
<1> DEFINE n == Cardinality(S)
           r == Sorted(before)
           Count(x) == Cardinality(before[x])
           rank == [x \in S |-> Count(x) + 1]
<1>1. n \in Nat
  BY FS_CardinalityType
<1>2. ASSUME NEW x \in S PROVE IsFiniteSet(before[x]) /\ Count(x) \in Nat /\ Count(x) + 1 <= n
  <2> DEFINE rest == S \ {x}
             b == before[x]
  <2>1. IsFiniteSet(rest) /\ Cardinality(rest) = n - 1
    BY FS_RemoveElement
  <2>2. b \in SUBSET rest
    BY <1>2
  <2> HIDE DEF rest, b
  <2>3. IsFiniteSet(b) /\ Cardinality(b) <= Cardinality(rest)
    BY <2>1, <2>2, FS_Subset
  <2>4. Cardinality(b) \in Nat
    BY <2>3, FS_CardinalityType
  <2> HIDE DEF n
  <2> QED BY <1>1, <2>1, <2>3, <2>4 DEF b
<1>3. ASSUME NEW x \in S, NEW y \in before[x] PROVE y \in S /\ Count(y) < Count(x)
  <2> DEFINE b == before[x] a == before[y]
  <2>1. y \in S /\ a \in SUBSET b /\ y \in b /\ y \notin a
    BY <1>3
  <2>2. IsFiniteSet(b) /\ Cardinality(b) \in Nat /\ Cardinality(a) \in Nat
    BY <1>2, <2>1
  <2> HIDE DEF a, b
  <2>3. Cardinality(a) <= Cardinality(b) /\ (Cardinality(b) = Cardinality(a) => b = a)
    BY <2>1, <2>2, FS_Subset
  <2>4. Cardinality(a) < Cardinality(b)
    BY <2>1, <2>2, <2>3
  <2> QED BY <2>1, <2>4 DEF a, b
<1> HIDE DEF n, Count
<1>4. rank \in [S -> 1..n]
  BY <1>1, <1>2
<1>5. ASSUME NEW x \in S, NEW y \in S, x # y PROVE Count(x) # Count(y)
  <2>1. x \in before[y] \/ y \in before[x]
    BY <1>5
  <2>2. Count(x) < Count(y) \/ Count(y) < Count(x)
    BY <1>3, <2>1
  <2> QED BY <1>2, <2>2
<1>6. rank \in Injection(S, 1..n)
  <2>1. \A a, b \in S : rank[a] = rank[b] => a = b
    BY <1>2, <1>5
  <2> QED BY <1>4, <2>1 DEF Injection, IsInjective
<1>7. IsFiniteSet(1..n) /\ Cardinality(1..n) = n
  BY <1>1, FS_Interval
<1>8. rank \in Surjection(S, 1..n)
  <2> DEFINE T == 1..n
  <2>1. rank \in Injection(S, T) /\ IsFiniteSet(T) /\ Cardinality(S) = Cardinality(T)
    BY <1>6, <1>7 DEF n
  <2> HIDE DEF T, rank
  <2>2. rank \in Surjection(S, T)
    BY <2>1, FS_Injection
  <2> QED BY <2>2 DEF T
<1>9. \A k \in 1..n : \E x \in S : Count(x) = k - 1
  <2>1. \A k \in 1..n : \E x \in S : rank[x] = k
    BY <1>8 DEF Surjection
  <2> QED BY <1>2, <2>1
<1>10. r = [k \in 1..n |-> CHOOSE x \in S : Count(x) = k - 1]
  BY DEF Sorted, n, Count
<1> HIDE DEF r
<1>11. \A k \in 1..n : r[k] \in S /\ Count(r[k]) = k - 1
  BY <1>9, <1>10
<1>12. r \in [1..n -> S]
  BY <1>10, <1>11
<1>13. ASSUME NEW x \in S PROVE \E k \in 1..n : r[k] = x
  <2> DEFINE k == Count(x) + 1
  <2>1. k \in 1..n /\ k - 1 = Count(x)
    BY <1>1, <1>2
  <2> HIDE DEF k
  <2>2. r[k] \in S /\ Count(r[k]) = Count(x)
    BY <1>11, <2>1
  <2>3. r[k] = x
    BY <1>5, <2>2
  <2> QED BY <2>1, <2>3
<1>14. ASSUME NEW i \in 1..n, NEW j \in 1..n, i < j PROVE r[i] \in before[r[j]]
  <2>1. r[i] \in S /\ r[j] \in S /\ Count(r[i]) = i - 1 /\ Count(r[j]) = j - 1
    BY <1>11
  <2> DEFINE x == r[i] y == r[j]
  <2>2. x \in S /\ y \in S /\ Count(x) < Count(y)
    BY <1>14, <1>1, <2>1
  <2> HIDE DEF x, y
  <2>3. x # y /\ y \notin before[x]
    <3>1. Count(x) \in Int /\ Count(y) \in Int
      BY <1>2, <2>2
    <3>2. ~ (Count(y) < Count(x)) /\ Count(x) # Count(y)
      BY <2>2, <3>1
    <3> QED BY <1>3, <2>2, <3>2
  <2>4. x \in before[y]
    BY <2>2, <2>3
  <2> QED BY <2>4 DEF x, y
<1> QED BY <1>1, <1>12, <1>13, <1>14 DEF r, n

\* A function of the places of a list is one.
LEMMA ListLength ==
  ASSUME NEW n \in Nat, NEW p, p = [k \in 1..n |-> p[k]]
  PROVE  Len(p) = n
<1> DEFINE U == {p[k] : k \in 1..n}
<1>1. \A k \in 1..n : p[k] \in U
  OBVIOUS
<1> HIDE DEF U
<1>2. p \in [1..n -> U]
  BY <1>1
<1>3. p \in Seq(U) /\ Len(p) = n
  BY <1>2
<1> QED BY <1>3

\* The order in which places are kept lists each of them.
OrderOf(places) == Sorted([i \in places |-> {j \in places : j < i}])

LEMMA PlacesInOrder ==
  ASSUME NEW m \in Nat, NEW places \in SUBSET (1..m)
  PROVE  /\ IsFiniteSet(places) /\ Cardinality(places) \in Nat
         /\ OrderOf(places) \in [1..Cardinality(places) -> places]
         /\ \A x \in places : \E k \in 1..Cardinality(places) : OrderOf(places)[k] = x
<1> DEFINE n == Cardinality(places)
           before == [i \in places |-> {j \in places : j < i}]
           r == Sorted(before)
<1>1. IsFiniteSet(places)
  <2>1. IsFiniteSet(1..m)
    BY FS_Interval
  <2> QED BY <2>1, FS_Subset
<1>2. \A i \in places : i \in Int
  OBVIOUS
<1>3. before \in [places -> SUBSET places]
  OBVIOUS
<1>4. /\ \A x \in places : x \notin before[x]
      /\ \A x \in places : \A y \in before[x] : before[y] \subseteq before[x]
      /\ \A x \in places : \A y \in places : x = y \/ x \in before[y] \/ y \in before[x]
  <2>1. \A x \in places : before[x] = {j \in places : j < x}
    OBVIOUS
  <2> HIDE DEF before
  <2>2. \A x \in places : \A y \in places : y \in before[x] <=> y < x
    BY <2>1
  <2>3. \A x \in places : before[x] \subseteq places
    BY <2>1
  <2>4. ASSUME NEW x \in places, NEW y \in before[x], NEW z \in before[y] PROVE z \in before[x]
    <3>1. y \in places /\ z \in places
      BY <2>3, <2>4
    <3> QED BY <1>2, <2>2, <2>4, <3>1
  <2>5. \A x \in places : x \notin before[x]
    BY <1>2, <2>2
  <2>6. \A x \in places : \A y \in places : x = y \/ x \in before[y] \/ y \in before[x]
    BY <1>2, <2>2
  <2> QED BY <2>4, <2>5, <2>6
<1> HIDE DEF before
<1>6. n \in Nat /\ r \in [1..n -> places] /\ \A x \in places : \E k \in 1..n : r[k] = x
  <2>1. /\ n \in Nat /\ r \in [1..n -> places]
        /\ \A x \in places : \E k \in 1..n : r[k] = x
        /\ \A i \in 1..n : \A j \in 1..n : i < j => r[i] \in before[r[j]]
    BY <1>1, <1>3, <1>4, SortedLists, Zenon
  <2> QED BY <2>1
<1> QED BY <1>1, <1>6 DEF OrderOf, before, n, r

\* What is kept of a sequence: the elements at those places, in their order.
LEMMA KeptLists ==
  ASSUME NEW m \in Nat, NEW places \in SUBSET (1..m), NEW s
  PROVE  /\ Cardinality(places) \in Nat /\ IsFiniteSet(places)
         /\ DOMAIN Kept(s, places) = 1..Cardinality(places)
         /\ Len(Kept(s, places)) = Cardinality(places)
         /\ ToSet(Kept(s, places)) = {s[i] : i \in places}
<1> DEFINE n == Cardinality(places)
           p == Kept(s, places)
           r == OrderOf(places)
<1>1. IsFiniteSet(places)
  BY PlacesInOrder
<1>5. p = [k \in DOMAIN r |-> s[r[k]]]
  BY DEF Kept, OrderOf
<1> HIDE DEF p
<1>6. n \in Nat /\ r \in [1..n -> places] /\ \A x \in places : \E k \in 1..n : r[k] = x
  BY PlacesInOrder
<1> HIDE DEF n, r
<1>7. DOMAIN p = 1..n /\ \A k \in 1..n : p[k] = s[r[k]]
  BY <1>5, <1>6
<1>8. p = [k \in 1..n |-> p[k]]
  BY <1>5, <1>7
<1>9. ToSet(p) = {s[i] : i \in places}
  <2>1. \A k \in 1..n : r[k] \in places
    BY <1>6
  <2>2. ASSUME NEW x \in ToSet(p) PROVE \E i \in places : x = s[i]
    <3>1. PICK k \in 1..n : x = p[k]
      BY <1>7 DEF ToSet
    <3> QED BY <1>7, <2>1, <3>1
  <2>3. ASSUME NEW i \in places PROVE s[i] \in ToSet(p)
    <3>1. PICK k \in 1..n : r[k] = i
      BY <1>6
    <3>2. p[k] = s[i]
      BY <1>7, <3>1
    <3> QED BY <1>7, <3>2, Zenon DEF ToSet
  <2> QED BY <2>2, <2>3
<1>10. Len(p) = n
  BY <1>6, <1>8, ListLength, Zenon
<1> QED BY <1>1, <1>6, <1>7, <1>8, <1>9, <1>10 DEF n, p

\* Sequences that agree at the places have the same kept of them.
LEMMA KeptSame ==
  ASSUME NEW m \in Nat, NEW places \in SUBSET (1..m), NEW s, NEW t,
         \A i \in places : s[i] = t[i]
  PROVE  Kept(s, places) = Kept(t, places)
<1> DEFINE r == OrderOf(places)
<1>1. \A k \in DOMAIN r : r[k] \in places
  BY PlacesInOrder
<1>2. /\ Kept(s, places) = [k \in DOMAIN r |-> s[r[k]]]
      /\ Kept(t, places) = [k \in DOMAIN r |-> t[r[k]]]
  BY DEF Kept, OrderOf
<1> HIDE DEF r
<1> QED BY <1>1, <1>2

\* What is written of a feed is a list, and its minutes are those of its times.
LEMMA EntriesListed ==
  ASSUME cleaned \in Seq(DOMAIN sent), \A id \in DOMAIN sent : sent[id].at \in Int, NEW chosen
  PROVE  LET e == Timed("spot_tick", chosen)
         IN \E n \in Nat :
              /\ DOMAIN e = 1..n /\ Len(e) = n
              /\ \A i \in 1..n : sent[e[i]].at \in Int /\ Minute(e[i]) \in Int
<1> DEFINE e == Timed("spot_tick", chosen)
           places == {i \in Places("spot_tick", chosen) : sent[cleaned[i]].stamped}
           n == Cardinality(places)
<1>1. /\ n \in Nat /\ DOMAIN e = 1..n /\ Len(e) = n
      /\ ToSet(e) = {cleaned[i] : i \in places}
  <2> DEFINE m == Len(cleaned)
  <2>1. m \in Nat /\ DOMAIN cleaned = 1..m
    OBVIOUS
  <2>2. e = Kept(cleaned, places)
    BY Zenon DEF Timed, Places
  <2>3. places \in SUBSET (1..m)
    BY <2>1 DEF Places
  <2> HIDE DEF m, places, e
  <2> QED BY <2>1, <2>2, <2>3, KeptLists
<1>2. n \in Nat
  BY <1>1
<1>3. \A i \in 1..n : sent[e[i]].at \in Int
  <2>1. ASSUME NEW i \in 1..n PROVE e[i] \in DOMAIN sent
    <3>1. e[i] \in ToSet(e)
      BY <1>1 DEF ToSet
    <3> HIDE DEF e
    <3>2. PICK j \in places : e[i] = cleaned[j]
      BY <1>1, <3>1
    <3> QED BY <3>2 DEF Places
  <2> QED BY <2>1
<1>4. \A i \in 1..n : Minute(e[i]) \in Int
  BY <1>3 DEF Minute
<1>5. \E l \in Nat :
        /\ DOMAIN e = 1..l /\ Len(e) = l
        /\ \A i \in 1..l : sent[e[i]].at \in Int /\ Minute(e[i]) \in Int
  <2>1. n \in Nat
    BY <1>1
  <2> HIDE DEF e, n
  <2> QED BY <1>1, <1>3, <1>4, <2>1
<1> QED BY <1>5, Zenon DEF e

\* The ticks in order are the written ones in another order, each once, sorted by time.
LEMMA TicksAreWritten ==
  ASSUME cleaned \in Seq(DOMAIN sent), \A id \in DOMAIN sent : sent[id].at \in Int, NEW chosen
  PROVE  LET e == Timed("spot_tick", chosen) ticks == TicksInOrder("spot_tick", chosen)
         IN \E n \in Nat :
              /\ DOMAIN e = 1..n /\ Len(ticks) = n /\ DOMAIN ticks = 1..n
              /\ \A i \in 1..n : sent[e[i]].at \in Int
              /\ \E r \in [1..n -> 1..n] :
                   /\ \A i \in 1..n : \E k \in 1..n : r[k] = i
                   /\ \A i \in 1..n : \A j \in 1..n : i # j => r[i] # r[j]
                   /\ \A k \in 1..n : ticks[k] = e[r[k]]
                   /\ \A i \in 1..n : \A j \in 1..n : i < j => sent[ticks[i]].at <= sent[ticks[j]].at
<1> DEFINE e == Timed("spot_tick", chosen)
<1>1. PICK n \in Nat :
        /\ DOMAIN e = 1..n /\ Len(e) = n
        /\ \A i \in 1..n : sent[e[i]].at \in Int /\ Minute(e[i]) \in Int
  BY EntriesListed, Zenon
<1>2. n \in Nat
  OBVIOUS
<1> HIDE DEF e
<1>3. \A i \in 1..n : sent[e[i]].at \in Int
  BY <1>1
<1> DEFINE at == [i \in 1..n |-> sent[e[i]].at]
<1>4. /\ \A i \in 1..n : at[i] = sent[e[i]].at /\ at[i] \in Int /\ Minute(e[i]) = at[i] \div 2 /\ Minute(e[i]) \in Int
  BY <1>3 DEF Minute
<1> HIDE DEF at
<1>5. \E r \in [1..n -> 1..n] :
         /\ DOMAIN TicksInOrder("spot_tick", chosen) = 1..n /\ Len(TicksInOrder("spot_tick", chosen)) = n
         /\ \A i \in 1..n : \E k \in 1..n : r[k] = i
         /\ \A i \in 1..n : \A j \in 1..n : i # j => r[i] # r[j]
         /\ \A k \in 1..n : TicksInOrder("spot_tick", chosen)[k] = e[r[k]]
         /\ \A i \in 1..n : \A j \in 1..n :
              i < j => sent[TicksInOrder("spot_tick", chosen)[i]].at <= sent[TicksInOrder("spot_tick", chosen)[j]].at
  <2> DEFINE ticks == TicksInOrder("spot_tick", chosen)
             S == 1..n
             before == [i \in DOMAIN e |-> {j \in DOMAIN e : sent[e[j]].at < sent[e[i]].at
                                                            \/ (sent[e[j]].at = sent[e[i]].at /\ j < i)}]
             r == Sorted(before)
  <2>1. ticks = [k \in DOMAIN r |-> e[r[k]]]
    BY Zenon DEF TicksInOrder, e
  <2>2. IsFiniteSet(S) /\ Cardinality(S) = n
    BY <1>2, FS_Interval
  <2>3. DOMAIN before = S /\ before = [i \in S |-> before[i]] /\ \A i \in S : before[i] = {j \in S : at[j] < at[i] \/ (at[j] = at[i] /\ j < i)}
    BY <1>1, <1>4
  <2> HIDE DEF before, ticks
  <2>4. \A x \in S : \A y \in S : y \in before[x] <=> (at[y] < at[x] \/ (at[y] = at[x] /\ y < x))
    BY <2>3
  <2>5. \A x \in S : before[x] \subseteq S
    BY <2>3
  <2>6. \A x \in S : at[x] \in Int /\ x \in Int
    BY <1>1, <1>4
  <2> HIDE DEF S
  <2>7. before \in [S -> SUBSET S]
    BY <2>3, <2>5
  <2>8. \A x \in S : x \notin before[x]
    BY <2>4, <2>6
  <2>9. \A x \in S : \A y \in before[x] : before[y] \subseteq before[x]
    <3>1. ASSUME NEW x \in S, NEW y \in before[x], NEW z \in before[y] PROVE z \in before[x]
      <4>1. y \in S /\ z \in S
        BY <2>5, <3>1
      <4> QED BY <2>4, <2>6, <3>1, <4>1
    <3> QED BY <3>1
  <2>10. \A x \in S : \A y \in S : x = y \/ x \in before[y] \/ y \in before[x]
    BY <2>4, <2>6
  <2>11. /\ r \in [1..n -> S] /\ \A x \in S : \E k \in 1..n : r[k] = x
         /\ \A i \in 1..n : \A j \in 1..n : i < j => r[i] \in before[r[j]]
    BY <2>2, <2>7, <2>8, <2>9, <2>10, SortedLists
  <2> HIDE DEF r
  <2>12. \A i \in 1..n : \A j \in 1..n : i # j => r[i] # r[j]
    <3>1. ASSUME NEW i \in 1..n, NEW j \in 1..n, i < j PROVE r[i] # r[j]
      <4>1. r[i] \in before[r[j]] /\ r[j] \in S
        BY <2>11, <3>1
      <4> QED BY <2>8, <4>1
    <3>2. ASSUME NEW i \in 1..n, NEW j \in 1..n, i # j PROVE i < j \/ j < i
      BY <1>1, <3>2
    <3> QED BY <3>1, <3>2
  <2>13. DOMAIN ticks = 1..n /\ \A k \in 1..n : ticks[k] = e[r[k]]
    BY <2>1, <2>11
  <2>14. Len(ticks) = n
    <3>1. ticks = [k \in 1..n |-> ticks[k]]
      BY <2>1, <2>13
    <3> QED BY <1>2, <3>1, ListLength, Zenon
  <2>15. r \in [1..n -> 1..n] /\ \A i \in 1..n : \E k \in 1..n : r[k] = i
    BY <2>11 DEF S
  <2>16. ASSUME NEW i \in 1..n, NEW j \in 1..n, i < j PROVE sent[ticks[i]].at <= sent[ticks[j]].at
    <3>1. r[i] \in before[r[j]] /\ r[i] \in S /\ r[j] \in S
      BY <2>11, <2>16
    <3>2. at[r[i]] <= at[r[j]]
      BY <2>4, <2>6, <3>1
    <3>3. at[r[i]] = sent[ticks[i]].at /\ at[r[j]] = sent[ticks[j]].at
      BY <1>4, <2>13, <3>1 DEF S
    <3> QED BY <3>2, <3>3
  <2> QED BY <2>12, <2>13, <2>14, <2>15, <2>16 DEF ticks
<1> DEFINE ticks == TicksInOrder("spot_tick", chosen)
<1> HIDE DEF ticks
<1>6. \E r \in [1..n -> 1..n] :
         /\ DOMAIN ticks = 1..n /\ Len(ticks) = n
         /\ \A i \in 1..n : \E k \in 1..n : r[k] = i
         /\ \A i \in 1..n : \A j \in 1..n : i # j => r[i] # r[j]
         /\ \A k \in 1..n : ticks[k] = e[r[k]]
         /\ \A i \in 1..n : \A j \in 1..n : i < j => sent[ticks[i]].at <= sent[ticks[j]].at
  BY <1>5 DEF ticks
<1>7. \E l \in Nat :
         /\ DOMAIN e = 1..l /\ Len(ticks) = l /\ DOMAIN ticks = 1..l
         /\ \A i \in 1..l : sent[e[i]].at \in Int
         /\ \E r \in [1..l -> 1..l] :
              /\ \A i \in 1..l : \E k \in 1..l : r[k] = i
              /\ \A i \in 1..l : \A j \in 1..l : i # j => r[i] # r[j]
              /\ \A k \in 1..l : ticks[k] = e[r[k]]
              /\ \A i \in 1..l : \A j \in 1..l : i < j => sent[ticks[i]].at <= sent[ticks[j]].at
  <2>1. n \in Nat
    BY <1>1
  <2> WITNESS n \in Nat
  <2>2. DOMAIN e = 1..n /\ Len(ticks) = n /\ DOMAIN ticks = 1..n
    BY <1>1, <1>6
  <2> QED BY <1>3, <1>6, <2>2
<1> QED BY <1>7, Zenon DEF e, ticks

\* Every minute that has ticks has its candle, and the candles come in order.
LEMMA CandlesOfMinutes ==
  ASSUME cleaned \in Seq(DOMAIN sent), \A id \in DOMAIN sent : sent[id].at \in Int, NEW chosen
  PROVE  LET e == Timed("spot_tick", chosen) candles == CandlesInOrder("spot_tick", chosen)
         IN \E m \in Nat :
              /\ DOMAIN candles = 1..m /\ Len(candles) = m
              /\ \E minutes \in [1..m -> Int] :
                   /\ \A k \in 1..m : candles[k] = CandleOf(e, minutes[k])
                   /\ \A i \in DOMAIN e : \E k \in 1..m : minutes[k] = Minute(e[i])
                   /\ \A k \in 1..m : \E i \in DOMAIN e : minutes[k] = Minute(e[i])
                   /\ \A i \in 1..m : \A j \in 1..m : i < j => minutes[i] < minutes[j]
<1> DEFINE e == Timed("spot_tick", chosen)
<1>1. PICK n \in Nat :
        /\ DOMAIN e = 1..n /\ Len(e) = n
        /\ \A i \in 1..n : sent[e[i]].at \in Int /\ Minute(e[i]) \in Int
  BY EntriesListed, Zenon
<1>2. n \in Nat
  OBVIOUS
<1> HIDE DEF e
<1>3. \E m \in Nat :
         /\ DOMAIN CandlesInOrder("spot_tick", chosen) = 1..m /\ Len(CandlesInOrder("spot_tick", chosen)) = m
         /\ \E minutes \in [1..m -> Int] :
              /\ \A k \in 1..m : CandlesInOrder("spot_tick", chosen)[k] = CandleOf(e, minutes[k])
              /\ \A i \in DOMAIN e : \E k \in 1..m : minutes[k] = Minute(e[i])
              /\ \A k \in 1..m : \E i \in DOMAIN e : minutes[k] = Minute(e[i])
              /\ \A i \in 1..m : \A j \in 1..m : i < j => minutes[i] < minutes[j]
  <2> DEFINE candles == CandlesInOrder("spot_tick", chosen)
             all == {Minute(id) : id \in ToSet(e)}
             m == Cardinality(all)
             before == [x \in all |-> {y \in all : y < x}]
             r == Sorted(before)
  <2>1. candles = [k \in DOMAIN r |-> CandleOf(e, r[k])]
    BY Zenon DEF CandlesInOrder, e
  <2>2. \A x : x \in all <=> \E i \in 1..n : x = Minute(e[i])
    BY <1>1 DEF ToSet
  <2>3. \A x \in all : x \in Int
    BY <1>1, <2>2
  <2>4. IsFiniteSet(all)
    <3> DEFINE f == [i \in 1..n |-> Minute(e[i])]
               N == 1..n
    <3>1. f \in Surjection(N, all)
      BY <2>2 DEF Surjection
    <3>2. IsFiniteSet(N)
      BY <1>2, FS_Interval
    <3> HIDE DEF f, N, all
    <3> QED BY <3>1, <3>2, FS_Surjection
  <2> HIDE DEF candles, all
  <2>5. before \in [all -> SUBSET all] /\ \A x \in all : before[x] = {y \in all : y < x}
    OBVIOUS
  <2> HIDE DEF before
  <2>6. \A x \in all : \A y \in all : y \in before[x] <=> y < x
    BY <2>5
  <2>7. \A x \in all : before[x] \subseteq all
    BY <2>5
  <2>8. \A x \in all : x \notin before[x]
    BY <2>3, <2>6
  <2>9. \A x \in all : \A y \in before[x] : before[y] \subseteq before[x]
    <3>1. ASSUME NEW x \in all, NEW y \in before[x], NEW z \in before[y] PROVE z \in before[x]
      <4>1. y \in all /\ z \in all
        BY <2>7, <3>1
      <4> QED BY <2>3, <2>6, <3>1, <4>1
    <3> QED BY <3>1
  <2>10. \A x \in all : \A y \in all : x = y \/ x \in before[y] \/ y \in before[x]
    BY <2>3, <2>6
  <2>11. /\ m \in Nat /\ r \in [1..m -> all] /\ \A x \in all : \E k \in 1..m : r[k] = x
         /\ \A i \in 1..m : \A j \in 1..m : i < j => r[i] \in before[r[j]]
    BY <2>4, <2>5, <2>8, <2>9, <2>10, SortedLists
  <2> HIDE DEF m, r
  <2>12. DOMAIN candles = 1..m /\ \A k \in 1..m : candles[k] = CandleOf(e, r[k])
    BY <2>1, <2>11
  <2>13. Len(candles) = m
    <3>1. candles = [k \in 1..m |-> candles[k]]
      BY <2>1, <2>12
    <3> QED BY <2>11, <3>1, ListLength, Zenon
  <2>14. r \in [1..m -> Int]
    BY <2>3, <2>11
  <2>15. \A i \in DOMAIN e : \E k \in 1..m : r[k] = Minute(e[i])
    BY <1>1, <2>2, <2>11
  <2>16. \A k \in 1..m : \E i \in DOMAIN e : r[k] = Minute(e[i])
    BY <1>1, <2>2, <2>11
  <2>17. \A i \in 1..m : \A j \in 1..m : i < j => r[i] < r[j]
    BY <2>6, <2>7, <2>11
  <2> QED BY <2>11, <2>12, <2>13, <2>14, <2>15, <2>16, <2>17 DEF candles
<1> QED BY <1>3, Zenon DEF e

\* The members of what is kept.
LEMMA KeptMembers ==
  ASSUME NEW m \in Nat, NEW places \in SUBSET (1..m), NEW s
  PROVE  ToSet(Kept(s, places)) = {s[i] : i \in places}
BY KeptLists, Zenon

\* ticks is e in another order r, which takes the places I to the places J.
Paired(n, ticks, I, e, J) ==
  \E r \in [1..n -> 1..n] :
    /\ \A i \in 1..n : \E k \in 1..n : r[k] = i
    /\ \A i \in 1..n : \A j \in 1..n : i # j => r[i] # r[j]
    /\ \A k \in 1..n : ticks[k] = e[r[k]]
    /\ \A k \in 1..n : k \in I <=> r[k] \in J

\* Lists p and q have the same length and the same members, those of e at J.
Alike(p, q, e, J) ==
  /\ Len(p) = Len(q) /\ Len(q) \in Nat
  /\ ToSet(p) = ToSet(q)
  /\ \A x : x \in ToSet(q) <=> \E i \in J : x = e[i]
  /\ DOMAIN p = 1..Len(q)
  /\ J # {} => Len(q) # 0

\* What is kept of two orders of the same list, at places that go together, is alike.
LEMMA SameMinute ==
  ASSUME NEW n \in Nat, NEW e, NEW ticks, NEW I \in SUBSET (1..n), NEW J \in SUBSET (1..n)
  PROVE  Paired(n, ticks, I, e, J) => Alike(Kept(ticks, I), Kept(e, J), e, J)
<1>1. /\ DOMAIN Kept(ticks, I) = 1..Cardinality(I) /\ Len(Kept(ticks, I)) = Cardinality(I)
      /\ IsFiniteSet(J) /\ Cardinality(J) \in Nat /\ Len(Kept(e, J)) = Cardinality(J)
  BY KeptLists
<1>2. /\ ToSet(Kept(ticks, I)) = {ticks[k] : k \in I}
      /\ ToSet(Kept(e, J)) = {e[i] : i \in J}
  BY KeptMembers, Zenon
<1>3. \A x : x \in ToSet(Kept(e, J)) <=> \E i \in J : x = e[i]
  BY <1>2, Zenon
<1>4. J # {} => Cardinality(J) # 0
  BY <1>1, FS_EmptySet
<1>5. ASSUME NEW f \in Injection(I, J), f \in Surjection(I, J), \A k \in I : ticks[k] = e[f[k]]
      PROVE  Cardinality(I) = Cardinality(J) /\ ToSet(Kept(ticks, I)) = ToSet(Kept(e, J))
  <2>1. Cardinality(I) = Cardinality(J)
    BY <1>1, <1>5, FS_Injection
  <2>2. \A k \in I : f[k] \in J
    BY DEF Injection
  <2>3. \A i \in J : \E k \in I : f[k] = i
    BY <1>5 DEF Surjection
  <2>4. ASSUME NEW i \in J PROVE e[i] \in {ticks[k] : k \in I}
    <3>1. PICK k \in I : f[k] = i
      BY <2>3
    <3>2. ticks[k] = e[i]
      BY <1>5, <3>1
    <3> QED BY <3>2
  <2>5. ASSUME NEW k \in I PROVE ticks[k] \in {e[i] : i \in J}
    BY <1>5, <2>2
  <2>6. {ticks[k] : k \in I} = {e[i] : i \in J}
    BY <2>4, <2>5
  <2> QED BY <1>2, <2>1, <2>6, Zenon
<1>6. ASSUME NEW r, r \in [1..n -> 1..n],
             \A i \in 1..n : \E k \in 1..n : r[k] = i,
             \A i \in 1..n : \A j \in 1..n : i # j => r[i] # r[j],
             \A k \in 1..n : ticks[k] = e[r[k]],
             \A k \in 1..n : k \in I <=> r[k] \in J
      PROVE  \E f \in Injection(I, J) : f \in Surjection(I, J) /\ \A k \in I : ticks[k] = e[f[k]]
  <2> DEFINE f == [x \in I |-> r[x]]
  <2>1. f \in [I -> J] /\ \A x \in I : ticks[x] = e[f[x]]
    BY <1>6
  <2>2. \A a, b \in I : f[a] = f[b] => a = b
    BY <1>6
  <2>3. \A i \in J : \E x \in I : f[x] = i
    BY <1>6
  <2> HIDE DEF f
  <2>4. f \in Injection(I, J) /\ f \in Surjection(I, J)
    BY <2>1, <2>2, <2>3 DEF Injection, IsInjective, Surjection
  <2> QED BY <2>1, <2>4
<1>7. Paired(n, ticks, I, e, J) =>
        \E f \in Injection(I, J) : f \in Surjection(I, J) /\ \A k \in I : ticks[k] = e[f[k]]
  BY <1>6 DEF Paired
<1> QED BY <1>1, <1>3, <1>4, <1>5, <1>7, Zenon DEF Alike

\* All ticks in order, all candles in order, and what was written: lists that go together.
Together(ticks, candles, e) ==
  \E n \in Nat : \E m \in Nat :
    /\ DOMAIN ticks = 1..n /\ Len(ticks) = n /\ DOMAIN candles = 1..m /\ Len(candles) = m
    /\ \A i \in 1..n : sent[ticks[i]].at \in Int
    /\ \A i \in 1..n : \A j \in 1..n : i < j => sent[ticks[i]].at <= sent[ticks[j]].at
    /\ \A k \in 1..m : candles[k].minute \in Int
    /\ \A i \in 1..m : \A j \in 1..m : i < j => candles[i].minute < candles[j].minute
    /\ \A i \in 1..n : \E k \in 1..m : i \in Own(ticks, candles[k].minute)
    /\ \A k \in 1..m : Tells(candles[k], Kept(ticks, Own(ticks, candles[k].minute)), e)

\* The ticks of a minute in order of their times are those its candle is made of.
LEMMA AllTogether ==
  ASSUME cleaned \in Seq(DOMAIN sent), \A id \in DOMAIN sent : sent[id].at \in Int, NEW chosen
  PROVE  Together(TicksInOrder("spot_tick", chosen), CandlesInOrder("spot_tick", chosen),
                  Timed("spot_tick", chosen))
<1> DEFINE e == Timed("spot_tick", chosen)
           ticks == TicksInOrder("spot_tick", chosen)
           candles == CandlesInOrder("spot_tick", chosen)
           In(mm) == Own(ticks, mm)
           Of(mm) == Kept(ticks, In(mm))
           At(mm) == {i \in DOMAIN e : Minute(e[i]) = mm}
<1>1. PICK n \in Nat :
        /\ DOMAIN e = 1..n /\ Len(ticks) = n /\ DOMAIN ticks = 1..n
        /\ \A i \in 1..n : sent[e[i]].at \in Int
        /\ \E r \in [1..n -> 1..n] :
             /\ \A i \in 1..n : \E k \in 1..n : r[k] = i
             /\ \A i \in 1..n : \A j \in 1..n : i # j => r[i] # r[j]
             /\ \A k \in 1..n : ticks[k] = e[r[k]]
             /\ \A i \in 1..n : \A j \in 1..n : i < j => sent[ticks[i]].at <= sent[ticks[j]].at
  BY TicksAreWritten, Zenon
<1>2. PICK m \in Nat :
        /\ DOMAIN candles = 1..m /\ Len(candles) = m
        /\ \E minutes \in [1..m -> Int] :
             /\ \A k \in 1..m : candles[k] = CandleOf(e, minutes[k])
             /\ \A i \in DOMAIN e : \E k \in 1..m : minutes[k] = Minute(e[i])
             /\ \A k \in 1..m : \E i \in DOMAIN e : minutes[k] = Minute(e[i])
             /\ \A i \in 1..m : \A j \in 1..m : i < j => minutes[i] < minutes[j]
  BY CandlesOfMinutes, Zenon
<1> HIDE DEF e, ticks, candles
<1>3. ASSUME NEW I \in SUBSET (1..n), NEW K \in SUBSET (1..n),
              Paired(n, ticks, I, e, K)
       PROVE  Alike(Kept(ticks, I), Kept(e, K), e, K)
  BY <1>3, SameMinute, Zenon
<1>4. PICK r \in [1..n -> 1..n] :
        /\ \A i \in 1..n : \E k \in 1..n : r[k] = i
        /\ \A i \in 1..n : \A j \in 1..n : i # j => r[i] # r[j]
        /\ \A k \in 1..n : ticks[k] = e[r[k]]
        /\ \A i \in 1..n : \A j \in 1..n : i < j => sent[ticks[i]].at <= sent[ticks[j]].at
  BY <1>1
<1>5. PICK minutes \in [1..m -> Int] :
        /\ \A k \in 1..m : candles[k] = CandleOf(e, minutes[k])
        /\ \A i \in DOMAIN e : \E k \in 1..m : minutes[k] = Minute(e[i])
        /\ \A k \in 1..m : \E i \in DOMAIN e : minutes[k] = Minute(e[i])
        /\ \A i \in 1..m : \A j \in 1..m : i < j => minutes[i] < minutes[j]
  BY <1>2
<1>6. \A mm \in Int : /\ In(mm) \in SUBSET (1..n) /\ At(mm) \in SUBSET (1..n)
                      /\ \A k \in 1..n : k \in In(mm) <=> Minute(ticks[k]) = mm
                      /\ \A k \in 1..n : k \in In(mm) <=> r[k] \in At(mm)
  <2>1. \A k \in 1..n : sent[ticks[k]].at \in Int
    <3>1. ASSUME NEW k \in 1..n PROVE r[k] \in 1..n /\ ticks[k] = e[r[k]]
      BY <1>4
    <3>2. \A i \in 1..n : sent[e[i]].at \in Int
      BY <1>1
    <3> QED BY <3>1, <3>2
  <2>2. ASSUME NEW mm \in Int, NEW k \in 1..n PROVE k \in In(mm) <=> Minute(ticks[k]) = mm
    <3> DEFINE at == sent[ticks[k]].at
    <3>1. at \in Int /\ Minute(ticks[k]) = at \div 2 /\ (k \in In(mm) <=> at \in {2 * mm, 2 * mm + 1})
      BY <1>1, <2>1 DEF Minute, Own
    <3> HIDE DEF at, In
    <3>2. at \div 2 = mm <=> at \in {2 * mm, 2 * mm + 1}
      BY <3>1
    <3> QED BY <3>1, <3>2
  <2>3. ASSUME NEW mm \in Int, NEW k \in 1..n PROVE Minute(ticks[k]) = mm <=> r[k] \in At(mm)
    BY <1>1, <1>4
  <2>4. \A mm \in Int : In(mm) \in SUBSET (1..n)
    BY <1>1 DEF Own
  <2> QED BY <1>1, <2>2, <2>3, <2>4
<1> HIDE DEF In
<1>7. \A k \in DOMAIN candles : candles[k].minute = minutes[k] /\ minutes[k] \in Int
  <2>1. ASSUME NEW x PROVE CandleOf(e, x).minute = x
    BY DEF CandleOf
  <2> QED BY <1>2, <1>5, <2>1
<1>8. DOMAIN candles = 1..m /\ Len(candles) = m
  BY <1>2
<1>9. DOMAIN ticks = 1..n
  BY <1>1
<1>10. ASSUME NEW i \in 1..m, NEW j \in 1..m, i < j PROVE candles[i].minute < candles[j].minute
  <2>1. minutes[i] < minutes[j]
    BY <1>5, <1>10
  <2>2. i \in DOMAIN candles /\ j \in DOMAIN candles
    BY <1>8
  <2>3. candles[i].minute = minutes[i] /\ candles[j].minute = minutes[j]
    BY <1>7, <2>2, Zenon
  <2> QED BY <2>1, <2>3, Zenon
<1>11. ASSUME NEW i \in DOMAIN ticks PROVE \E k \in DOMAIN candles : i \in In(candles[k].minute)
  <2>1. i \in 1..n /\ r[i] \in DOMAIN e /\ ticks[i] = e[r[i]]
    BY <1>1, <1>4
  <2>2. PICK k \in 1..m : minutes[k] = Minute(ticks[i])
    BY <1>5, <2>1
  <2>3. candles[k].minute = Minute(ticks[i]) /\ Minute(ticks[i]) \in Int /\ k \in DOMAIN candles
    BY <1>7, <1>8, <2>2
  <2>4. i \in In(candles[k].minute)
    BY <1>6, <2>1, <2>3
  <2> QED BY <2>3, <2>4
<1>12. ASSUME NEW k \in DOMAIN candles
      PROVE  Tells(candles[k], Of(candles[k].minute), e)
  <2> DEFINE c == candles[k]
             mm == minutes[k]
             p == Of(mm)
             q == Kept(e, At(mm))
             J == At(mm)
             prices == [i \in DOMAIN p |-> sent[p[i]].price]
             values == {sent[id].price : id \in ToSet(q)}
  <2>1. c.minute = mm /\ mm \in Int
    BY <1>7
  <2>2. c = CandleOf(e, mm)
    BY <1>2, <1>5
  <2>3. /\ c.count = Len(q) /\ c.high = Max(values) /\ c.low = Min(values)
        /\ c.open = sent[q[1]].price /\ c.close = sent[q[Len(q)]].price
    BY <2>2 DEF CandleOf
  <2>4. J # {} /\ \A i \in DOMAIN e : Minute(e[i]) = mm <=> i \in J
    BY <1>2, <1>5
  <2>5. Alike(p, q, e, J)
    <3>1. /\ In(mm) \in SUBSET (1..n) /\ J \in SUBSET (1..n)
          /\ \A x \in 1..n : x \in In(mm) <=> r[x] \in J
      BY <1>6, <2>1
    <3> HIDE DEF J
    <3>2. PICK I \in SUBSET (1..n) : I = In(mm)
      BY <3>1
    <3>3. PICK K \in SUBSET (1..n) : K = J
      BY <3>1
    <3>4. \A x \in 1..n : x \in I <=> r[x] \in K
      BY <3>1, <3>2, <3>3
    <3>5. Paired(n, ticks, I, e, K)
      BY <1>4, <3>4 DEF Paired
    <3>6. Alike(Kept(ticks, I), Kept(e, K), e, K)
      BY <3>5, <1>3, Zenon
    <3> QED BY <3>2, <3>3, <3>6, Zenon DEF J
  <2>6. PICK l \in Nat : l = Len(q) /\ DOMAIN p = 1..l /\ l # 0
    BY <2>4, <2>5, Zenon DEF Alike
  <2>7. {i \in DOMAIN e : e[i] \in ToSet(p)} = J
    <3> HIDE DEF J, p, q
    <3>1. J \subseteq DOMAIN e
      BY DEF J
    <3>2. ASSUME NEW i \in DOMAIN e, e[i] \in ToSet(p) PROVE i \in J
      <4>1. PICK j \in J : e[i] = e[j]
        BY <2>5, <3>2 DEF Alike
      <4>2. Minute(e[i]) = mm
        BY <2>4, <3>1, <4>1
      <4> QED BY <2>4, <4>2
    <3> QED BY <2>5, <3>1, <3>2 DEF Alike
  <2>8. DOMAIN prices = 1..l /\ Len(prices) = l /\ prices # <<>> /\ ToSet(prices) = values
    <3> HIDE DEF p, q
    <3>1. DOMAIN prices = 1..l
      BY <2>6
    <3>2. ToSet(p) = ToSet(q)
      BY <2>5 DEF Alike
    <3>3. ToSet(prices) = values
      <4>1. ToSet(p) = {p[i] : i \in 1..l}
        BY <2>6 DEF ToSet
      <4>2. ToSet(prices) = {prices[i] : i \in 1..l}
        BY <3>1, Zenon DEF ToSet
      <4>3. \A i \in 1..l : prices[i] = sent[p[i]].price
        BY <2>6
      <4> DEFINE all == ToSet(p)
      <4>4. values = {sent[id].price : id \in all}
        BY <3>2
      <4> HIDE DEF all, values, prices
      <4>5. \A x : x \in values <=> \E i \in 1..l : x = sent[p[i]].price
        BY <4>1, <4>4 DEF all
      <4>6. \A x : x \in ToSet(prices) <=> \E i \in 1..l : x = sent[p[i]].price
        BY <4>2, <4>3
      <4> QED BY <4>5, <4>6
    <3>4. Len(prices) = l
      <4>1. prices = [i \in 1..l |-> prices[i]]
        BY <3>1
      <4> HIDE DEF prices
      <4> QED BY <4>1, ListLength, Zenon
    <3>5. prices # <<>>
      <4>1. 1 \in DOMAIN prices
        BY <2>6, <3>1
      <4> HIDE DEF prices
      <4> QED BY <4>1
    <3> QED BY <3>1, <3>3, <3>4, <3>5
  <2>9. ASSUME p = Kept(e, {i \in DOMAIN e : e[i] \in ToSet(p)})
        PROVE  c.open = prices[1] /\ c.close = prices[Len(prices)]
    <3>1. p = q
      BY <2>7, <2>9, Zenon
    <3>2. 1 \in DOMAIN p /\ l \in DOMAIN p
      BY <2>6
    <3> HIDE DEF p, q, c
    <3>3. prices[1] = sent[p[1]].price /\ prices[l] = sent[p[l]].price
      BY <3>2
    <3> HIDE DEF prices
    <3> QED BY <2>3, <2>6, <2>8, <3>1, <3>3
  <2>10. /\ c.count = Len(prices) /\ prices # <<>>
         /\ c.high = Max(ToSet(prices)) /\ c.low = Min(ToSet(prices))
         /\ p = Kept(e, {i \in DOMAIN e : e[i] \in ToSet(p)})
              => c.open = prices[1] /\ c.close = prices[Len(prices)]
    <3> HIDE DEF p, q, c, prices, values
    <3> QED BY <2>3, <2>6, <2>8, <2>9
  <2>11. Tells(c, p, e)
    <3> HIDE DEF p, q, c
    <3> QED BY <2>10 DEF Tells
  <2> QED BY <2>1, <2>11, Zenon
<1>13. \A i \in 1..n : sent[ticks[i]].at \in Int
  <2>1. ASSUME NEW i \in 1..n PROVE r[i] \in 1..n /\ ticks[i] = e[r[i]]
    BY <1>4
  <2>2. \A i \in 1..n : sent[e[i]].at \in Int
    BY <1>1
  <2> QED BY <2>1, <2>2, Zenon
<1>14. Together(ticks, candles, e)
  <2>1. n \in Nat /\ m \in Nat
    BY <1>1, <1>2
  <2>2. /\ DOMAIN ticks = 1..n /\ Len(ticks) = n /\ DOMAIN candles = 1..m /\ Len(candles) = m
        /\ \A i \in 1..n : \A j \in 1..n : i < j => sent[ticks[i]].at <= sent[ticks[j]].at
        /\ \A k \in 1..m : candles[k].minute \in Int
    BY <1>1, <1>4, <1>7, <1>8
  <2>3. \A i \in 1..m : \A j \in 1..m : i < j => candles[i].minute < candles[j].minute
    BY <1>10
  <2>4. \A i \in 1..n : \E k \in 1..m : i \in Own(ticks, candles[k].minute)
    BY <1>8, <1>9, <1>11 DEF In
  <2>5. \A k \in 1..m : Tells(candles[k], Kept(ticks, Own(ticks, candles[k].minute)), e)
    BY <1>8, <1>12 DEF In
  <2> QED BY <1>13, <2>1, <2>2, <2>3, <2>4, <2>5, Zenon DEF Together
<1> QED BY <1>14, Zenon DEF e, ticks, candles

\* The oldest of a list.
Oldest(f, s, n, max) ==
  \E p \in Nat : /\ p <= n /\ p <= max /\ (p < max => p = n)
                 /\ DOMAIN f = 1..p /\ Len(f) = p /\ \A k \in 1..p : f[k] = s[k]

LEMMA FirstOfList ==
  ASSUME NEW n \in Nat, NEW s, DOMAIN s = 1..n, Len(s) = n, NEW max \in Nat
  PROVE  Oldest(FirstOf(s, max), s, n, max)
<1> DEFINE p == IF n < max THEN n ELSE max
           f == FirstOf(s, max)
<1>1. f = [k \in 1..p |-> s[k]]
  BY DEF FirstOf
<1>2. p \in Nat /\ p <= n /\ p <= max /\ (p < max => p = n)
  OBVIOUS
<1> HIDE DEF p, f
<1>3. DOMAIN f = 1..p /\ \A k \in 1..p : f[k] = s[k]
  BY <1>1
<1>4. Len(f) = p
  <2>1. f = [k \in 1..p |-> f[k]]
    BY <1>1, <1>3
  <2> QED BY <1>2, <2>1, ListLength, Zenon
<1> QED BY <1>2, <1>3, <1>4 DEF f, Oldest

\* What goes together does so in the oldest ticks and candles, as far as both go.
LEMMA OldestTogether ==
  ASSUME NEW ticks, NEW candles, NEW e, Together(ticks, candles, e),
         NEW a \in Nat \ {0}, NEW b \in Nat \ {0}
  PROVE  LET t == FirstOf(ticks, a) c == FirstOf(candles, b)
         IN /\ \A k \in 2..Len(c) : c[k - 1].minute < c[k].minute
            /\ \A i \in DOMAIN t :
                 \/ \E k \in DOMAIN c : i \in Own(t, c[k].minute)
                 \/ Len(c) = b /\ 2 * c[b].minute + 1 < sent[t[i]].at
            /\ \A k \in DOMAIN c :
                 Len(t) < a \/ 2 * c[k].minute + 1 < sent[t[Len(t)]].at
                   => Tells(c[k], Kept(t, Own(t, c[k].minute)), e)
<1> DEFINE t == FirstOf(ticks, a)
           c == FirstOf(candles, b)
<1>1. PICK n \in Nat : \E m \in Nat :
        /\ DOMAIN ticks = 1..n /\ Len(ticks) = n /\ DOMAIN candles = 1..m /\ Len(candles) = m
        /\ \A i \in 1..n : sent[ticks[i]].at \in Int
        /\ \A i \in 1..n : \A j \in 1..n : i < j => sent[ticks[i]].at <= sent[ticks[j]].at
        /\ \A k \in 1..m : candles[k].minute \in Int
        /\ \A i \in 1..m : \A j \in 1..m : i < j => candles[i].minute < candles[j].minute
        /\ \A i \in 1..n : \E k \in 1..m : i \in Own(ticks, candles[k].minute)
        /\ \A k \in 1..m : Tells(candles[k], Kept(ticks, Own(ticks, candles[k].minute)), e)
  BY Zenon DEF Together
<1>2. PICK m \in Nat :
        /\ DOMAIN ticks = 1..n /\ Len(ticks) = n /\ DOMAIN candles = 1..m /\ Len(candles) = m
        /\ \A i \in 1..n : sent[ticks[i]].at \in Int
        /\ \A i \in 1..n : \A j \in 1..n : i < j => sent[ticks[i]].at <= sent[ticks[j]].at
        /\ \A k \in 1..m : candles[k].minute \in Int
        /\ \A i \in 1..m : \A j \in 1..m : i < j => candles[i].minute < candles[j].minute
        /\ \A i \in 1..n : \E k \in 1..m : i \in Own(ticks, candles[k].minute)
        /\ \A k \in 1..m : Tells(candles[k], Kept(ticks, Own(ticks, candles[k].minute)), e)
  BY <1>1
<1>3. PICK p \in Nat :
        /\ p <= n /\ p <= a /\ (p < a => p = n)
        /\ DOMAIN t = 1..p /\ Len(t) = p /\ \A k \in 1..p : t[k] = ticks[k]
  <2>1. DOMAIN ticks = 1..n /\ Len(ticks) = n /\ a \in Nat
    BY <1>2
  <2>2. Oldest(t, ticks, n, a)
    BY <2>1, FirstOfList, Zenon
  <2> HIDE DEF t
  <2> QED BY <2>2 DEF Oldest
<1>4. PICK q \in Nat :
        /\ q <= m /\ q <= b /\ (q < b => q = m)
        /\ DOMAIN c = 1..q /\ Len(c) = q /\ \A k \in 1..q : c[k] = candles[k]
  <2>1. DOMAIN candles = 1..m /\ Len(candles) = m /\ b \in Nat
    BY <1>2
  <2>2. Oldest(c, candles, m, b)
    BY <2>1, FirstOfList, Zenon
  <2> HIDE DEF c
  <2> QED BY <2>2 DEF Oldest
<1> HIDE DEF t, c
<1>5. ASSUME NEW k \in 2..Len(c) PROVE c[k - 1].minute < c[k].minute
  <2>1. k \in 1..m /\ k - 1 \in 1..m /\ k - 1 < k /\ k \in 1..q /\ k - 1 \in 1..q
    BY <1>4
  <2> QED BY <1>2, <1>4, <2>1
<1>6. ASSUME NEW x PROVE \A i \in 1..p : i \in Own(t, x) <=> i \in Own(ticks, x)
  <2>1. \A i \in 1..p : i \in 1..n
    BY <1>3
  <2> QED BY <1>2, <1>3, <2>1 DEF Own
<1>7. ASSUME NEW i \in DOMAIN t
      PROVE  \/ \E k \in DOMAIN c : i \in Own(t, c[k].minute)
             \/ Len(c) = b /\ 2 * c[b].minute + 1 < sent[t[i]].at
  <2>1. i \in 1..p /\ i \in 1..n
    BY <1>3
  <2>2. PICK k \in 1..m : i \in Own(ticks, candles[k].minute)
    BY <1>2, <2>1
  <2>3. CASE k <= q
    <3>1. k \in DOMAIN c /\ c[k] = candles[k]
      BY <1>4, <2>3
    <3> QED BY <1>6, <2>1, <2>2, <3>1
  <2>4. CASE q < k
    <3>1. q = b /\ b \in 1..q /\ b \in 1..m /\ b < k
      BY <1>4, <2>4
    <3>2. c[b] = candles[b] /\ Len(c) = b
      BY <1>4, <3>1
    <3>3. candles[b].minute < candles[k].minute
      BY <1>2, <3>1
    <3> DEFINE x == candles[b].minute
               y == candles[k].minute
               z == sent[ticks[i]].at
    <3>4. x \in Int /\ y \in Int /\ z \in Int /\ x < y
      BY <1>2, <2>1, <3>1, <3>3
    <3>5. z \in {2 * y, 2 * y + 1}
      BY <2>2 DEF Own
    <3> HIDE DEF x, y, z
    <3>6. 2 * x + 1 < z
      BY <3>4, <3>5
    <3> QED BY <1>3, <2>1, <3>2, <3>6 DEF x, z
  <2>5. k <= q \/ q < k
    OBVIOUS
  <2> QED BY <2>3, <2>4, <2>5
<1>8. ASSUME NEW k \in DOMAIN c, Len(t) < a \/ 2 * c[k].minute + 1 < sent[t[Len(t)]].at
      PROVE  Tells(c[k], Kept(t, Own(t, c[k].minute)), e)
  <2> DEFINE x == candles[k].minute
             I == Own(ticks, x)
  <2>1. k \in 1..m /\ c[k] = candles[k] /\ x \in Int
    BY <1>2, <1>4
  <2>2. ASSUME NEW i \in I PROVE i \in 1..p
    <3>1. i \in 1..n /\ sent[ticks[i]].at \in {2 * x, 2 * x + 1}
      BY <1>2 DEF Own
    <3>2. CASE p < a
      BY <1>3, <3>1, <3>2
    <3>3. CASE ~(p < a)
      <4>1. p = a /\ p \in 1..n /\ p \in 1..p
        BY <1>3, <3>3
      <4>2. 2 * x + 1 < sent[ticks[p]].at
        BY <1>3, <1>8, <2>1, <4>1
      <4>3. p < i => sent[ticks[p]].at <= sent[ticks[i]].at
        BY <1>2, <3>1, <4>1
      <4> DEFINE y == sent[ticks[p]].at
                 z == sent[ticks[i]].at
      <4>4. y \in Int /\ z \in Int
        BY <1>2, <3>1, <4>1
      <4> HIDE DEF x, y, z
      <4>5. ~(p < i)
        BY <2>1, <3>1, <4>2, <4>3, <4>4 DEF y, z
      <4> QED BY <3>1, <4>5
    <3> QED BY <3>2, <3>3
  <2>3. I \in SUBSET (1..p) /\ Own(t, x) = I
    <3>1. Own(t, x) \subseteq 1..p
      BY <1>3 DEF Own
    <3> HIDE DEF I, x
    <3> QED BY <1>6, <2>2, <3>1 DEF I
  <2>4. Kept(t, I) = Kept(ticks, I)
    <3>1. \A i \in I : t[i] = ticks[i]
      BY <1>3, <2>3
    <3> HIDE DEF I
    <3> QED BY <2>3, <3>1, KeptSame
  <2>5. Tells(candles[k], Kept(ticks, I), e)
    BY <1>2, <2>1
  <2> QED BY <2>1, <2>3, <2>4, <2>5
<1> QED BY <1>5, <1>7, <1>8 DEF t, c

\* The two streams agree, for any sources and any maxima.
LEMMA CandlesMatchWritten ==
  ASSUME cleaned \in Seq(DOMAIN sent), \A id \in DOMAIN sent : sent[id].at \in Int
  PROVE  CandlesMatchTicks
<1>1. ASSUME NEW chosen \in SUBSET Sources, NEW a \in 1..MaxTicks, NEW b \in 1..MaxCandles
      PROVE  LET t == TickStream("spot_tick", chosen, a) c == CandleStream("spot_tick", chosen, b)
             IN /\ \A k \in 2..Len(c) : c[k - 1].minute < c[k].minute
                /\ \A i \in DOMAIN t :
                     \/ \E k \in DOMAIN c : i \in Own(t, c[k].minute)
                     \/ Len(c) = b /\ 2 * c[b].minute + 1 < sent[t[i]].at
                /\ \A k \in DOMAIN c :
                     Len(t) < a \/ 2 * c[k].minute + 1 < sent[t[Len(t)]].at
                       => Tells(c[k], Kept(t, Own(t, c[k].minute)), Timed("spot_tick", chosen))
  <2>1. a \in Nat \ {0} /\ b \in Nat \ {0}
    OBVIOUS
  <2>2. Together(TicksInOrder("spot_tick", chosen), CandlesInOrder("spot_tick", chosen),
                 Timed("spot_tick", chosen))
    BY AllTogether, Zenon
  <2> QED BY <2>1, <2>2, OldestTogether, Zenon DEF TickStream, CandleStream
<1> QED BY <1>1, Zenon DEF CandlesMatchTicks, Before

-----------------------------------------------------------------------------
(* The theorems. *)

Inv == Signed /\ InOrder /\ Tracked

LEMMA InitInv == Init => Inv
<1> SUFFICES ASSUME Init PROVE Inv
  OBVIOUS
<1>1. Signed
  <2>1. NewHealth.state = "HEALTHY" /\ NewHealth.emitted = {} /\ IsHealth(NewHealth)
    BY DEF NewHealth, IsHealth, HealthStates
  <2> QED BY <2>1, FS_EmptySet DEF Init, HealthInit, Signed, Bad
<1>2. InOrder
  BY DEF Init, HealthInit, InOrder
<1>3. Tracked
  BY DEF Init, HealthInit, Tracked
<1> QED BY <1>1, <1>2, <1>3 DEF Inv

\* What is not touched stays true.
LEMMA Untouched ==
  /\ Signed /\ UNCHANGED <<health, events, cleared>> => Signed'
  /\ InOrder /\ UNCHANGED <<now, sent, lastTimestamps, seen>> => InOrder'
  /\ Tracked /\ UNCHANGED <<now, normalized, history, since>> => Tracked'
BY DEF Signed, InOrder, Tracked, Packets

LEMMA NextInv == Inv /\ [Next]_vars => Inv'
<1> SUFFICES ASSUME Inv, [Next]_vars PROVE Inv'
  OBVIOUS
<1> USE DEF Inv
<1>1. CASE Deliver
  <2>1. PICK id \in Ids, p \in Packets :
          Receive(id, p) /\ (id \in DOMAIN sent => p = sent[id])
    BY <1>1, Delivered
  <2>2. UNCHANGED <<health, events, cleared>>
    BY <2>1 DEF Receive
  <2>3. InOrder' /\ Tracked'
    BY <2>1, ReceiveKeepsOrder, ReceiveTracks
  <2> QED BY <2>2, <2>3, Untouched
<1>2. ASSUME NEW id \in Ids, Clean(id) PROVE Inv'
  <2>1. UNCHANGED <<health, events, cleared>> /\ UNCHANGED <<now, sent, lastTimestamps, seen>>
    BY <1>2 DEF Clean
  <2> QED BY <1>2, <2>1, CleanTracks, Untouched
<1>3. ASSUME NEW id \in Ids, ResetStage(id) PROVE Inv'
  <2>1. UNCHANGED <<health, events, cleared>> /\ UNCHANGED <<now, sent, lastTimestamps, seen>>
    BY <1>3 DEF ResetStage
  <2> QED BY <1>3, <2>1, ResetTracks, Untouched
<1>4. ASSUME NEW id \in Ids, NEW stage \in Stages, Advance(id, stage) PROVE Inv'
  <2>1. UNCHANGED <<health, events, cleared>> /\ UNCHANGED <<now, sent, lastTimestamps, seen>>
    BY <1>4 DEF Advance
  <2> QED BY <1>4, <2>1, AdvanceTracks, Untouched
<1>5. CASE Build
  <2>1. UNCHANGED <<health, events, cleared>> /\ UNCHANGED <<now, sent, lastTimestamps, seen>>
    BY <1>5 DEF Build
  <2> QED BY <1>5, <2>1, BuildTracks, Untouched
<1>6. ASSUME NEW enforce \in BOOLEAN, DispatchAll(enforce) PROVE Inv'
  BY <1>6, Untouched DEF DispatchAll, layers
<1>7. ASSUME NEW feed \in Feeds, SetPolicy(feed) PROVE Inv'
  BY <1>7, Untouched DEF SetPolicy, layers
<1>8. CASE PurgeNormalized
  <2>1. UNCHANGED <<health, events, cleared>> /\ UNCHANGED <<now, sent, lastTimestamps, seen>>
    BY <1>8 DEF PurgeNormalized
  <2> QED BY <1>8, <2>1, PurgeTracks, Untouched
<1>9. CASE PurgeOriginal
  BY <1>9, Untouched DEF PurgeOriginal
<1>10. CASE Health
  <2>1. UNCHANGED <<sent, lastTimestamps, seen, normalized, history, since>>
    BY <1>10 DEF Health, layers
  <2>2. HealthCall
    BY <1>10 DEF Health
  <2>3. now' = now
    BY <2>2 DEF HealthCall, RecordLatency, RecordHeartbeat, RecordReconnect, ClearEvents, Report
  <2> QED BY <2>1, <2>2, <2>3, HealthCallSigns, Untouched
<1>11. CASE Tick
  <2>1. UNCHANGED <<health, events, cleared, sent, lastTimestamps, seen>> /\ now' = now + 1
    BY <1>11 DEF Tick, layers
  <2>2. InOrder'
    BY <2>1 DEF InOrder, Packets
  <2> QED BY <1>11, <2>1, <2>2, TickTracks, Untouched
<1>12. CASE UNCHANGED vars
  BY <1>12, Untouched DEF vars
<1>13. CASE \E id \in Ids : Clean(id) \/ ResetStage(id)
                            \/ \E stage \in ToSet(StageOrder) : Advance(id, stage)
  BY <1>2, <1>3, <1>4, <1>13, StagesListed
<1> QED
  BY <1>1, <1>5, <1>6, <1>7, <1>8, <1>9, <1>10, <1>11, <1>12, <1>13 DEF Next

LEMMA Inductive == Spec => []Inv
<1> QED BY InitInv, NextInv, PTL DEF Spec

\* What is cleaned was stored, and what is stored was sent.
Written ==
  /\ cleaned \in Seq(DOMAIN sent)
  /\ DOMAIN normalized \subseteq DOMAIN sent

\* Sending more keeps it.
LEMMA WrittenKept ==
  ASSUME Written, cleaned' = cleaned, DOMAIN sent \subseteq DOMAIN sent',
         DOMAIN normalized' \subseteq DOMAIN sent'
  PROVE  Written'
<1> DEFINE S == DOMAIN sent T == DOMAIN sent'
<1>1. cleaned \in Seq(S) /\ S \subseteq T
  BY DEF Written
<1> HIDE DEF S, T
<1>2. cleaned \in Seq(T)
  <2> DEFINE n == Len(cleaned)
  <2>1. n \in Nat /\ cleaned \in [1..n -> S]
    BY <1>1
  <2> HIDE DEF n
  <2>2. cleaned \in [1..n -> T]
    BY <1>1, <2>1
  <2> QED BY <2>1, <2>2
<1> QED BY <1>2, Zenon DEF Written, T

\* Only Clean writes, and only what is stored.
LEMMA NextWritten ==
  ASSUME Inv, Written, [Next]_vars
  PROVE  Written'
<1>1. CASE Deliver
  <2>1. PICK id \in Ids, p \in Packets : Receive(id, p)
    BY <1>1, Delivered DEF Inv
  <2>2. DOMAIN sent' = DOMAIN sent \cup {id} /\ cleaned' = cleaned
    BY <2>1 DEF Receive, Put
  <2>3. DOMAIN normalized' \subseteq DOMAIN normalized \cup {id}
    BY <2>1 DEF Receive, Put
  <2> QED BY <2>2, <2>3, WrittenKept DEF Written
<1>2. ASSUME NEW id \in Ids, Clean(id) PROVE Written'
  <2>1. /\ cleaned' = IF id \in ToSet(cleaned) THEN cleaned ELSE Append(cleaned, id)
        /\ DOMAIN normalized' = DOMAIN normalized /\ sent' = sent /\ id \in DOMAIN normalized
    BY <1>2 DEF Clean, MayAdvance
  <2>2. cleaned' \in Seq(DOMAIN sent)
    <3> DEFINE S == DOMAIN sent
    <3>1. cleaned \in Seq(S) /\ id \in S
      BY <2>1 DEF Written
    <3> HIDE DEF S
    <3>2. Append(cleaned, id) \in Seq(S)
      BY <3>1
    <3>3. cleaned' \in Seq(S)
      BY <2>1, <3>1, <3>2
    <3> QED BY <3>3 DEF S
  <2> QED BY <2>1, <2>2 DEF Written
<1>3. CASE \E id \in Ids : ResetStage(id) \/ \E stage \in ToSet(StageOrder) : Advance(id, stage)
  <2>1. cleaned' = cleaned /\ sent' = sent /\ DOMAIN normalized' = DOMAIN normalized
    BY <1>3 DEF ResetStage, Advance
  <2> QED BY <2>1 DEF Written
<1>4. CASE Build
  <2>1. cleaned' = cleaned /\ sent' = sent /\ DOMAIN normalized' = DOMAIN normalized
    BY <1>4 DEF Build
  <2> QED BY <2>1 DEF Written
<1>5. CASE PurgeNormalized
  <2>1. /\ cleaned' = cleaned /\ sent' = sent
        /\ DOMAIN normalized' \subseteq DOMAIN normalized
    BY <1>5 DEF PurgeNormalized, Restrict
  <2> QED BY <2>1 DEF Written
<1>6. CASE \/ \E enforce \in BOOLEAN : DispatchAll(enforce)
           \/ \E feed \in Feeds : SetPolicy(feed)
           \/ PurgeOriginal \/ Health \/ Tick \/ UNCHANGED vars
  <2>1. UNCHANGED <<cleaned, sent, normalized>>
    BY <1>6 DEF DispatchAll, SetPolicy, PurgeOriginal, Health, Tick, layers, vars
  <2> QED BY <2>1 DEF Written
<1>7. CASE \E id \in Ids : Clean(id)
  BY <1>2, <1>7
<1> QED BY <1>1, <1>3, <1>4, <1>5, <1>6, <1>7 DEF Next

\* A source in a bad state shows in its review signal until its events are cleared.
\* (_update_state, _emit_if_new, compute_signal)
THEOREM BadIsSignalled == Spec => []BadStateIsSignalled
<1>1. Inv => BadStateIsSignalled
  BY SignsShow DEF Inv
<1> QED BY <1>1, Inductive, PTL

\* A packet whose time has been seen is not taken for a gap again.
\* (ValidationRouter.validate)
THEOREM GapsArePassed == Spec => []GapCostsOnePacket
<1>1. Inv => GapCostsOnePacket
  <2> SUFFICES ASSUME Inv, NEW id \in seen PROVE ContinuityOk(sent[id])
    BY DEF GapCostsOnePacket
  <2>1. /\ lastTimestamps[<<sent[id].source, sent[id].feed>>] \in Int
        /\ sent[id].at <= lastTimestamps[<<sent[id].source, sent[id].feed>>]
        /\ sent[id] \in Packets
    BY DEF Inv, InOrder
  <2>2. sent[id].at \in Int
    BY <2>1 DEF Packets
  <2> QED BY <2>1, <2>2 DEF ContinuityOk, MajorGap
<1> QED BY <1>1, Inductive, PTL

\* A packet is reported as stuck exactly when it is overdue in its stage.
\* (find_stuck_packets, _get_last_advanced)
THEOREM OverdueAreFound == Spec => []StuckAreFound
<1>1. Inv => StuckAreFound
  BY TrackedFinds DEF Inv
<1> QED BY <1>1, Inductive, PTL

\* The candle stream and the tick stream of any choice of sources and of any maxima tell
\* the same story, unless the sort of the ticks raises.
\* (build_tick_stream, build_candle_stream)
THEOREM CandlesMatch == Spec => []CandlesMatchTicks
<1>1. Init => Inv /\ Written
  <2>1. Init => Written
    BY DEF Init, Written
  <2> QED BY <2>1, InitInv
<1>2. Inv /\ Written /\ [Next]_vars => (Inv /\ Written)'
  <2>1. Inv /\ Written /\ [Next]_vars => Inv'
    BY NextInv
  <2>2. Inv /\ Written /\ [Next]_vars => Written'
    BY NextWritten
  <2> QED BY <2>1, <2>2
<1>3. Inv /\ Written => CandlesMatchTicks
  <2> SUFFICES ASSUME Inv, Written PROVE CandlesMatchTicks
    OBVIOUS
  <2>1. \A id \in DOMAIN sent : sent[id].at \in Int
    BY DEF Inv, InOrder, Packets
  <2>2. cleaned \in Seq(DOMAIN sent)
    BY DEF Written
  <2> QED BY <2>1, <2>2, CandlesMatchWritten
<1> QED BY <1>1, <1>2, <1>3, PTL DEF Spec

=============================================================================
