----------------------------- MODULE DataCentre -----------------------------
(***************************************************************************)
(* Floor 2, the data centre: packets go through validation into the raw    *)
(* stores, are cleaned, built into streams and handed to Floor 3.          *)
(* (floor_2_datacenter/)                                                   *)
(*                                                                         *)
(* The chain that calls the parts one after the other is the caller's; it  *)
(* is taken from the integration test.  A packet may come again, out of    *)
(* order, late or with a time in the future.  A tick of the clock is half  *)
(* a minute, the length of a candle two ticks.                             *)
(***************************************************************************)
EXTENDS DataHealth

CONSTANTS
  Ids,           \* packet ids
  Feeds,         \* feeds that deliver
  Prices,        \* last traded prices; 0 is one the cleaner removes
  Keep,          \* retention in ticks, by data class
  StuckAfter,    \* stuck_timeout_s, in ticks
  MaxTicks,      \* max_ticks of build_tick_stream
  MaxCandles,    \* max_candles of build_candle_stream
  MaxNow,        \* bound: the clock
  MaxCalls       \* bound: calls that can grow the state; purges cannot

\* FEED_TYPE_TO_VALIDATION_TIER and the data classes of the feeds
Tier(feed) ==
  CASE feed \in {"spot_tick", "options_snapshot"} -> "A" [] feed = "vix_tick" -> "B" [] OTHER -> "C"

DataClass(feed) ==
  IF feed \in {"spot_tick", "options_snapshot", "vix_tick"} THEN "MAJOR" ELSE "MINOR"

ASSUME DataCentreAssumption ==
  /\ IsFiniteSet(Ids) /\ Feeds \subseteq STRING
  /\ Prices \subseteq Nat
  /\ Keep \in [{"MAJOR", "MINOR"} -> Nat] /\ Keep["MINOR"] <= Keep["MAJOR"]
  /\ MaxTicks \in Nat \ {0} /\ MaxCandles \in Nat \ {0}
  /\ StuckAfter \in Nat /\ MaxNow \in Nat /\ MaxCalls \in Nat

VARIABLES
  sent,          \* packets Floor 1 has made, by id: source, feed, time, price, and
                 \* whether the time in the payload can be read
  lastTimestamps,\* ValidationRouter._last_timestamps
  normalized,    \* NormalizedRawStore._store: stage and time stored, by id
  original,      \* OriginalRawStore._store: time stored, by id
  cleaned,       \* CleanedLayerWriter._store: ids in the order first written
  history,       \* TransformStageTracker._stage_history: time of each stage, by id
  streams,       \* StructuredWriter._type_index, with what each entry holds
  transmissions, \* _transmission_log: destination and what a handoff held
  overrides,     \* RawRetentionManager._overrides: feeds that expire at once
  since,         \* history: when a packet got its stage, or had it confirmed
  seen,          \* history: packets whose timestamp was found in order
  calls          \* calls so far

layers == <<lastTimestamps, normalized, original, cleaned, history, since, seen>>
vars == <<now, health, events, cleared, sent, lastTimestamps, normalized, original,
          cleaned, history, streams, transmissions, overrides, since, seen, calls>>

Called == calls < MaxCalls /\ calls' = calls + 1

-----------------------------------------------------------------------------
(* Validation. *)

\* A major gap is a minute, a minor one is any other.
MajorGap == 2

\* validate_duplicate
NotDuplicate(id) == id \notin DOMAIN normalized

\* validate_timestamp: five seconds ahead are less than a tick; out of order is noted only
TimestampOk(p) == p.at <= now

\* validate_continuity
ContinuityOk(p) ==
  LET last == lastTimestamps[<<p.source, p.feed>>]
  IN last # None => p.at - last < MajorGap

\* validate_corruption: a price that is no number
Uncorrupted(p) == p.price # None

\* _get_validators_for_tier and _aggregate: any failure fails the packet
Valid(id, p) ==
  /\ TimestampOk(p)
  /\ Tier(p.feed) \in {"A", "B"} => NotDuplicate(id) /\ ContinuityOk(p)
  /\ Tier(p.feed) = "A" => Uncorrupted(p)

\* Fault: the last time follows only packets that pass.
NextTimestampIfValid(id, p) ==
  LET last == lastTimestamps[<<p.source, p.feed>>]
  IN IF Valid(id, p) /\ (last = None \/ p.at > last) THEN p.at ELSE last

\* validate: the last time follows every packet whose timestamp is in order
NextTimestamp(id, p) ==
  LET last == lastTimestamps[<<p.source, p.feed>>]
  IN IF TimestampOk(p) /\ (last = None \/ p.at > last) THEN p.at ELSE last

-----------------------------------------------------------------------------
(* The stages of a packet. *)

StageOrder == <<"RAW", "VALIDATED", "CLEANED", "STRUCTURED">>
StageIndex(stage) == CHOOSE i \in DOMAIN StageOrder : StageOrder[i] = stage

NoHistory == [stage \in ToSet(StageOrder) |-> None]

\* advance: one stage at most, never back
MayAdvance(store, id, stage) ==
  /\ id \in DOMAIN store
  /\ StageIndex(stage) - StageIndex(store[id].stage) \in {0, 1}

Noted(h, stage) ==
  LET begun == [h EXCEPT !["RAW"] = IF @ = None THEN now ELSE @]
  IN IF stage = "RAW" THEN begun ELSE [begun EXCEPT ![stage] = now]

\* Fault: the time of the furthest stage.
LastByStage(h) ==
  h[StageOrder[Max({i \in DOMAIN StageOrder : h[StageOrder[i]] # None})]]

\* _get_last_advanced
LastAdvanced(h) == Max({h[stage] : stage \in {x \in DOMAIN h : h[x] # None}})

\* find_stuck_packets
StuckPackets ==
  {id \in DOMAIN history \cap DOMAIN normalized :
     /\ now - LastAdvanced(history[id]) > StuckAfter
     /\ normalized[id].stage # "STRUCTURED"}

Put(f, x, v) == [y \in DOMAIN f \cup {x} |-> IF y = x THEN v ELSE f[y]]

OldHistory(id) == IF id \in DOMAIN history THEN history[id] ELSE NoHistory

\* A packet from Floor 1: ingest, validate, and for one that passes both stores and
\* the tracker.  A second delivery has the packet's first content.  A malformed payload
\* is counted as an error, which is left out.
Receive(id, p) ==
  /\ Called
  /\ sent' = Put(sent, id, p)
  /\ lastTimestamps' = [lastTimestamps EXCEPT ![<<p.source, p.feed>>] = NextTimestamp(id, p)]
  /\ seen' = IF TimestampOk(p) THEN seen \cup {id} ELSE seen
  /\ UNCHANGED cleaned
  /\ IF Valid(id, p)
     THEN /\ normalized' = Put(normalized, id, [stage |-> "VALIDATED", stored |-> now])
          /\ original' = Put(original, id, now)
          /\ history' = Put(history, id, Noted(OldHistory(id), "VALIDATED"))
          /\ since' = Put(since, id, now)
     ELSE UNCHANGED <<normalized, original, history, since>>
  /\ UNCHANGED <<now, health, events, cleared, streams, transmissions, overrides>>

\* clean_tick and clean_packet: a price of no use removes a tick
Removed(p) == p.feed = "spot_tick" /\ p.price \in {None, 0}

\* clean_options_snapshot makes a new record, without the packet's timestamp
KeepsTime(feed) == feed # "options_snapshot"

\* CleanedLayerWriter.write for a packet that is not removed, and advance
Clean(id) ==
  /\ Called
  /\ MayAdvance(normalized, id, "CLEANED") /\ ~Removed(sent[id])
  /\ cleaned' = IF id \in ToSet(cleaned) THEN cleaned ELSE Append(cleaned, id)
  /\ normalized' = [normalized EXCEPT ![id].stage = "CLEANED"]
  /\ since' = [since EXCEPT ![id] = now]
  /\ history' = [history EXCEPT ![id] = Noted(@, "CLEANED")]
  /\ UNCHANGED <<now, health, events, cleared, sent, lastTimestamps, original,
                 streams, transmissions, overrides, seen>>

\* reset
ResetStage(id) ==
  /\ Called
  /\ id \in DOMAIN history
  /\ history' = [history EXCEPT ![id] = [NoHistory EXCEPT !["RAW"] = now]]
  /\ IF id \in DOMAIN normalized
     THEN /\ normalized' = [normalized EXCEPT ![id].stage = "RAW"]
          /\ since' = [since EXCEPT ![id] = now]
     ELSE UNCHANGED <<normalized, since>>
  /\ UNCHANGED <<now, health, events, cleared, sent, lastTimestamps, original, cleaned,
                 streams, transmissions, overrides, seen>>

\* A caller's own advance: of a packet that was reset, or in place of the cleaning
Advance(id, stage) ==
  /\ Called
  /\ MayAdvance(normalized, id, stage)
  /\ normalized' = [normalized EXCEPT ![id].stage = stage]
  /\ since' = [since EXCEPT ![id] = IF stage = "RAW" THEN @ ELSE now]
  /\ history' = [history EXCEPT ![id] = Noted(@, stage)]
  /\ UNCHANGED <<now, health, events, cleared, sent, lastTimestamps, original, cleaned,
                 streams, transmissions, overrides, seen>>

-----------------------------------------------------------------------------
(* Streams. *)

\* The members of a finite set in an order: each one after those before it.
Sorted(before) ==
  [k \in 1..Cardinality(DOMAIN before) |-> CHOOSE x \in DOMAIN before : Cardinality(before[x]) = k - 1]

\* The elements of a sequence at some of its places, in their order.
Kept(s, places) ==
  LET order == Sorted([i \in places |-> {j \in places : j < i}])
  IN [k \in DOMAIN order |-> s[order[k]]]

\* CleanedLayerWriter.query: in the order of the store
Places(feed, sources) ==
  {i \in DOMAIN cleaned : sent[cleaned[i]].feed = feed /\ sent[cleaned[i]].source \in sources}

Entries(feed, sources) == Kept(cleaned, Places(feed, sources))

\* The entries whose time can be read.
Timed(feed, sources) == Kept(cleaned, {i \in Places(feed, sources) : sent[cleaned[i]].stamped})

\* build_tick_stream's sort: an entry without a time sorts as datetime.min, which has no
\* zone and cannot be compared with a time that has one
SortRaises(feed, sources) ==
  \E i, j \in Places(feed, sources) : ~sent[cleaned[i]].stamped /\ sent[cleaned[j]].stamped

\* ... which is stable; entries without a time are skipped after it
TicksInOrder(feed, sources) ==
  LET entries == Timed(feed, sources)
      at(i) == sent[entries[i]].at
      order == Sorted([i \in DOMAIN entries |->
                         {j \in DOMAIN entries : at(j) < at(i) \/ (at(j) = at(i) /\ j < i)}])
  IN [k \in DOMAIN order |-> entries[order[k]]]

\* A loop that ends once it has n, so that the oldest are kept.
FirstOf(s, n) == [k \in 1..(IF Len(s) < n THEN Len(s) ELSE n) |-> s[k]]

TickStream(feed, sources, max) == FirstOf(TicksInOrder(feed, sources), max)

\* Fault: rounds to the nearest minute.
RoundedMinute(id) == (sent[id].at + 1) \div 2

Minute(id) == sent[id].at \div 2

\* One candle of build_candle_stream: the ticks of its minute as the store has them
CandleOf(ids, minute) ==
  LET ticks == Kept(ids, {i \in DOMAIN ids : Minute(ids[i]) = minute})
      prices == {sent[id].price : id \in ToSet(ticks)}
  IN [minute |-> minute, count |-> Len(ticks), high |-> Max(prices), low |-> Min(prices),
      open |-> sent[ticks[1]].price, close |-> sent[ticks[Len(ticks)]].price]

\* build_candle_stream: entries without a time are in no minute
CandlesInOrder(feed, sources) ==
  LET ids == Timed(feed, sources)
      all == {Minute(id) : id \in ToSet(ids)}
      minutes == Sorted([m \in all |-> {x \in all : x < m}])
  IN [k \in DOMAIN minutes |-> CandleOf(ids, minutes[k])]

CandleStream(feed, sources, max) == FirstOf(CandlesInOrder(feed, sources), max)

\* build_options_snapshot_stream: entries without a time are skipped, and the cleaner's
\* record of an option has none
OptionsStream(sources) ==
  SelectSeq(Entries("options_snapshot", sources), LAMBDA id : KeepsTime(sent[id].feed))

Entry(type, size) == [type |-> type, size |-> size]

\* The streams of one round, each of the kind's one feed; a session packet is of its time.
\* The tick stream is the first, and nothing is written when its sort raises.
Build ==
  /\ Called
  /\ IF SortRaises("spot_tick", Sources) THEN UNCHANGED <<streams, normalized, history, since>>
     ELSE
     /\ streams' = streams \o <<Entry("TICK_STREAM", Len(TickStream("spot_tick", Sources, MaxTicks))),
                                Entry("CANDLE_STREAM", Len(CandleStream("spot_tick", Sources, MaxCandles))),
                                Entry("OPTIONS_SNAPSHOT", Len(OptionsStream(Sources))),
                                Entry("MACRO_SUPPORT", Len(Entries("vix_tick", Sources)))>>
     /\ LET done == {id \in DOMAIN normalized : MayAdvance(normalized, id, "STRUCTURED")
                                                /\ id \in ToSet(cleaned)}
        IN /\ normalized' = [id \in DOMAIN normalized |->
                 IF id \in done THEN [normalized[id] EXCEPT !.stage = "STRUCTURED"] ELSE normalized[id]]
           /\ history' = [id \in DOMAIN history |->
                 IF id \in done THEN Noted(history[id], "STRUCTURED") ELSE history[id]]
           /\ since' = [id \in DOMAIN since |-> IF id \in done THEN now ELSE since[id]]
  /\ UNCHANGED <<now, health, events, cleared, sent, lastTimestamps, original, cleaned,
                 transmissions, overrides, seen>>

\* get_by_type: every stream ever written, the macro streams all go to Floor 3
ByType(type) == SelectSeq(streams, LAMBDA e : e.type = type)

\* get_latest
LatestSize(type) ==
  LET entries == ByType(type) IN IF entries = <<>> THEN 0 ELSE entries[Len(entries)].size

-----------------------------------------------------------------------------
(* The handoff. *)

\* Floor3Handoff's categories that may be empty; the session packet, the side channel
\* and the hooks never are.
Handoff == [tick |-> LatestSize("TICK_STREAM"), candle |-> LatestSize("CANDLE_STREAM"),
            options |-> LatestSize("OPTIONS_SNAPSHOT"), macro |-> Len(ByType("MACRO_SUPPORT"))]

\* enforce_floor3_handoff
Complete(h) == \A category \in DOMAIN h : h[category] > 0

Transmission(to, h) == [to |-> to, handoff |-> h]

\* dispatch_all: a handoff that is refused raises before the other two
DispatchAll(enforce) ==
  /\ Called
  /\ transmissions' =
       IF enforce /\ ~Complete(Handoff) THEN transmissions
       ELSE transmissions \o <<Transmission("floor3", Handoff), Transmission("side_b", None),
                               Transmission("side_c", None)>>
  /\ UNCHANGED <<now, health, events, cleared, sent, streams, overrides>>
  /\ UNCHANGED layers

-----------------------------------------------------------------------------
(* Retention. *)

\* get_retention_duration_s
Retention(feed) == IF feed \in overrides THEN 0 ELSE Keep[DataClass(feed)]

\* get_expired_ids of a raw store
Expired(stored) == {id \in DOMAIN stored : now - stored[id] > Retention(sent[id].feed)}

SetPolicy(feed) ==
  /\ Called
  /\ feed \notin overrides
  /\ overrides' = overrides \cup {feed}
  /\ UNCHANGED <<now, health, events, cleared, sent, streams, transmissions>>
  /\ UNCHANGED layers

\* purge_expired, of the one or the other store; entries of the cleaned layer have none
\* of the times it looks for and never expire
PurgeNormalized ==
  LET old == Expired([id \in DOMAIN normalized |-> normalized[id].stored])
  IN /\ normalized' = Restrict(normalized, DOMAIN normalized \ old)
     /\ since' = Restrict(since, DOMAIN since \ old)
     /\ UNCHANGED <<lastTimestamps, original, cleaned, history, seen>>
     /\ UNCHANGED <<now, health, events, cleared, sent, streams, transmissions, overrides,
                    calls>>

PurgeOriginal ==
  /\ original' = Restrict(original, DOMAIN original \ Expired(original))
  /\ UNCHANGED <<lastTimestamps, normalized, cleaned, history, since, seen>>
  /\ UNCHANGED <<now, health, events, cleared, sent, streams, transmissions, overrides,
                 calls>>

-----------------------------------------------------------------------------

Tick ==
  /\ now < MaxNow
  /\ now' = now + 1
  /\ UNCHANGED <<health, events, cleared, sent, streams, transmissions, overrides, calls>>
  /\ UNCHANGED layers

Health ==
  /\ Called
  /\ HealthCall
  /\ UNCHANGED <<sent, streams, transmissions, overrides>>
  /\ UNCHANGED layers

Packets ==
  [source : Sources, feed : Feeds, at : 0..(MaxNow + 1), price : Prices \cup {None}, stamped : BOOLEAN]

\* A new packet is of the present, just before it or just ahead; only ticks have a price.
\* The time in a tick's payload may be a string that is none: no validator reads it.
\* (bound: such a tick is of the present and has one price)
Deliver ==
  \E id \in Ids :
    IF id \in DOMAIN sent THEN Receive(id, sent[id])
    ELSE \E p \in Packets : /\ p.at \in {now - 1, now, now + 1}
                            /\ p.feed # "spot_tick" => p.price = None /\ p.stamped
                            /\ p.stamped \/ (p.price = Min(Prices) /\ p.at = now)
                            /\ Receive(id, p)

Init ==
  /\ HealthInit
  /\ sent = <<>>
  /\ lastTimestamps = [k \in Sources \X Feeds |-> None]
  /\ normalized = <<>> /\ original = <<>> /\ cleaned = <<>>
  /\ history = <<>> /\ since = <<>> /\ seen = {}
  /\ streams = <<>> /\ transmissions = <<>>
  /\ overrides = {}
  /\ calls = 0

Next ==
  \/ Deliver
  \/ \E id \in Ids : Clean(id) \/ ResetStage(id) \/ \E stage \in ToSet(StageOrder) : Advance(id, stage)
  \/ Build
  \/ \E enforce \in BOOLEAN : DispatchAll(enforce)
  \/ \E feed \in Feeds : SetPolicy(feed)
  \/ PurgeNormalized \/ PurgeOriginal
  \/ Health
  \/ Tick

Spec == Init /\ [][Next]_vars

-----------------------------------------------------------------------------
(* Properties. *)

\* The places of a list's ticks that are of a minute.
Own(ticks, minute) == {i \in DOMAIN ticks : sent[ticks[i]].at \in {2 * minute, 2 * minute + 1}}

Before(minute, id) == 2 * minute + 1 < sent[id].at

\* A candle counts its ticks, has their extremes, and where they were written in the
\* order of their times their first and last price.
Tells(c, own, written) ==
  LET prices == [i \in DOMAIN own |-> sent[own[i]].price]
  IN /\ c.count = Len(prices) /\ prices # <<>>
     /\ c.high = Max(ToSet(prices)) /\ c.low = Min(ToSet(prices))
     /\ own = Kept(written, {i \in DOMAIN written : written[i] \in ToSet(own)})
          => c.open = prices[1] /\ c.close = prices[Len(prices)]

\* The candle stream and the tick stream of any choice of sources and of any maximum up
\* to the usual one tell the same story, unless the sort of the ticks raises: every tick
\* is in the candle of its minute, which has its extremes, and where ticks were written in
\* the order of their times its first and last price; the candles come in order.  Both
\* streams keep the oldest: a tick without a candle comes after the last candle of a full
\* stream, and a candle is short of ticks only from the minute on with which the ticks end.
\* (build_tick_stream, build_candle_stream)
CandlesMatchTicks ==
  \A chosen \in {x \in SUBSET Sources : ~SortRaises("spot_tick", x)}, maxTicks \in 1..MaxTicks :
    LET ticks == TickStream("spot_tick", chosen, maxTicks)
    IN \A maxCandles \in 1..MaxCandles :
         LET candles == CandleStream("spot_tick", chosen, maxCandles)
         IN /\ \A k \in 2..Len(candles) : candles[k - 1].minute < candles[k].minute
            /\ \A i \in DOMAIN ticks :
                 \/ \E k \in DOMAIN candles : i \in Own(ticks, candles[k].minute)
                 \/ Len(candles) = maxCandles /\ Before(candles[maxCandles].minute, ticks[i])
            /\ \A k \in DOMAIN candles :
                 LET minute == candles[k].minute
                 IN Len(ticks) < maxTicks \/ Before(minute, ticks[Len(ticks)])
                      => Tells(candles[k], Kept(ticks, Own(ticks, minute)), Timed("spot_tick", chosen))

\* A gap in a feed costs the one packet after it: no packet with a time that has been
\* seen is taken for a gap again, whether the first was rejected or not.
\* (ValidationRouter.validate)
GapCostsOnePacket == \A id \in seen : ContinuityOk(sent[id])

\* A packet is reported as stuck exactly when it has been short of the last stage for
\* longer than the timeout, also after a reset, a purge or a second delivery.
\* (find_stuck_packets, _get_last_advanced)
StuckAreFound ==
  StuckPackets = {id \in DOMAIN normalized : /\ normalized[id].stage # "STRUCTURED"
                                             /\ now - since[id] > StuckAfter}

=============================================================================
