------------------------------- MODULE Memory -------------------------------
(***************************************************************************)
(* Side C, the system's memory, and Side A's log that feeds it.            *)
(* (side_c_memory/, execution_logging_layer.py, blocked_action_journal.py) *)
(*                                                                         *)
(* An event is checked against the emitters' registry and the write        *)
(* contract of its family, put into an envelope, routed to one of three    *)
(* stores and indexed there.  A retention pass moves old envelopes to an   *)
(* archive or drops them.  Queries go through the indexes, and raise where *)
(* they have to sort records with a time among records without one.        *)
(*                                                                         *)
(* An index entry is a triple: which index, under which key, which record. *)
(***************************************************************************)
EXTENDS Integers, FiniteSets, Sequences

CONSTANTS
  Subjects,      \* what records are about: a trade and the decision behind it
  None,          \* a missing reference or time
  Inputs,        \* families of the events that are tried
  MaxAge,        \* RetentionPolicy.max_age_days, by class of families
  ArchiveAfter,  \* RetentionPolicy.archive_after_days of what is archived
  MaxEvents,     \* bound: envelopes, see Room
  MaxDay,        \* bound: last day of the clock
  RecentMax,     \* max_recent_events of Side A's log
  BlockedMax     \* max_records of the blocked-action journal

Stores == {"event_store", "journal_store", "reference_store"}

\* EventFamily, with the store the router sends it to: _ROUTING_TABLE
RoutingTable ==
  [TRADE_JOURNAL |-> "journal_store", DECISION_JOURNAL |-> "journal_store",
   EXECUTION_EVENT |-> "event_store", HEALTH_EVENT |-> "event_store",
   OVERRIDE |-> "event_store", BLOCKED_ACTION |-> "event_store",
   REPLAY_REF |-> "reference_store", REVIEW_REF |-> "reference_store"]

Families == DOMAIN RoutingTable

FamiliesOf(s) == {f \in Families : RoutingTable[f] = s}

\* DEFAULT_RETENTION_POLICIES: the journals and overrides longest, references shortest
PolicyClass(f) ==
  CASE f \in {"TRADE_JOURNAL", "DECISION_JOURNAL", "OVERRIDE"} -> "long"
    [] f \in {"EXECUTION_EVENT", "HEALTH_EVENT", "BLOCKED_ACTION"} -> "medium"
    [] f \in {"REPLAY_REF", "REVIEW_REF"} -> "short"

Policies == [age : Nat \ {0}, archive : Nat \cup {None}]

DefaultPolicy(f) ==
  [age |-> MaxAge[PolicyClass(f)], archive |-> ArchiveAfter[PolicyClass(f)]]

ASSUME MemoryAssumption ==
  /\ None \notin Subjects /\ None \notin Nat
  /\ Inputs \subseteq Families
  /\ \A f \in Families : DefaultPolicy(f) \in Policies
  /\ MaxAge.short <= MaxAge.medium /\ MaxAge.medium <= MaxAge.long
  /\ MaxEvents \in Nat \ {0} /\ MaxDay \in Nat
  /\ RecentMax \in Nat \ {0} /\ BlockedMax \in Nat \ {0}

VARIABLES
  router,    \* _event_router_callback is set
  sinks,     \* stores with a callback: _store_callbacks
  store,     \* _store of each store module
  index,     \* the index dictionaries of each store module
  archive,   \* _archives
  policy,    \* _active_policies
  day,       \* the clock, in days
  accepted,  \* history: envelopes made so far
  recent,    \* _recent_events of Side A's log, with whether Side C stored the event
  blocked    \* _records of the blocked-action journal

vars == <<router, sinks, store, index, archive, policy, day, accepted, recent, blocked>>

-----------------------------------------------------------------------------
(* Who may write what. *)

\* _APPROVED_EMITTERS
Approved ==
  [floor_1 |-> {"HEALTH_EVENT"},
   floor_2 |-> {"HEALTH_EVENT", "REPLAY_REF", "REVIEW_REF"},
   floor_5 |-> {"DECISION_JOURNAL"},
   side_a |-> {"TRADE_JOURNAL", "EXECUTION_EVENT", "BLOCKED_ACTION", "OVERRIDE"}]

Emitters == DOMAIN Approved \cup {"floor_3"}

\* is_emitter_approved, family_allowed_for_emitter
Allowed(emitter, family) == emitter \in DOMAIN Approved /\ family \in Approved[emitter]

\* _WRITE_CONTRACTS: the fields a payload must have
Required ==
  [TRADE_JOURNAL |-> {"trade_id", "entry", "exit", "pnl", "mode"},
   DECISION_JOURNAL |-> {"decision", "conviction_band", "reason"},
   EXECUTION_EVENT |-> {"order_id", "action", "status"},
   HEALTH_EVENT |-> {"state", "source_name"},
   OVERRIDE |-> {"reason", "override_type"},
   BLOCKED_ACTION |-> {"reason", "action", "block_level"},
   REPLAY_REF |-> {"ref_key", "replay_session_id"},
   REVIEW_REF |-> {"ref_key", "review_session_id"}]

\* validate_event_for_family, for an event with its top-level fields
ValidEvent(event) == Required[event.family] \subseteq event.payload

\* What ingest_event lets through.
Ingestible(event) == Allowed(event.emitter, event.family) /\ ValidEvent(event)

-----------------------------------------------------------------------------
(* Envelopes, stores and indexes. *)

NoRefs == [trade_id |-> None, decision_id |-> None, ref_key |-> None]

\* _parse_timestamp: a string that is no time gives None, and no error
ParsedTime(stamp) == IF stamp.valid THEN stamp.day ELSE None

\* ingest_event's normalisation: the payload does not get into the envelope
Envelope(event) ==
  [id |-> Cardinality(accepted) + 1, family |-> event.family, source |-> event.emitter,
   refs |-> event.refs, time |-> ParsedTime(event.stamp)]

\* The references each store has an index for.
RefIndexes(s) ==
  CASE s = "event_store" -> {}
    [] s = "journal_store" -> {"trade_id", "decision_id"}
    [] s = "reference_store" -> {"ref_key"}

FamilyEntry(e) == {<<"family", e.family, e.id>>}
SourceEntries(s, e) == IF s = "event_store" THEN {<<"source", e.source, e.id>>} ELSE {}
RefEntries(e, names) == {<<n, e.refs[n], e.id>> : n \in {m \in names : e.refs[m] # None}}

\* append_event, append_journal, store_reference file an envelope under these; the
\* severity's index is left out, it is like the source's
IndexEntries(s, e) == FamilyEntry(e) \cup SourceEntries(s, e) \cup RefEntries(e, RefIndexes(s))

\* _remove_from_indexes: whatever index the store's module has
RemovedEntries(s, e) ==
  FamilyEntry(e) \cup SourceEntries(s, e)
    \cup RefEntries(e, {n \in {"trade_id", "decision_id", "ref_key"} : n \in RefIndexes(s)})

\* route_event, for an envelope forwarded by ingest_event: without a callback the
\* event is logged and lost
Routed(e) == router /\ RoutingTable[e.family] \in sinks

\* ingest_event, down to the store's append; a refused event raises ValueError
IngestEvent(event) ==
  IF ~Ingestible(event) THEN UNCHANGED <<store, index, accepted>>
  ELSE LET e == Envelope(event)
           s == RoutingTable[e.family]
       IN /\ accepted' = accepted \cup {e}
          /\ IF Routed(e)
             THEN /\ store' = [store EXCEPT ![s] = @ \cup {e}]
                  /\ index' = [index EXCEPT ![s] = @ \cup IndexEntries(s, e)]
             ELSE UNCHANGED <<store, index>>

\* bound: envelopes and buffered events together
Room == Cardinality(accepted) + Len(recent) < MaxEvents

\* bound: without Side C, Side A's log fills and overflows freely for a day
LogRoom == Room \/ (~router /\ accepted = {} /\ day = 0)

\* A caller's event: any emitter, family and payload, and a subject where the
\* family refers to one.
Ingest ==
  /\ Room
  /\ \E m \in Emitters, f \in Inputs, full \in BOOLEAN, x \in Subjects \cup {None},
        stamp \in [valid : BOOLEAN, day : {0, day}] :
       /\ stamp.valid \/ stamp.day = 0
       /\ IngestEvent([emitter |-> m, family |-> f, stamp |-> stamp,
                       payload |-> IF full THEN Required[f] ELSE {},
                       refs |-> CASE RoutingTable[f] = "journal_store" ->
                                       [NoRefs EXCEPT !.trade_id = x, !.decision_id = x]
                                  [] RoutingTable[f] = "event_store" -> [NoRefs EXCEPT !.trade_id = x]
                                  [] OTHER -> [NoRefs EXCEPT !.ref_key = x]])
  /\ UNCHANGED <<router, sinks, archive, policy, day, recent, blocked>>

-----------------------------------------------------------------------------
(* Side A's log and its blocked-action journal. *)

\* The payload fields of events the orchestrator logs.
LogPayload ==
  [DECISION_ACCEPTED |-> {"trade_id", "order_id", "execution_path", "mode"},
   DECISION_BLOCKED |-> {"trade_id", "reason", "failed_checks"},
   OVERRIDE_APPLIED |-> {"trade_id", "override_type", "action", "data"},
   EMERGENCY_FLATTEN |-> {"trade_id", "new_state"}]

\* _resolve_family
ResolveFamily(type) ==
  CASE type = "DECISION_BLOCKED" -> "BLOCKED_ACTION"
    [] type = "OVERRIDE_APPLIED" -> "OVERRIDE"
    [] OTHER -> "EXECUTION_EVENT"

LastOf(s, n) == SubSeq(s, IF Len(s) > n THEN Len(s) - n + 1 ELSE 1, Len(s))

\* Fault: a full journal takes no more records.
RecordWhileRoom(trade) ==
  blocked' = IF Len(blocked) < BlockedMax THEN Append(blocked, trade) ELSE blocked

\* BlockedActionJournal.record
Record(trade) == blocked' = LastOf(Append(blocked, trade), BlockedMax)

\* log: Side C's refusal is logged, and the event buffered all the same
Log ==
  /\ LogRoom
  /\ \E type \in DOMAIN LogPayload, t \in Subjects :
       LET event == [emitter |-> "side_a", family |-> ResolveFamily(type),
                     stamp |-> [valid |-> TRUE, day |-> day],
                     payload |-> LogPayload[type] \cup {"event_type"},
                     refs |-> [NoRefs EXCEPT !.trade_id = t]]
       IN /\ IngestEvent(event)
          /\ recent' = LastOf(Append(recent, [type |-> type, trade |-> t,
                                              stored |-> Ingestible(event)]), RecentMax)
          /\ IF type = "DECISION_BLOCKED" THEN Record(t) ELSE UNCHANGED blocked
  /\ UNCHANGED <<router, sinks, archive, policy, day>>

-----------------------------------------------------------------------------
(* Retention. *)

Age(e) == day - e.time

\* apply_retention_policy: to_expire
Expires(e) ==
  LET p == policy[e.family] IN
  /\ e.time # None
  /\ Age(e) >= (IF p.archive = None THEN p.age ELSE p.age + p.archive)

\* Fault: counts the archive's days from the event as well.
GoesByArchiveAge(e) ==
  LET p == policy[e.family] IN
  /\ e.time # None /\ p.archive # None
  /\ Age(e) >= p.archive /\ ~Expires(e)

\* ... and to_archive
GoesToArchive(e) ==
  LET p == policy[e.family] IN
  /\ e.time # None /\ p.archive # None
  /\ Age(e) >= p.age /\ ~Expires(e)

\* What a pass finds: it looks records up in the family index.
Found(s) == {e \in store[s] : <<"family", e.family, e.id>> \in index[s]}

ApplyRetentionPolicy ==
  LET expired == [s \in Stores |-> {e \in Found(s) : Expires(e)}]
      moved == [s \in Stores |-> {e \in Found(s) : GoesToArchive(e)}]
  IN /\ store' = [s \in Stores |-> store[s] \ (expired[s] \cup moved[s])]
     /\ archive' = [s \in Stores |-> archive[s] \cup moved[s]]
     /\ index' = [s \in Stores |->
                   index[s] \ UNION {RemovedEntries(s, e) : e \in expired[s] \cup moved[s]}]
     /\ UNCHANGED <<router, sinks, policy, day, accepted, recent, blocked>>

-----------------------------------------------------------------------------
(* Queries. *)

Lookup(s, name, keys) == {i \in 1..MaxEvents : \E k \in keys : <<name, k, i>> \in index[s]}

InRange(e, from, to) ==
  /\ from = None \/ e.time = None \/ e.time >= from
  /\ to = None \/ e.time = None \/ e.time <= to

\* Fault: records that match either filter.
MatchEither(s, families, name, key, from, to) ==
  {e \in store[s] : /\ \/ e.id \in Lookup(s, "family", families)
                       \/ e.id \in Lookup(s, name, {key})
                    /\ InRange(e, from, to)}

\* The records that pass the filters: index sets intersected, an empty filter passes
\* everything
Matches(s, families, name, key, from, to) ==
  LET byFamily == IF families = {} THEN {e.id : e \in store[s]} ELSE Lookup(s, "family", families)
      byKey == IF key = None THEN {e.id : e \in store[s]} ELSE Lookup(s, name, {key})
  IN {e \in store[s] : e.id \in byFamily \cap byKey /\ InRange(e, from, to)}

\* Records that cannot be sorted: the key of one without a time is datetime.min, which
\* has no zone, and cannot be compared with the key of one that has a time.
Mixed(records) == \E e, f \in records : e.time = None /\ f.time # None

\* What a call comes to: it raises TypeError, or returns what it found.
Raises == [raised |-> TRUE, found |-> {}]
Returns(records) == [raised |-> FALSE, found |-> records]

\* results.sort(...) before the return
Sorted(records) == IF Mixed(records) THEN Raises ELSE Returns(records)

\* query_events, query_journals, query_references
QueryStore(s, families, name, key, from, to) == Sorted(Matches(s, families, name, key, from, to))

\* query: a store none of whose families is asked for is left out; what the others found
\* is sorted before the references are looked at
Query(families, refs, from, to) ==
  LET asked == {x \in Stores : families = {} \/ families \cap FamiliesOf(x) # {}}
      answers == {QueryStore(s, families \cap FamiliesOf(s), "family", None, from, to) : s \in asked}
      found == UNION {a.found : a \in answers}
  IN IF Mixed(found) \/ \E a \in answers : a.raised THEN Raises
     ELSE Returns({e \in found : \A n \in DOMAIN refs : refs[n] = None \/ e.refs[n] = refs[n]})

\* get_trade_history: the executions of every trade are asked for, and sorted, first
TradeHistory(t) ==
  LET journals == QueryStore("journal_store", FamiliesOf("journal_store"), "trade_id", t, None, None)
      executions == QueryStore("event_store", {"EXECUTION_EVENT"}, "family", None, None, None)
  IN IF journals.raised \/ executions.raised THEN Raises
     ELSE Sorted(journals.found \cup {e \in executions.found : e.refs.trade_id = t})

\* get_decision_history; a reference's key names its subject
DecisionHistory(d) ==
  LET journals == QueryStore("journal_store", {"DECISION_JOURNAL"}, "decision_id", d, None, None)
      reviews == QueryStore("reference_store", {"REVIEW_REF"}, "ref_key", d, None, None)
  IN IF journals.raised \/ reviews.raised THEN Raises
     ELSE Sorted(journals.found \cup reviews.found)

\* lookup_by_key: a scan when the index has nothing
LookupByKey(k) ==
  LET ids == Lookup("reference_store", "ref_key", {k})
  IN Sorted(IF ids # {} THEN {e \in store["reference_store"] : e.id \in ids}
            ELSE {e \in store["reference_store"] : e.refs.ref_key = k})

-----------------------------------------------------------------------------

\* set_event_router and set_store_callback: done before the first event
Wire ==
  /\ ~router /\ accepted = {} /\ recent = <<>> /\ day = 0
  /\ router' = TRUE
  /\ sinks' \in SUBSET Stores
  /\ UNCHANGED <<store, index, archive, policy, day, accepted, recent, blocked>>

\* set_retention_policy, with the shortest age; before the first event, too
SetRetentionPolicy ==
  /\ accepted = {} /\ recent = <<>> /\ day = 0
  /\ \E f \in Inputs :
       policy' = [[g \in Families |-> DefaultPolicy(g)] EXCEPT ![f] = [age |-> 1, archive |-> None]]
  /\ UNCHANGED <<router, sinks, store, index, archive, day, accepted, recent, blocked>>

Day ==
  /\ day < MaxDay
  /\ day' = day + 1
  /\ UNCHANGED <<router, sinks, store, index, archive, policy, accepted, recent, blocked>>

Init ==
  /\ router = FALSE /\ sinks = {}
  /\ store = [s \in Stores |-> {}]
  /\ index = [s \in Stores |-> {}]
  /\ archive = [s \in Stores |-> {}]
  /\ policy = [f \in Families |-> DefaultPolicy(f)]
  /\ day = 0
  /\ accepted = {}
  /\ recent = <<>> /\ blocked = <<>>

Next == Wire \/ SetRetentionPolicy \/ Ingest \/ Log \/ ApplyRetentionPolicy \/ Day

Spec == Init /\ [][Next]_vars

-----------------------------------------------------------------------------
(* Properties. *)

Held == UNION {store[s] : s \in Stores}

\* What a scan of the stores finds: the records of a trade, of a decision and its
\* reviews, of a reference's key, and of the families asked for.
OfTrade(x) ==
  {e \in Held : /\ e.refs.trade_id = x
                /\ e.family \in FamiliesOf("journal_store") \cup {"EXECUTION_EVENT"}}
OfDecision(x) ==
  {e \in Held : \/ e.family = "DECISION_JOURNAL" /\ e.refs.decision_id = x
                \/ e.family = "REVIEW_REF" /\ e.refs.ref_key = x}
OfKey(x) == {e \in Held : e.refs.ref_key = x}
Since(fs, from) ==
  {e \in Held : (fs = {} \/ e.family \in fs) /\ InRange(e, from, None)}

\* What the indexes lead to and what a scan of the stores finds is the same, for
\* every history and lookup and for queries across stores, before and after any
\* retention passes; and a call raises exactly when the records it sorts are some with
\* and some without a time.  Those are its own records, but for two: a trade's history
\* sorts the executions of all trades first, and a query sorts what it found before it
\* picks by reference, so another subject's record can make them raise.
\* (query, get_trade_history, get_decision_history, lookup_by_key)
QueriesAgree ==
  /\ \A x \in Subjects :
       /\ TradeHistory(x) =
            IF Mixed({e \in Held : e.family = "EXECUTION_EVENT"}) THEN Raises ELSE Sorted(OfTrade(x))
       /\ DecisionHistory(x) = Sorted(OfDecision(x))
       /\ LookupByKey(x) = Sorted(OfKey(x))
  /\ \A fs \in SUBSET Inputs, x \in Subjects \cup {None}, from \in {None, day} :
       Query(fs, [trade_id |-> x], from, None) =
         IF Mixed(Since(fs, from)) THEN Raises
         ELSE Returns({e \in Since(fs, from) : x = None \/ e.refs.trade_id = x})

\* An event that was routed to its store can be queried until it is as old as its
\* family's policy says, whatever passes were run and however late it came; after
\* that, and before the archive's time is over, it is still somewhere.
\* (apply_retention_policy)
Remembered ==
  \A e \in {x \in accepted : Routed(x) /\ x.time # None} :
    LET s == RoutingTable[e.family] IN
    /\ Age(e) < policy[e.family].age => e \in store[s]
    /\ ~Expires(e) => e \in store[s] \cup archive[s]

IsBlock(r) == r.type = "DECISION_BLOCKED"

\* How many blocks Side A's log holds from its i-th event on.
BlocksFrom(i) == Cardinality({j \in i..Len(recent) : IsBlock(recent[j])})

\* The two bounded records of blocked decisions, Side A's log for the dashboard and
\* the journal, tell the same last blocks: the k-th block from the end of the log is
\* the k-th record from the end of the journal, as far as both go back.
\* (BlockedActionJournal.record, log)
RingsAgree ==
  \A i \in DOMAIN recent :
    IsBlock(recent[i]) /\ BlocksFrom(i) <= Len(blocked) =>
      blocked[Len(blocked) - BlocksFrom(i) + 1] = recent[i].trade

\* log's docstring: "Log an execution event to Side C Memory and dashboard."
LoggedIsStored == \A i \in DOMAIN recent : recent[i].stored

=============================================================================
