---------------------------- MODULE MemoryProofs ----------------------------
(* What Side C keeps and finds again, for any families, ages, events, days    *)
(* and sizes of the two rings.                                                *)
EXTENDS Memory, FiniteSetTheorems, FunctionTheorems, SequenceTheorems, TLAPS

\* Envelopes are numbered as they come, and only references are filed by a key.
Numbered ==
  /\ IsFiniteSet(accepted)
  /\ Cardinality(accepted) <= MaxEvents
  /\ \A e \in accepted :
       /\ e.id \in 1..Cardinality(accepted)
       /\ e.family \in Families
       /\ e.time \in Nat \cup {None}
       /\ e.refs.ref_key # None => RoutingTable[e.family] = "reference_store"
  /\ \A e, f \in accepted : e.id = f.id => e = f

Policed ==
  /\ day \in Nat
  /\ \A f \in Families : policy[f].age \in Nat /\ policy[f].archive \in Nat \cup {None}

\* A store holds what was routed to it.
Placed ==
  /\ DOMAIN store = Stores
  /\ \A s \in Stores : \A e \in store[s] : e \in accepted /\ RoutingTable[e.family] = s

Entries(s) == UNION {IndexEntries(s, e) : e \in store[s]}

\* The indexes of a store are those of its records: no entry is missing, and none
\* outlives its record.
Indexed ==
  /\ DOMAIN index = Stores
  /\ \A s \in Stores : index[s] = Entries(s)

LoggedEvents == [type : DOMAIN LogPayload, trade : Subjects, stored : BOOLEAN]

Logs == recent \in Seq(LoggedEvents) /\ blocked \in Seq(Subjects)

IInv == Numbered /\ Policed /\ Placed /\ Indexed /\ Logs

-----------------------------------------------------------------------------
(* The model's operators. *)

\* Every family has a store.
LEMMA RouteIsAStore ==
  ASSUME NEW f \in Families
  PROVE  RoutingTable[f] \in Stores
BY DEF Families, RoutingTable, Stores

\* An index entry ends with the number of its record.
LEMMA EntryNames ==
  ASSUME NEW s, NEW e, NEW p \in IndexEntries(s, e)
  PROVE  p[3] = e.id
BY DEF IndexEntries, FamilyEntry, SourceEntries, RefEntries

\* _remove_from_indexes takes out what the appends put in.
LEMMA RemovesAll ==
  ASSUME NEW s \in Stores, NEW e
  PROVE  RemovedEntries(s, e) = IndexEntries(s, e)
<1>1. {n \in {"trade_id", "decision_id", "ref_key"} : n \in RefIndexes(s)} = RefIndexes(s)
  BY DEF Stores, RefIndexes
<1> QED BY <1>1 DEF RemovedEntries, IndexEntries

\* An entry in a store's index is one of the record with its number.
LEMMA EntryOfRecord ==
  ASSUME IInv, NEW s \in Stores, NEW e, e \in store[s], NEW n, NEW k
  PROVE  <<n, k, e.id>> \in index[s] <=> <<n, k, e.id>> \in IndexEntries(s, e)
<1>1. ASSUME <<n, k, e.id>> \in index[s] PROVE <<n, k, e.id>> \in IndexEntries(s, e)
  <2>1. PICK f \in store[s] : <<n, k, e.id>> \in IndexEntries(s, f)
    BY <1>1 DEF IInv, Indexed, Entries
  <2>2. f.id = e.id
    BY <2>1, EntryNames
  <2>3. f = e
    BY <2>2 DEF IInv, Placed, Numbered
  <2> QED BY <2>1, <2>3
<1>2. ASSUME <<n, k, e.id>> \in IndexEntries(s, e) PROVE <<n, k, e.id>> \in index[s]
  BY <1>2 DEF IInv, Indexed, Entries
<1> QED BY <1>1, <1>2

\* The family index leads to the records of the families asked for.
LEMMA LookupFamily ==
  ASSUME IInv, NEW s \in Stores, NEW e, e \in store[s], NEW fs
  PROVE  e.id \in Lookup(s, "family", fs) <=> e.family \in fs
<1>1. e.id \in 1..MaxEvents
  BY MemoryAssumption, FS_CardinalityType DEF IInv, Placed, Numbered
<1>2. ASSUME NEW k PROVE <<"family", k, e.id>> \in index[s] <=> k = e.family
  <2>1. <<"family", k, e.id>> \in IndexEntries(s, e) <=> k = e.family
    BY DEF IndexEntries, FamilyEntry, SourceEntries, RefEntries, RefIndexes, Stores
  <2> QED BY <2>1, EntryOfRecord
<1>3. e.id \in Lookup(s, "family", fs) <=> \E k \in fs : <<"family", k, e.id>> \in index[s]
  BY <1>1 DEF Lookup
<1> QED BY <1>2, <1>3, Zenon

\* A reference's index leads to the records with that reference.
LEMMA LookupRef ==
  ASSUME IInv, NEW s \in Stores, NEW e, e \in store[s], NEW n, n \in RefIndexes(s),
         NEW k, k # None
  PROVE  e.id \in Lookup(s, n, {k}) <=> e.refs[n] = k
<1>1. e.id \in 1..MaxEvents
  BY MemoryAssumption, FS_CardinalityType DEF IInv, Placed, Numbered
<1>2. n \in {"trade_id", "decision_id", "ref_key"}
  BY DEF RefIndexes, Stores
<1>3. <<n, k, e.id>> \in IndexEntries(s, e) <=> e.refs[n] = k
  <2>1. <<n, k, e.id>> \notin FamilyEntry(e) \cup SourceEntries(s, e)
    BY <1>2 DEF FamilyEntry, SourceEntries
  <2>2. <<n, k, e.id>> \in RefEntries(e, RefIndexes(s)) <=> e.refs[n] = k
    BY DEF RefEntries
  <2> QED BY <2>1, <2>2 DEF IndexEntries
<1> QED BY <1>1, <1>3, EntryOfRecord DEF Lookup

-----------------------------------------------------------------------------
(* Events come in. *)

\* Nothing is held in the beginning.
LEMMA InitIInv == Init => IInv
<1> SUFFICES ASSUME Init PROVE IInv
  OBVIOUS
<1>1. IsFiniteSet(accepted) /\ Cardinality(accepted) = 0
  BY FS_EmptySet DEF Init
<1>2. Numbered
  BY <1>1, MemoryAssumption DEF Init, Numbered
<1>3. Policed
  BY MemoryAssumption DEF Init, Policed, DefaultPolicy, Policies
<1>4. Placed /\ Indexed
  BY DEF Init, Placed, Indexed, Entries
<1>5. Logs
  BY DEF Init, Logs
<1> QED BY <1>2, <1>3, <1>4, <1>5 DEF IInv

\* ingest_event keeps the envelopes numbered, the stores and their indexes in step,
\* and forgets nothing.
LEMMA IngestKeeps ==
  ASSUME IInv, Remembered, Cardinality(accepted) < MaxEvents, NEW event, IngestEvent(event),
         event.family \in Families,
         ParsedTime(event.stamp) \in Nat \cup {None},
         event.refs.ref_key # None => RoutingTable[event.family] = "reference_store",
         UNCHANGED <<router, sinks, archive, policy, day>>
  PROVE  Numbered' /\ Policed' /\ Placed' /\ Indexed' /\ Remembered'
<1>1. Policed'
  BY DEF IInv, Policed
<1>2. CASE ~Ingestible(event)
  <2>1. UNCHANGED <<store, index, accepted>>
    BY <1>2 DEF IngestEvent
  <2>2. Numbered' /\ Placed' /\ Indexed'
    BY <2>1 DEF IInv, Numbered, Placed, Indexed, Entries
  <2>3. Remembered'
    BY <2>1 DEF Remembered, Routed, Age, Expires
  <2> QED BY <1>1, <2>2, <2>3
<1>3. CASE Ingestible(event)
  <2> DEFINE e == Envelope(event)
             s == RoutingTable[e.family]
  <2>0. /\ e.id = Cardinality(accepted) + 1 /\ e.family = event.family
        /\ e.refs = event.refs /\ e.time = ParsedTime(event.stamp)
    BY DEF Envelope
  <2>1. /\ accepted' = accepted \cup {e}
        /\ IF Routed(e)
           THEN /\ store' = [store EXCEPT ![s] = @ \cup {e}]
                /\ index' = [index EXCEPT ![s] = @ \cup IndexEntries(s, e)]
           ELSE UNCHANGED <<store, index>>
    BY <1>3 DEF IngestEvent
  <2> HIDE DEF e
  <2>2. s \in Stores
    BY <2>0, RouteIsAStore
  <2>3. Cardinality(accepted) \in Nat /\ Len(recent) \in Nat
    BY FS_CardinalityType DEF IInv, Numbered, Logs
  <2>4. e \notin accepted
    BY <2>0, <2>3 DEF IInv, Numbered
  <2>5. /\ IsFiniteSet(accepted')
        /\ Cardinality(accepted') = Cardinality(accepted) + 1
    BY <2>1, <2>4, FS_AddElement DEF IInv, Numbered
  <2>6. Numbered'
    <3>1. Cardinality(accepted') <= MaxEvents
      BY <2>3, <2>5, MemoryAssumption DEF Room
    <3>2. ASSUME NEW x \in accepted'
          PROVE  /\ x.id \in 1..Cardinality(accepted')
                 /\ x.family \in Families
                 /\ x.time \in Nat \cup {None}
                 /\ x.refs.ref_key # None => RoutingTable[x.family] = "reference_store"
      BY <2>0, <2>1, <2>3, <2>5 DEF IInv, Numbered
    <3>3. ASSUME NEW x \in accepted', NEW y \in accepted', x.id = y.id PROVE x = y
      BY <2>0, <2>1, <2>3, <3>3 DEF IInv, Numbered
    <3> QED BY <2>5, <3>1, <3>2, <3>3 DEF Numbered
  <2>7. CASE Routed(e)
    <3>1. /\ DOMAIN store' = Stores /\ DOMAIN index' = Stores
          /\ store'[s] = store[s] \cup {e}
          /\ index'[s] = index[s] \cup IndexEntries(s, e)
          /\ \A t \in Stores \ {s} : store'[t] = store[t] /\ index'[t] = index[t]
      BY <2>1, <2>2, <2>7 DEF IInv, Placed, Indexed
    <3>2. Placed'
      BY <2>1, <3>1 DEF IInv, Placed
    <3>3. ASSUME NEW t \in Stores PROVE index'[t] = UNION {IndexEntries(t, x) : x \in store'[t]}
      <4>1. CASE t = s
        BY <3>1, <4>1 DEF IInv, Indexed, Entries
      <4>2. CASE t # s
        BY <3>1, <4>2 DEF IInv, Indexed, Entries
      <4> QED BY <4>1, <4>2
    <3>4. Indexed'
      BY <3>1, <3>3 DEF Indexed, Entries
    <3>5. Remembered'
      <4> SUFFICES ASSUME NEW x \in accepted', Routed(x), x.time # None
                   PROVE  LET t == RoutingTable[x.family] IN
                          /\ Age(x) < policy[x.family].age => x \in store'[t]
                          /\ ~Expires(x) => x \in store'[t] \cup archive[t]
        BY DEF Remembered, Routed, Age, Expires
      <4>1. CASE x = e
        BY <3>1, <4>1
      <4>2. CASE x \in accepted
        <5>1. RoutingTable[x.family] \in Stores
          BY <4>2, RouteIsAStore DEF IInv, Numbered
        <5> QED BY <3>1, <4>2, <5>1 DEF Remembered
      <4> QED BY <2>1, <4>1, <4>2
    <3> QED BY <1>1, <2>6, <3>2, <3>4, <3>5
  <2>8. CASE ~Routed(e)
    <3>1. UNCHANGED <<store, index>>
      BY <2>1, <2>8
    <3>2. Placed' /\ Indexed'
      BY <2>1, <3>1 DEF IInv, Placed, Indexed, Entries
    <3>3. Remembered'
      <4> SUFFICES ASSUME NEW x \in accepted', Routed(x), x.time # None
                   PROVE  LET t == RoutingTable[x.family] IN
                          /\ Age(x) < policy[x.family].age => x \in store[t]
                          /\ ~Expires(x) => x \in store[t] \cup archive[t]
        BY <3>1 DEF Remembered, Routed, Age, Expires
      <4> QED BY <2>1, <2>8 DEF Remembered
    <3> QED BY <1>1, <2>6, <3>2, <3>3
  <2> QED BY <2>7, <2>8
<1> QED BY <1>2, <1>3

-----------------------------------------------------------------------------
(* Retention. *)

\* An event that may expire or move to the archive is as old as its policy says.
LEMMA OldEnough ==
  ASSUME IInv, NEW e \in accepted, e.time # None
  PROVE  /\ Expires(e) => ~(Age(e) < policy[e.family].age)
         /\ GoesToArchive(e) => (~(Age(e) < policy[e.family].age) /\ ~Expires(e))
<1>1. /\ e.time \in Nat /\ day \in Nat /\ policy[e.family].age \in Nat
      /\ policy[e.family].archive \in Nat \cup {None}
  BY DEF IInv, Numbered, Policed
<1>2. Age(e) \in Int
  BY <1>1 DEF Age
<1> QED BY <1>1, <1>2, MemoryAssumption DEF Expires, GoesToArchive

\* A retention pass keeps the indexes in step with the stores, and moves or drops
\* only what is old enough.
LEMMA RetentionKeeps ==
  ASSUME IInv, Remembered, ApplyRetentionPolicy
  PROVE  Placed' /\ Indexed' /\ Remembered'
<1> DEFINE Expired(s) == {e \in Found(s) : Expires(e)}
           Moved(s) == {e \in Found(s) : GoesToArchive(e)}
           Gone(s) == Expired(s) \cup Moved(s)
<1>1. /\ store' = [s \in Stores |-> store[s] \ Gone(s)]
      /\ archive' = [s \in Stores |-> archive[s] \cup Moved(s)]
      /\ index' = [s \in Stores |-> index[s] \ UNION {RemovedEntries(s, e) : e \in Gone(s)}]
      /\ UNCHANGED <<router, sinks, policy, day, accepted>>
  BY DEF ApplyRetentionPolicy
<1>2. \A s \in Stores : Gone(s) \subseteq store[s]
  BY DEF Found
<1>3. Placed'
  BY <1>1 DEF IInv, Placed
<1>4. ASSUME NEW s \in Stores
      PROVE  index'[s] = UNION {IndexEntries(s, e) : e \in store'[s]}
  <2>1. index'[s] = index[s] \ UNION {IndexEntries(s, e) : e \in Gone(s)}
    <3>1. UNION {RemovedEntries(s, e) : e \in Gone(s)} = UNION {IndexEntries(s, e) : e \in Gone(s)}
      BY RemovesAll
    <3> HIDE DEF Gone
    <3> QED BY <1>1, <3>1
  <2>2. store'[s] = store[s] \ Gone(s)
    BY <1>1
  <2>3. index[s] = UNION {IndexEntries(s, e) : e \in store[s]}
    BY DEF IInv, Indexed, Entries
  <2>4. ASSUME NEW e \in store[s], NEW f \in store[s], NEW p \in IndexEntries(s, e),
               p \in IndexEntries(s, f)
        PROVE  e = f
    <3>1. e.id = f.id
      BY <2>4, EntryNames
    <3> QED BY <3>1 DEF IInv, Placed, Numbered
  <2> HIDE DEF Gone
  <2> QED BY <1>2, <2>1, <2>2, <2>3, <2>4
<1>5. Indexed'
  BY <1>1, <1>4 DEF Indexed, Entries
<1>6. Remembered'
  <2> SUFFICES ASSUME NEW x \in accepted, Routed(x), x.time # None
               PROVE  LET t == RoutingTable[x.family] IN
                      /\ Age(x) < policy[x.family].age => x \in store'[t]
                      /\ ~Expires(x) => x \in store'[t] \cup archive'[t]
    BY <1>1 DEF Remembered, Routed, Age, Expires
  <2> DEFINE t == RoutingTable[x.family]
  <2>1. t \in Stores
    BY RouteIsAStore DEF IInv, Numbered
  <2>2. /\ Age(x) < policy[x.family].age => x \in store[t]
        /\ ~Expires(x) => x \in store[t] \cup archive[t]
    BY DEF Remembered
  <2>3. store'[t] = store[t] \ Gone(t) /\ archive'[t] = archive[t] \cup Moved(t)
    BY <1>1, <2>1
  <2>4. x \in Gone(t) => Expires(x) \/ (x \in Moved(t) /\ GoesToArchive(x))
    OBVIOUS
  <2> HIDE DEF Gone, Moved, t
  <2>5. Age(x) < policy[x.family].age => x \in store'[t]
    BY <2>2, <2>3, <2>4, OldEnough
  <2>6. ~Expires(x) => x \in store'[t] \cup archive'[t]
    BY <2>2, <2>3, <2>4
  <2> QED BY <2>5, <2>6 DEF t
<1> QED BY <1>3, <1>5, <1>6

\* What may be wired or set before the first event touches no envelope.
LEMMA SetupKeeps ==
  ASSUME IInv, Remembered, Wire \/ SetRetentionPolicy
  PROVE  IInv' /\ Remembered'
<1>1. /\ accepted = {}
      /\ UNCHANGED <<store, index, archive, day, accepted, recent, blocked>>
  BY DEF Wire, SetRetentionPolicy
<1>2. Remembered'
  BY <1>1 DEF Remembered
<1>3. Policed'
  <2>1. CASE Wire
    BY <2>1 DEF Wire, IInv, Policed
  <2>2. CASE SetRetentionPolicy
    <3>1. PICK f \in Inputs :
            policy' = [[g \in Families |-> DefaultPolicy(g)] EXCEPT ![f] = [age |-> 1, archive |-> None]]
      BY <2>2 DEF SetRetentionPolicy
    <3>2. ASSUME NEW g \in Families
          PROVE  policy'[g] = [age |-> 1, archive |-> None] \/ policy'[g] = DefaultPolicy(g)
      BY <3>1
    <3>3. \A g \in Families : DefaultPolicy(g).age \in Nat /\ DefaultPolicy(g).archive \in Nat \cup {None}
      BY MemoryAssumption DEF Policies
    <3> QED BY <1>1, <3>2, <3>3 DEF IInv, Policed
  <2> QED BY <2>1, <2>2
<1>4. Numbered' /\ Placed' /\ Indexed' /\ Logs'
  BY <1>1 DEF IInv, Numbered, Placed, Indexed, Entries, Logs
<1> QED BY <1>2, <1>3, <1>4 DEF IInv

\* A later day makes no event younger.
LEMMA DayKeeps ==
  ASSUME IInv, Remembered, Day
  PROVE  IInv' /\ Remembered'
<1>1. /\ day' = day + 1
      /\ UNCHANGED <<router, sinks, store, index, archive, policy, accepted, recent, blocked>>
  BY DEF Day
<1>2. IInv'
  BY <1>1 DEF IInv, Numbered, Policed, Placed, Indexed, Entries, Logs
<1>3. ASSUME NEW x \in accepted, x.time # None
      PROVE  /\ Age(x)' < policy[x.family].age => Age(x) < policy[x.family].age
             /\ Expires(x) => Expires(x)'
  <2>1. /\ x.time \in Nat /\ day \in Nat /\ policy[x.family].age \in Nat
        /\ policy[x.family].archive \in Nat \cup {None}
    BY <1>3 DEF IInv, Numbered, Policed
  <2> QED BY <1>1, <2>1, <1>3 DEF Age, Expires
<1>4. Remembered'
  BY <1>1, <1>3 DEF Remembered, Routed
<1> QED BY <1>2, <1>4

-----------------------------------------------------------------------------
(* Side A's two rings. *)

\* Sequence t is sequence s without its first k elements.
Dropped(s, t, k) ==
  /\ k \in 0..Len(s)
  /\ Len(t) = Len(s) - k
  /\ \A i \in 1..Len(t) : t[i] = s[i + k]

BlockPlaces(r, i) == {j \in i..Len(r) : IsBlock(r[j])}

Count(r, i) == Cardinality(BlockPlaces(r, i))

\* RingsAgree for any log and any journal.
Agree(r, b) ==
  \A i \in 1..Len(r) :
    IsBlock(r[i]) /\ Count(r, i) <= Len(b) => b[Len(b) - Count(r, i) + 1] = r[i].trade

\* A ring drops its oldest entries.
LEMMA LastOfDrops ==
  ASSUME NEW S, NEW s \in Seq(S), NEW n \in Nat \ {0}
  PROVE  LastOf(s, n) \in Seq(S) /\ \E k \in Nat : Dropped(s, LastOf(s, n), k)
<1> DEFINE k == IF Len(s) > n THEN Len(s) - n ELSE 0
           m == IF Len(s) > n THEN Len(s) - n + 1 ELSE 1
<1>1. Len(s) \in Nat /\ \A i \in 1..Len(s) : s[i] \in S
  BY ElementOfSeq, LenProperties
<1>2. m \in Int /\ m = k + 1 /\ k \in 0..Len(s) /\ k \in Nat
  BY <1>1
<1>3. LastOf(s, n) = SubSeq(s, m, Len(s))
  BY DEF LastOf
<1> HIDE DEF k, m
<1>4. \A i \in m..Len(s) : s[i] \in S
  BY <1>1, <1>2
<1>5. /\ SubSeq(s, m, Len(s)) \in Seq(S)
      /\ Len(SubSeq(s, m, Len(s))) = IF m <= Len(s) THEN Len(s) - m + 1 ELSE 0
      /\ \A i \in 1..(Len(s) - m + 1) : SubSeq(s, m, Len(s))[i] = s[m + i - 1]
  BY <1>1, <1>2, <1>4, SubSeqProperties
<1>6. Len(LastOf(s, n)) = Len(s) - k
  BY <1>1, <1>2, <1>3, <1>5
<1>7. ASSUME NEW i \in 1..Len(LastOf(s, n)) PROVE LastOf(s, n)[i] = s[i + k]
  <2>1. i \in 1..(Len(s) - m + 1) /\ m + i - 1 = i + k
    BY <1>1, <1>2, <1>6
  <2> QED BY <1>3, <1>5, <2>1
<1>8. Dropped(s, LastOf(s, n), k)
  BY <1>2, <1>6, <1>7 DEF Dropped
<1> QED BY <1>2, <1>3, <1>5, <1>8

LEMMA PlacesFinite ==
  ASSUME NEW r, Len(r) \in Nat, NEW i \in Int
  PROVE  IsFiniteSet(BlockPlaces(r, i)) /\ Count(r, i) \in Nat
<1>1. IsFiniteSet(i..Len(r))
  BY FS_Interval
<1>2. BlockPlaces(r, i) \subseteq i..Len(r)
  BY DEF BlockPlaces
<1> QED BY <1>1, <1>2, FS_Subset, FS_CardinalityType DEF Count

\* Dropping older events changes no count.
LEMMA DropKeepsCount ==
  ASSUME NEW r, NEW q, NEW k, Len(r) \in Nat, Dropped(r, q, k), NEW i \in 1..Len(q)
  PROVE  Count(q, i) = Count(r, i + k)
<1> DEFINE A == BlockPlaces(q, i)
           B == BlockPlaces(r, i + k)
           f == [j \in A |-> j + k]
<1>1. k \in Nat /\ Len(q) \in Nat /\ Len(q) = Len(r) - k
  BY DEF Dropped
<1>2. ASSUME NEW j \in A PROVE j + k \in B
  <2>1. j \in i..Len(q) /\ IsBlock(q[j]) /\ j \in 1..Len(q)
    BY <1>1 DEF BlockPlaces
  <2>2. q[j] = r[j + k]
    BY <2>1 DEF Dropped
  <2> QED BY <1>1, <2>1, <2>2 DEF BlockPlaces
<1>3. ASSUME NEW j \in B PROVE j - k \in A
  <2>1. j \in (i + k)..Len(r) /\ IsBlock(r[j])
    BY DEF BlockPlaces
  <2>2. j - k \in i..Len(q) /\ j - k \in 1..Len(q)
    BY <1>1, <2>1
  <2>3. q[j - k] = r[(j - k) + k] /\ (j - k) + k = j
    BY <1>1, <2>1, <2>2 DEF Dropped
  <2> QED BY <2>1, <2>2, <2>3 DEF BlockPlaces
<1>4. A \subseteq Int /\ B \subseteq Int
  BY <1>1 DEF BlockPlaces
<1> HIDE DEF A, B
<1>5. f \in Bijection(A, B)
  <2>1. f \in [A -> B]
    BY <1>2
  <2>2. \A x, y \in A : f[x] = f[y] => x = y
    BY <1>1, <1>4
  <2>3. \A y \in B : \E x \in A : f[x] = y
    BY <1>1, <1>3, <1>4
  <2> QED BY <2>1, <2>2, <2>3 DEF Bijection, Injection, IsInjective, Surjection
<1>6. IsFiniteSet(A)
  <2>1. i \in Int
    BY <1>1
  <2> QED BY <1>1, <2>1, PlacesFinite DEF A
<1> QED BY <1>5, <1>6, FS_Bijection DEF ExistsBijection, Count, A, B

\* A block is counted from its own place.
LEMMA CountsItself ==
  ASSUME NEW r, Len(r) \in Nat, NEW i \in 1..Len(r), IsBlock(r[i])
  PROVE  Count(r, i) \in Nat \ {0}
<1>1. i \in BlockPlaces(r, i)
  BY DEF BlockPlaces
<1>2. IsFiniteSet(BlockPlaces(r, i)) /\ Count(r, i) \in Nat
  BY PlacesFinite
<1> QED BY <1>1, <1>2, FS_EmptySet DEF Count

\* Two rings agree however much each has dropped.
LEMMA DropKeepsAgreement ==
  ASSUME NEW r, NEW b, NEW q, NEW c, NEW k, NEW m, Len(r) \in Nat, Len(b) \in Nat,
         Agree(r, b), Dropped(r, q, k), Dropped(b, c, m)
  PROVE  Agree(q, c)
<1> SUFFICES ASSUME NEW i \in 1..Len(q), IsBlock(q[i]), Count(q, i) <= Len(c)
             PROVE  c[Len(c) - Count(q, i) + 1] = q[i].trade
  BY DEF Agree
<1>1. /\ k \in Nat /\ Len(q) \in Nat /\ Len(q) = Len(r) - k
      /\ m \in Nat /\ Len(c) \in Nat /\ Len(c) = Len(b) - m
  BY DEF Dropped
<1>2. i + k \in 1..Len(r) /\ q[i] = r[i + k]
  BY <1>1 DEF Dropped
<1>3. Count(q, i) = Count(r, i + k)
  BY DropKeepsCount
<1>4. Count(q, i) \in Nat \ {0}
  BY <1>1, CountsItself
<1>5. b[Len(b) - Count(q, i) + 1] = q[i].trade
  BY <1>1, <1>2, <1>3, <1>4 DEF Agree
<1>6. /\ Len(c) - Count(q, i) + 1 \in 1..Len(c)
      /\ (Len(c) - Count(q, i) + 1) + m = Len(b) - Count(q, i) + 1
  BY <1>1, <1>4
<1>7. c[Len(c) - Count(q, i) + 1] = b[(Len(c) - Count(q, i) + 1) + m]
  BY <1>6 DEF Dropped
<1> QED BY <1>5, <1>6, <1>7

\* Two rings agree after an event is logged, and recorded when it is a block.
LEMMA AppendKeepsAgreement ==
  ASSUME NEW S, NEW r \in Seq(S), NEW T, NEW b \in Seq(T), NEW x,
         NEW c, IF IsBlock(x) THEN c = Append(b, x.trade) ELSE c = b,
         Agree(r, b)
  PROVE  Agree(Append(r, x), c)
<1> DEFINE R == Append(r, x)
           n == Len(r)
<1>1. n \in Nat /\ Len(b) \in Nat
  BY LenProperties
<1>2. /\ Len(R) = n + 1 /\ R[n + 1] = x
      /\ \A i \in 1..n : R[i] = r[i]
  BY AppendProperties
<1>3. /\ IsBlock(x) => /\ Len(c) = Len(b) + 1 /\ c[Len(b) + 1] = x.trade
                       /\ \A i \in 1..Len(b) : c[i] = b[i]
      /\ ~IsBlock(x) => c = b
  BY AppendProperties
<1> HIDE DEF R, n
<1> SUFFICES ASSUME NEW i \in 1..Len(R), IsBlock(R[i]), Count(R, i) <= Len(c)
             PROVE  c[Len(c) - Count(R, i) + 1] = R[i].trade
  BY DEF Agree, R
<1>4. CASE i = n + 1
  <2>1. BlockPlaces(R, i) = {n + 1}
    BY <1>1, <1>2, <1>4 DEF BlockPlaces
  <2>2. Count(R, i) = 1
    BY <2>1, FS_Singleton DEF Count
  <2> QED BY <1>1, <1>2, <1>3, <1>4, <2>2
<1>5. CASE i \in 1..n
  <2>1. R[i] = r[i] /\ IsBlock(r[i])
    BY <1>2, <1>5
  <2>2. Count(r, i) \in Nat \ {0} /\ IsFiniteSet(BlockPlaces(r, i))
    BY <1>1, <1>5, <2>1, CountsItself, PlacesFinite DEF n
  <2>3. BlockPlaces(R, i) = BlockPlaces(r, i) \cup {j \in {n + 1} : IsBlock(x)}
    <3>1. i..Len(R) = (i..n) \cup {n + 1}
      <4> SUFFICES ASSUME NEW m \in Nat, m = n, NEW k \in 1..m, k = i
                   PROVE  k..(m + 1) = (k..m) \cup {m + 1}
        BY <1>1, <1>2, <1>5
      <4> QED OBVIOUS
    <3>2. \A j \in i..n : R[j] = r[j]
      BY <1>1, <1>2, <1>5
    <3>3. BlockPlaces(r, i) = {j \in i..n : IsBlock(R[j])}
      BY <3>2 DEF BlockPlaces, n
    <3> QED BY <1>2, <3>1, <3>3 DEF BlockPlaces
  <2>4. n + 1 \notin BlockPlaces(r, i)
    BY <1>1 DEF BlockPlaces, n
  <2>5. CASE IsBlock(x)
    <3>1. BlockPlaces(R, i) = BlockPlaces(r, i) \cup {n + 1}
      BY <2>3, <2>5
    <3>2. Count(R, i) = Count(r, i) + 1
      BY <2>2, <2>4, <3>1, FS_AddElement DEF Count
    <3>3. /\ Len(c) = Len(b) + 1 /\ \A j \in 1..Len(b) : c[j] = b[j]
          /\ Count(r, i) <= Len(b)
      BY <1>1, <1>3, <2>2, <2>5, <3>2
    <3>4. /\ Len(c) - Count(R, i) + 1 = Len(b) - Count(r, i) + 1
          /\ Len(b) - Count(r, i) + 1 \in 1..Len(b)
      BY <1>1, <2>2, <3>2, <3>3
    <3>5. b[Len(b) - Count(r, i) + 1] = r[i].trade
      BY <1>5, <2>1, <3>3 DEF Agree, n
    <3> QED BY <2>1, <3>3, <3>4, <3>5
  <2>6. CASE ~IsBlock(x)
    <3>1. BlockPlaces(R, i) = BlockPlaces(r, i) /\ c = b
      BY <1>3, <2>3, <2>6
    <3> QED BY <1>5, <2>1, <3>1 DEF Agree, Count, n
  <2> QED BY <2>5, <2>6
<1> QED BY <1>1, <1>2, <1>4, <1>5

\* RingsAgree is the agreement of Side A's log with its journal.
LEMMA RingsAreAgree == Logs => (RingsAgree <=> Agree(recent, blocked))
<1> SUFFICES ASSUME Logs PROVE RingsAgree <=> Agree(recent, blocked)
  OBVIOUS
<1>1. \A i : BlocksFrom(i) = Count(recent, i)
  BY DEF BlocksFrom, Count, BlockPlaces
<1>2. DOMAIN recent = 1..Len(recent)
  BY LenProperties DEF Logs
<1> QED BY <1>1, <1>2 DEF RingsAgree, Agree

-----------------------------------------------------------------------------
(* Every step. *)

Inv == IInv /\ Remembered /\ Agree(recent, blocked)

\* Within the bounds there is a number left for the next envelope.
LEMMA NumbersLeft == Inv /\ LogRoom => Cardinality(accepted) < MaxEvents
<1> SUFFICES ASSUME Inv, LogRoom PROVE Cardinality(accepted) < MaxEvents
  OBVIOUS
<1>1. Cardinality(accepted) \in Nat /\ Len(recent) \in Nat
  BY FS_CardinalityType, LenProperties DEF Inv, IInv, Numbered, Logs
<1>2. CASE Room
  <2> DEFINE n == Cardinality(accepted)
             l == Len(recent)
  <2>1. n \in Nat /\ l \in Nat /\ n + l < MaxEvents
    BY <1>1, <1>2 DEF Room
  <2> HIDE DEF n, l
  <2>2. n < MaxEvents
    BY <2>1, MemoryAssumption
  <2> QED BY <2>2 DEF n
<1>3. CASE accepted = {}
  BY <1>3, FS_EmptySet, MemoryAssumption
<1> QED BY <1>2, <1>3 DEF LogRoom

\* A caller's event fits the envelope's invariant.
LEMMA IngestInv ==
  ASSUME Inv, Ingest
  PROVE  Inv'
<1>1. /\ UNCHANGED <<router, sinks, archive, policy, day, recent, blocked>>
      /\ Cardinality(accepted) < MaxEvents
  BY NumbersLeft DEF Ingest, LogRoom
<1>2. PICK m \in Emitters, f \in Inputs, full \in BOOLEAN, x \in Subjects \cup {None},
           stamp \in [valid : BOOLEAN, day : {0, day}] :
        IngestEvent([emitter |-> m, family |-> f, stamp |-> stamp,
                     payload |-> IF full THEN Required[f] ELSE {},
                     refs |-> CASE RoutingTable[f] = "journal_store" ->
                                     [NoRefs EXCEPT !.trade_id = x, !.decision_id = x]
                                [] RoutingTable[f] = "event_store" -> [NoRefs EXCEPT !.trade_id = x]
                                [] OTHER -> [NoRefs EXCEPT !.ref_key = x]])
  BY DEF Ingest
<1> DEFINE refs == CASE RoutingTable[f] = "journal_store" ->
                          [NoRefs EXCEPT !.trade_id = x, !.decision_id = x]
                     [] RoutingTable[f] = "event_store" -> [NoRefs EXCEPT !.trade_id = x]
                     [] OTHER -> [NoRefs EXCEPT !.ref_key = x]
           event == [emitter |-> m, family |-> f, stamp |-> stamp,
                     payload |-> IF full THEN Required[f] ELSE {}, refs |-> refs]
<1>3. f \in Families /\ RoutingTable[f] \in Stores
  BY MemoryAssumption, RouteIsAStore
<1>4. refs.ref_key # None => RoutingTable[f] = "reference_store"
  <2>1. CASE RoutingTable[f] = "journal_store"
    BY <2>1 DEF NoRefs
  <2>2. CASE RoutingTable[f] = "event_store"
    BY <2>2 DEF NoRefs
  <2>3. CASE RoutingTable[f] = "reference_store"
    BY <2>3
  <2> QED BY <1>3, <2>1, <2>2, <2>3 DEF Stores
<1>5. ParsedTime(stamp) \in Nat \cup {None}
  BY DEF ParsedTime, Inv, IInv, Policed
<1> HIDE DEF refs
<1>6. event.family = f /\ event.stamp = stamp /\ event.refs = refs
  OBVIOUS
<1>7. IngestEvent(event)
  BY <1>2 DEF refs
<1> HIDE DEF event
<1>8. Numbered' /\ Policed' /\ Placed' /\ Indexed' /\ Remembered'
  BY <1>1, <1>3, <1>4, <1>5, <1>6, <1>7, IngestKeeps DEF Inv
<1>9. Logs' /\ Agree(recent', blocked')
  BY <1>1 DEF Inv, IInv, Logs
<1> QED BY <1>8, <1>9 DEF Inv, IInv

\* An event of Side A's log is one the envelopes' invariant allows, and the two rings
\* take it together.
LEMMA LogInv ==
  ASSUME Inv, Log
  PROVE  Inv'
<1>1. UNCHANGED <<router, sinks, archive, policy, day>> /\ Cardinality(accepted) < MaxEvents
  BY NumbersLeft DEF Log
<1> DEFINE Logged(type, t) ==
             [emitter |-> "side_a", family |-> ResolveFamily(type),
              stamp |-> [valid |-> TRUE, day |-> day],
              payload |-> LogPayload[type] \cup {"event_type"},
              refs |-> [NoRefs EXCEPT !.trade_id = t]]
           Buffered(type, t) ==
             [type |-> type, trade |-> t, stored |-> Ingestible(Logged(type, t))]
<1>2. PICK type \in DOMAIN LogPayload, t \in Subjects :
        /\ IngestEvent(Logged(type, t))
        /\ recent' = LastOf(Append(recent, Buffered(type, t)), RecentMax)
        /\ IF type = "DECISION_BLOCKED" THEN Record(t) ELSE UNCHANGED blocked
  BY DEF Log
<1> DEFINE event == Logged(type, t)
           x == Buffered(type, t)
           B == IF IsBlock(x) THEN Append(blocked, t) ELSE blocked
<1>3. event.family \in Families
  BY DEF ResolveFamily, Families, RoutingTable
<1>4. event.refs.ref_key = None /\ ParsedTime(event.stamp) = day
  BY DEF NoRefs, ParsedTime
<1>5. /\ x \in LoggedEvents /\ x.trade = t
      /\ IsBlock(x) <=> type = "DECISION_BLOCKED"
  BY DEF LoggedEvents, IsBlock, Ingestible, Allowed, ValidEvent
<1> HIDE DEF Logged, Buffered, x
<1>6. Numbered' /\ Policed' /\ Placed' /\ Indexed' /\ Remembered'
  <2>1. ParsedTime(event.stamp) \in Nat
    BY <1>4 DEF Inv, IInv, Policed
  <2> HIDE DEF event
  <2> QED BY <1>1, <1>2, <1>3, <1>4, <2>1, IngestKeeps DEF Inv, event
<1>7. recent \in Seq(LoggedEvents) /\ blocked \in Seq(Subjects)
  BY DEF Inv, IInv, Logs
<1>8. /\ Append(recent, x) \in Seq(LoggedEvents) /\ B \in Seq(Subjects)
      /\ Len(Append(recent, x)) \in Nat /\ Len(B) \in Nat
  BY <1>5, <1>7, AppendProperties, LenProperties
<1>9. Agree(Append(recent, x), B)
  <2>1. IF IsBlock(x) THEN B = Append(blocked, x.trade) ELSE B = blocked
    BY <1>5
  <2> HIDE DEF B
  <2> QED BY <1>7, <2>1, AppendKeepsAgreement DEF Inv
<1>10. PICK k \in Nat : Dropped(Append(recent, x), recent', k)
  BY <1>2, <1>8, MemoryAssumption, LastOfDrops DEF x
<1>11. recent' \in Seq(LoggedEvents)
  BY <1>2, <1>8, MemoryAssumption, LastOfDrops DEF x
<1>12. blocked' \in Seq(Subjects) /\ \E m \in Nat : Dropped(B, blocked', m)
  <2>1. CASE IsBlock(x)
    <3>1. blocked' = LastOf(Append(blocked, t), BlockedMax)
      BY <1>2, <1>5, <2>1 DEF Record
    <3>2. B = Append(blocked, t)
      BY <2>1
    <3> HIDE DEF B
    <3> QED BY <1>8, <3>1, <3>2, MemoryAssumption, LastOfDrops
  <2>2. CASE ~IsBlock(x)
    <3>1. blocked' = blocked /\ B = blocked
      BY <1>2, <1>5, <2>2
    <3>2. Len(blocked) \in Nat
      BY <1>7, LenProperties
    <3>3. Dropped(blocked, blocked, 0)
      BY <3>2 DEF Dropped
    <3> QED BY <1>7, <3>1, <3>3
  <2> QED BY <2>1, <2>2
<1>13. PICK m \in Nat : Dropped(B, blocked', m)
  BY <1>12
<1>14. Agree(recent', blocked')
  <2> HIDE DEF B
  <2> QED BY <1>8, <1>9, <1>10, <1>13, DropKeepsAgreement
<1> QED BY <1>6, <1>11, <1>12, <1>14 DEF Inv, IInv, Logs

\* No step of Side C or of Side A's log breaks the invariant.
LEMMA NextInv == Inv /\ [Next]_vars => Inv'
<1> SUFFICES ASSUME Inv, [Next]_vars PROVE Inv'
  OBVIOUS
<1>1. CASE Ingest
  BY <1>1, IngestInv
<1>2. CASE Log
  BY <1>2, LogInv
<1>3. CASE Wire \/ SetRetentionPolicy
  <2>1. UNCHANGED <<recent, blocked>>
    BY <1>3 DEF Wire, SetRetentionPolicy
  <2> QED BY <1>3, <2>1, SetupKeeps DEF Inv
<1>4. CASE Day
  <2>1. UNCHANGED <<recent, blocked>>
    BY <1>4 DEF Day
  <2> QED BY <1>4, <2>1, DayKeeps DEF Inv
<1>5. CASE ApplyRetentionPolicy
  <2>1. UNCHANGED <<policy, day, accepted, recent, blocked>>
    BY <1>5 DEF ApplyRetentionPolicy
  <2>2. Numbered' /\ Policed' /\ Logs' /\ Agree(recent', blocked')
    BY <2>1 DEF Inv, IInv, Numbered, Policed, Logs
  <2> QED BY <1>5, <2>2, RetentionKeeps DEF Inv, IInv
<1>6. CASE UNCHANGED vars
  BY <1>6 DEF vars, Inv, IInv, Numbered, Policed, Placed, Indexed, Entries, Logs,
             Remembered, Routed, Age, Expires
<1> QED BY <1>1, <1>2, <1>3, <1>4, <1>5, <1>6 DEF Next

LEMMA InvHolds == Spec => []Inv
<1>1. Init => Inv
  <2> SUFFICES ASSUME Init PROVE Inv
    OBVIOUS
  <2>1. accepted = {} /\ recent = <<>>
    BY DEF Init
  <2>2. Remembered
    BY <2>1 DEF Remembered
  <2>3. Agree(recent, blocked)
    BY <2>1 DEF Agree
  <2> QED BY <2>2, <2>3, InitIInv DEF Inv
<1> QED BY <1>1, NextInv, PTL DEF Spec

-----------------------------------------------------------------------------
(* Queries. *)

\* A record is held in the store of its family, and nowhere else.
LEMMA HeldWhereRouted ==
  ASSUME IInv, NEW s \in Stores, NEW e
  PROVE  e \in store[s] <=> e \in Held /\ e.family \in FamiliesOf(s)
<1>1. ASSUME e \in store[s] PROVE e \in Held /\ e.family \in FamiliesOf(s)
  BY <1>1 DEF Held, IInv, Placed, Numbered, FamiliesOf
<1>2. ASSUME e \in Held, e.family \in FamiliesOf(s) PROVE e \in store[s]
  <2>1. PICK t \in Stores : e \in store[t]
    BY <1>2 DEF Held
  <2>2. t = s
    BY <1>2, <2>1 DEF IInv, Placed, FamiliesOf
  <2> QED BY <2>1, <2>2
<1> QED BY <1>1, <1>2

\* Among fewer records there is no more to mix.
LEMMA MixedGrows ==
  ASSUME NEW A, NEW B, A \subseteq B, Mixed(A)
  PROVE  Mixed(B)
BY DEF Mixed

\* What a call that sorts returns, and when it raises.
LEMMA SortedAnswers ==
  ASSUME NEW A
  PROVE  /\ Sorted(A).raised <=> Mixed(A)
         /\ ~Mixed(A) => Sorted(A).found = A
         /\ Mixed(A) => Sorted(A) = Raises
<1>1. CASE Mixed(A)
  BY <1>1 DEF Sorted, Raises
<1>2. CASE ~Mixed(A)
  BY <1>2 DEF Sorted, Returns
<1> QED BY <1>1, <1>2

\* query_events, query_journals and query_references find the records that match.
LEMMA StoreAnswers ==
  ASSUME IInv, NEW s \in Stores, NEW fs, NEW n, NEW k, k = None \/ n \in RefIndexes(s),
         NEW from
  PROVE  Matches(s, fs, n, k, from, None) =
           {e \in store[s] : /\ fs = {} \/ e.family \in fs
                             /\ k = None \/ e.refs[n] = k
                             /\ InRange(e, from, None)}
<1>1. ASSUME NEW e, e \in store[s]
      PROVE  /\ e.id \in Lookup(s, "family", fs) <=> e.family \in fs
             /\ k # None => (e.id \in Lookup(s, n, {k}) <=> e.refs[n] = k)
  BY <1>1, LookupFamily, LookupRef
<1>2. ASSUME NEW e, e \in store[s]
      PROVE  e.id \in {x.id : x \in store[s]}
  BY <1>2
<1>3. ASSUME NEW e, e \in store[s]
      PROVE  /\ e.id \in (IF fs = {} THEN {x.id : x \in store[s]} ELSE Lookup(s, "family", fs))
                   <=> fs = {} \/ e.family \in fs
             /\ e.id \in (IF k = None THEN {x.id : x \in store[s]} ELSE Lookup(s, n, {k}))
                   <=> k = None \/ e.refs[n] = k
  BY <1>1, <1>2, <1>3
<1> QED BY <1>3 DEF Matches

\* The journals' and the executions' records of a trade.
LEMMA HistoryOfTrade ==
  ASSUME IInv, NEW x \in Subjects
  PROVE  TradeHistory(x) =
           IF Mixed({e \in Held : e.family = "EXECUTION_EVENT"}) THEN Raises ELSE Sorted(OfTrade(x))
<1> DEFINE J == Matches("journal_store", FamiliesOf("journal_store"), "trade_id", x, None, None)
           E == Matches("event_store", {"EXECUTION_EVENT"}, "family", None, None, None)
           X == {e \in E : e.refs.trade_id = x}
<1>1. x # None /\ \A e : InRange(e, None, None)
  BY MemoryAssumption DEF InRange
<1>2. J = {e \in store["journal_store"] : /\ e.family \in FamiliesOf("journal_store")
                                          /\ e.refs.trade_id = x}
  <2>1. FamiliesOf("journal_store") # {}
    BY DEF FamiliesOf, Families, RoutingTable
  <2>2. "trade_id" \in RefIndexes("journal_store") /\ "journal_store" \in Stores
    BY DEF RefIndexes, Stores
  <2> QED BY <1>1, <2>1, <2>2, StoreAnswers
<1>3. E = {e \in store["event_store"] : e.family = "EXECUTION_EVENT"}
  <2>1. "event_store" \in Stores
    BY DEF Stores
  <2> QED BY <1>1, <2>1, StoreAnswers
<1>4. "EXECUTION_EVENT" \in FamiliesOf("event_store")
  BY DEF FamiliesOf, Families, RoutingTable
<1>5. \A e : /\ e \in store["journal_store"] <=> e \in Held /\ e.family \in FamiliesOf("journal_store")
             /\ e \in store["event_store"] <=> e \in Held /\ e.family \in FamiliesOf("event_store")
  BY HeldWhereRouted DEF Stores
<1>6. E = {e \in Held : e.family = "EXECUTION_EVENT"}
  BY <1>3, <1>4, <1>5
<1>7. J \cup X = OfTrade(x)
  BY <1>2, <1>3, <1>4, <1>5 DEF OfTrade
<1>8. TradeHistory(x) =
        IF Sorted(J).raised \/ Sorted(E).raised THEN Raises
        ELSE Sorted(Sorted(J).found \cup {e \in Sorted(E).found : e.refs.trade_id = x})
  BY DEF TradeHistory, QueryStore
<1> HIDE DEF J, E
<1>9. TradeHistory(x) = IF Mixed(E) THEN Raises ELSE Sorted(J \cup X)
  <2>1. Mixed(J) => Mixed(J \cup X)
    BY MixedGrows
  <2>2. CASE Mixed(E)
    BY <1>8, <2>2, SortedAnswers
  <2>3. CASE ~Mixed(E) /\ Mixed(J)
    <3>1. Sorted(J \cup X) = Raises /\ Sorted(J).raised
      BY <2>1, <2>3, SortedAnswers
    <3> QED BY <1>8, <2>3, <3>1
  <2>4. CASE ~Mixed(E) /\ ~Mixed(J)
    <3>1. /\ ~Sorted(J).raised /\ ~Sorted(E).raised
          /\ Sorted(J).found = J /\ Sorted(E).found = E
      BY <2>4, SortedAnswers
    <3> QED BY <1>8, <2>4, <3>1
  <2> QED BY <2>2, <2>3, <2>4
<1> QED BY <1>6, <1>7, <1>9

\* The records of a decision, and the reviews that refer to it.
LEMMA HistoryOfDecision ==
  ASSUME IInv, NEW x \in Subjects
  PROVE  DecisionHistory(x) = Sorted(OfDecision(x))
<1> DEFINE J == Matches("journal_store", {"DECISION_JOURNAL"}, "decision_id", x, None, None)
           R == Matches("reference_store", {"REVIEW_REF"}, "ref_key", x, None, None)
<1>1. x # None /\ \A e : InRange(e, None, None)
  BY MemoryAssumption DEF InRange
<1>2. J = {e \in store["journal_store"] : e.family = "DECISION_JOURNAL" /\ e.refs.decision_id = x}
  <2>1. "decision_id" \in RefIndexes("journal_store") /\ "journal_store" \in Stores
    BY DEF RefIndexes, Stores
  <2> QED BY <1>1, <2>1, StoreAnswers
<1>3. R = {e \in store["reference_store"] : e.family = "REVIEW_REF" /\ e.refs.ref_key = x}
  <2>1. "ref_key" \in RefIndexes("reference_store") /\ "reference_store" \in Stores
    BY DEF RefIndexes, Stores
  <2> QED BY <1>1, <2>1, StoreAnswers
<1>4. /\ "DECISION_JOURNAL" \in FamiliesOf("journal_store")
      /\ "REVIEW_REF" \in FamiliesOf("reference_store")
  BY DEF FamiliesOf, Families, RoutingTable
<1>5. \A e : /\ e \in store["journal_store"] <=> e \in Held /\ e.family \in FamiliesOf("journal_store")
             /\ e \in store["reference_store"] <=>
                   e \in Held /\ e.family \in FamiliesOf("reference_store")
  BY HeldWhereRouted DEF Stores
<1>6. J \cup R = OfDecision(x)
  BY <1>2, <1>3, <1>4, <1>5 DEF OfDecision
<1>7. DecisionHistory(x) =
        IF Sorted(J).raised \/ Sorted(R).raised THEN Raises
        ELSE Sorted(Sorted(J).found \cup Sorted(R).found)
  BY DEF DecisionHistory, QueryStore
<1> HIDE DEF J, R
<1>8. DecisionHistory(x) = Sorted(J \cup R)
  <2>1. Mixed(J) \/ Mixed(R) => Mixed(J \cup R)
    BY MixedGrows
  <2>2. CASE Mixed(J) \/ Mixed(R)
    BY <1>7, <2>1, <2>2, SortedAnswers
  <2>3. CASE ~Mixed(J) /\ ~Mixed(R)
    <3>1. /\ ~Sorted(J).raised /\ ~Sorted(R).raised
          /\ Sorted(J).found = J /\ Sorted(R).found = R
      BY <2>3, SortedAnswers
    <3> QED BY <1>7, <3>1
  <2> QED BY <2>2, <2>3
<1> QED BY <1>6, <1>8

\* The records filed under a key: only references are.
LEMMA KeyLeadsToReferences ==
  ASSUME IInv, NEW x \in Subjects
  PROVE  LookupByKey(x) = Sorted(OfKey(x))
<1> DEFINE ids == Lookup("reference_store", "ref_key", {x})
           found == IF ids # {} THEN {e \in store["reference_store"] : e.id \in ids}
                    ELSE {e \in store["reference_store"] : e.refs.ref_key = x}
<1>1. x # None
  BY MemoryAssumption
<1>2. "ref_key" \in RefIndexes("reference_store") /\ "reference_store" \in Stores
  BY DEF RefIndexes, Stores
<1>3. ASSUME NEW e, e \in store["reference_store"]
      PROVE  e.id \in ids <=> e.refs.ref_key = x
  BY <1>1, <1>2, <1>3, LookupRef
<1>4. found = {e \in store["reference_store"] : e.refs.ref_key = x}
  <2> HIDE DEF ids
  <2> QED BY <1>3
<1>5. ASSUME NEW e PROVE e \in store["reference_store"] => e \in Held
  BY <1>2 DEF Held
<1>6. ASSUME NEW e \in Held, e.refs.ref_key = x PROVE e \in store["reference_store"]
  <2>1. PICK t \in Stores : e \in store[t]
    BY DEF Held
  <2>2. t = "reference_store"
    BY <1>1, <1>6, <2>1 DEF IInv, Placed, Numbered
  <2> QED BY <2>1, <2>2
<1>7. found = OfKey(x)
  BY <1>4, <1>5, <1>6 DEF OfKey
<1> QED BY <1>7 DEF LookupByKey

\* A query across the stores leaves out none that has a family asked for.
LEMMA QueryFindsAll ==
  ASSUME IInv, NEW fs \in SUBSET Inputs, NEW x \in Subjects \cup {None}, NEW from \in {None, day}
  PROVE  Query(fs, [trade_id |-> x], from, None) =
           IF Mixed(Since(fs, from)) THEN Raises
           ELSE Returns({e \in Since(fs, from) : x = None \/ e.refs.trade_id = x})
<1> DEFINE Asked == {s \in Stores : fs = {} \/ fs \cap FamiliesOf(s) # {}}
           Part(s) == Matches(s, fs \cap FamiliesOf(s), "family", None, from, None)
           Answers == {Sorted(Part(s)) : s \in Asked}
           Together == UNION {a.found : a \in Answers}
           All == UNION {Part(s) : s \in Asked}
           r == [trade_id |-> x]
<1>1. ASSUME NEW s \in Stores
      PROVE  Part(s) = {e \in store[s] : /\ fs \cap FamiliesOf(s) = {} \/ e.family \in fs \cap FamiliesOf(s)
                                         /\ InRange(e, from, None)}
  BY StoreAnswers
<1>2. ASSUME NEW e
      PROVE  e \in All <=> e \in Since(fs, from)
  <2>1. ASSUME e \in All
        PROVE  e \in Held /\ (fs = {} \/ e.family \in fs) /\ InRange(e, from, None)
    <3>1. PICK s \in Asked : e \in Part(s)
      BY <2>1
    <3>2. /\ e \in store[s] /\ InRange(e, from, None)
          /\ fs \cap FamiliesOf(s) = {} \/ e.family \in fs \cap FamiliesOf(s)
      BY <1>1, <3>1
    <3>3. e \in Held
      BY <3>2 DEF Held
    <3> QED BY <3>2, <3>3
  <2>2. ASSUME e \in Held, fs = {} \/ e.family \in fs, InRange(e, from, None)
        PROVE  e \in All
    <3>1. PICK s \in Stores : e \in store[s]
      BY <2>2 DEF Held
    <3>2. e.family \in FamiliesOf(s)
      BY <3>1, HeldWhereRouted
    <3>3. s \in Asked
      BY <2>2, <3>2
    <3>4. e \in Part(s)
      BY <1>1, <2>2, <3>1, <3>2
    <3> QED BY <3>3, <3>4
  <2> HIDE DEF All
  <2> QED BY <2>1, <2>2 DEF Since
<1>3. Query(fs, r, from, None) =
        IF Mixed(Together) \/ \E a \in Answers : a.raised THEN Raises
        ELSE Returns({e \in Together : \A n \in DOMAIN r : r[n] = None \/ e.refs[n] = r[n]})
  <2> HIDE DEF r
  <2> QED BY DEF Query, QueryStore
<1>4. ASSUME NEW e
      PROVE  (\A n \in DOMAIN r : r[n] = None \/ e.refs[n] = r[n]) <=> x = None \/ e.refs.trade_id = x
  <2>1. DOMAIN r = {"trade_id"} /\ r["trade_id"] = x
    OBVIOUS
  <2> HIDE DEF r
  <2> QED BY <2>1
<1> HIDE DEF Part, Asked, r
<1>5. CASE \E s \in Asked : Mixed(Part(s))
  <2>1. PICK s \in Asked : Mixed(Part(s))
    BY <1>5
  <2>2. Sorted(Part(s)) \in Answers /\ Sorted(Part(s)).raised
    BY <2>1, SortedAnswers
  <2>3. Part(s) \subseteq Since(fs, from)
    BY <1>2
  <2>4. Mixed(Since(fs, from))
    BY <2>1, <2>3, MixedGrows
  <2> HIDE DEF Answers
  <2>5. \E a \in Answers : a.raised
    BY <2>2
  <2> QED BY <1>3, <2>4, <2>5 DEF r
<1>6. CASE ~\E s \in Asked : Mixed(Part(s))
  <2>1. ASSUME NEW s \in Asked PROVE ~Sorted(Part(s)).raised /\ Sorted(Part(s)).found = Part(s)
    BY <1>6, SortedAnswers
  <2>2. ~\E a \in Answers : a.raised
    BY <2>1
  <2>3. Together = All
    BY <2>1
  <2>4. Together = Since(fs, from)
    <3> HIDE DEF Together, All
    <3> QED BY <1>2, <2>3 DEF Since
  <2> HIDE DEF Together, Answers
  <2>5. {e \in Together : \A n \in DOMAIN r : r[n] = None \/ e.refs[n] = r[n]} =
          {e \in Since(fs, from) : x = None \/ e.refs.trade_id = x}
    BY <1>4, <2>4
  <2>6. Query(fs, r, from, None) =
          IF Mixed(Since(fs, from)) THEN Raises
          ELSE Returns({e \in Since(fs, from) : x = None \/ e.refs.trade_id = x})
    BY <1>3, <2>2, <2>4, <2>5
  <2> QED BY <2>6 DEF r
<1> QED BY <1>5, <1>6

-----------------------------------------------------------------------------

\* An event that was routed is found in its store until it is as old as its policy
\* says, and afterwards in the archive until that is over, for any policies, late
\* events and passes (apply_retention_policy).
THEOREM NothingForgotten == Spec => []Remembered
<1>1. Inv => Remembered
  BY DEF Inv
<1> QED BY <1>1, InvHolds, PTL

\* The indexes of a store are those of its records (append_event, append_journal,
\* store_reference, _remove_from_indexes).
THEOREM IndexesInStep == Spec => []Indexed
<1>1. Inv => Indexed
  BY DEF Inv, IInv
<1> QED BY <1>1, InvHolds, PTL

\* Whatever is asked, the indexes lead to what a scan of the stores would find, and a
\* call raises exactly when what it sorts mixes records with and without a time (query, get_trade_history, get_decision_history, lookup_by_key).
THEOREM QueriesFindAll == Spec => []QueriesAgree
<1>1. Inv => QueriesAgree
  BY HistoryOfTrade, HistoryOfDecision, KeyLeadsToReferences, QueryFindsAll
     DEF Inv, QueriesAgree
<1> QED BY <1>1, InvHolds, PTL

\* Side A's log and its journal tell the same last blocks, whatever the sizes of the
\* two rings (log, BlockedActionJournal.record).
THEOREM SameBlocks == Spec => []RingsAgree
<1>1. Inv => RingsAgree
  BY RingsAreAgree DEF Inv, IInv
<1> QED BY <1>1, InvHolds, PTL

=============================================================================
