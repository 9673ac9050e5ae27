------------------------ MODULE RealtimeFrames_proofs ------------------------
(***************************************************************************)
(* Proofs about RealtimeFrames for any vehicles, clients, reports, filters *)
(* and bounds.                                                             *)
(***************************************************************************)
EXTENDS RealtimeFrames, TLAPS

-----------------------------------------------------------------------------
(* Operators.                                                              *)

\* A derived bearing is "E", "W" or none at all.
LEMMA DeriveType == \A t : DeriveBearing(t) \in SUBSET {"E", "W"}
  BY DEF DeriveBearing, NoBearing

\* One point, or none, derives nothing.
LEMMA ShortTrail == \A p : DeriveBearing(<<p>>) = NoBearing
<1> SUFFICES ASSUME NEW p PROVE DeriveBearing(<<p>>) = NoBearing
  OBVIOUS
<1>1. 1 .. Len(<<p>>) - 1 = {}
  OBVIOUS
<1>2. Apart(<<p>>) = {}
  BY <1>1 DEF Apart
<1> QED
  BY <1>2 DEF DeriveBearing

\* Extending a trail keeps it a nonempty trail that ends at the report, and
\* leaves it alone when the vehicle stands where the trail ends.
LEMMA ExtendTrail ==
  ASSUME NEW t \in Seq(Point), NEW r \in Reports
  PROVE  /\ Extend(t, r) \in Seq(Point)
         /\ Extend(t, r) # <<>>
         /\ Newest(Extend(t, r)).pos = r.pos
         /\ (t # <<>> /\ Newest(t).pos = r.pos) => Extend(t, r) = t
<1> DEFINE p == [pos |-> r.pos, ts |-> r.ts]
           longer == Append(t, p)
<1>1. p \in Point /\ p.pos = r.pos
  BY ReportsAssumption DEF Point
<1>2. /\ longer \in Seq(Point)
      /\ Len(longer) = Len(t) + 1
      /\ longer[Len(longer)] = p
  BY <1>1
<1>3. CASE t # <<>> /\ Newest(t).pos = r.pos
  BY <1>3 DEF Extend
<1>4. CASE ~(t # <<>> /\ Newest(t).pos = r.pos) /\ Len(longer) > HistoryPoints
  <2> DEFINE short == Tail(longer)
  <2>1. Extend(t, r) = short
    BY <1>4 DEF Extend
  <2>2. Len(longer) > 1
    BY <1>4, <1>2, BoundsAssumption
  <2>3. /\ short \in Seq(Point)
        /\ Len(short) = Len(longer) - 1
        /\ Len(short) >= 1
    BY <1>2, <2>2
  <2>4. short[Len(short)] = longer[Len(longer)]
    BY <1>2, <2>2, <2>3
  <2> HIDE DEF longer, short, p
  <2>5. /\ short # <<>>
        /\ Newest(short).pos = r.pos
    BY <2>3, <2>4, <1>1, <1>2 DEF Newest
  <2> QED
    BY <2>1, <2>3, <2>5, <1>4
<1>5. CASE ~(t # <<>> /\ Newest(t).pos = r.pos) /\ ~(Len(longer) > HistoryPoints)
  <2>1. Extend(t, r) = longer
    BY <1>5 DEF Extend
  <2> HIDE DEF longer, p
  <2>2. longer # <<>>
    BY <1>2
  <2> QED
    BY <2>1, <2>2, <1>1, <1>2, <1>5 DEF Newest
<1> QED
  BY <1>3, <1>4, <1>5

\* Putting a number in a queue leaves it last, within the queue's size.
LEMMA PutQueue ==
  ASSUME NEW q \in Seq(Nat), NEW n \in Nat, Len(q) <= QueueSize
  PROVE  /\ Put(q, n) \in Seq(Nat)
         /\ Put(q, n) # <<>>
         /\ Len(Put(q, n)) <= QueueSize
         /\ Newest(Put(q, n)) = n
<1>1. CASE Len(q) >= QueueSize
  <2>1. Len(q) >= 1
    BY <1>1, BoundsAssumption
  <2>2. Tail(q) \in Seq(Nat) /\ Len(Tail(q)) = Len(q) - 1
    BY <2>1
  <2>3. Put(q, n) = Append(Tail(q), n)
    BY <1>1 DEF Put
  <2> QED
    BY <2>2, <2>3, BoundsAssumption DEF Newest
<1>2. CASE ~(Len(q) >= QueueSize)
  BY <1>2, BoundsAssumption DEF Put, Newest
<1> QED
  BY <1>1, <1>2

-----------------------------------------------------------------------------
(* Type correctness.                                                       *)

\* What a feed message turns the cache into is well typed.
LEMMA ApplyTypes ==
  ASSUME TypeOK, NEW raw \in Messages, Apply(raw)
  PROVE  TypeOK'
<1>1. raw \in [DOMAIN raw -> Reports] /\ DOMAIN raw \subseteq Vehicles
  BY DEF Messages
<1> DEFINE trails == RecordHistory(raw)
<1>2. /\ trails \in [DOMAIN trails -> Seq(Point)]
      /\ DOMAIN raw \subseteq DOMAIN trails
      /\ DOMAIN trails \subseteq Vehicles
  <2>1. DOMAIN trails \in {DOMAIN raw, DOMAIN history \cup DOMAIN raw}
    BY DEF RecordHistory
  <2>2. \A v \in DOMAIN raw : Extend(Trail(v), raw[v]) \in Seq(Point)
    <3> SUFFICES ASSUME NEW v \in DOMAIN raw
                 PROVE  Extend(Trail(v), raw[v]) \in Seq(Point)
      OBVIOUS
    <3>1. Trail(v) \in Seq(Point)
      BY DEF Trail, TypeOK
    <3> QED
      BY <3>1, <1>1, ExtendTrail
  <2>3. \A v \in DOMAIN trails :
           trails[v] = IF v \in DOMAIN raw THEN Extend(Trail(v), raw[v]) ELSE history[v]
    BY <2>1 DEF RecordHistory
  <2>4. trails = [v \in DOMAIN trails |-> trails[v]]
    BY DEF RecordHistory
  <2>5. \A v \in DOMAIN trails : trails[v] \in Seq(Point)
    BY <2>1, <2>2, <2>3 DEF TypeOK
  <2> QED
    BY <2>1, <2>4, <2>5, <1>1 DEF TypeOK
<1> HIDE DEF trails
<1>3. history' \in [DOMAIN history' -> Seq(Point)] /\ DOMAIN history' \subseteq Vehicles
  BY <1>2 DEF Apply, trails
<1>4. IsFrame(frame')
  <2>1. frame' = [v \in DOMAIN raw |-> Show(v, raw[v], trails[v])]
    BY DEF Apply, trails
  <2>2. \A v \in DOMAIN raw : Show(v, raw[v], trails[v]) \in Shown
    <3> SUFFICES ASSUME NEW v \in DOMAIN raw
                 PROVE  Show(v, raw[v], trails[v]) \in Shown
      OBVIOUS
    <3>1. raw[v] \in [pos: Int, ts: Int, trip: Trips, route: Routes,
                      bearing: {NoBearing, FeedBearing}]
      BY <1>1, ReportsAssumption
    <3>2. Published(v, raw[v], trails[v]) \in Bearings
      BY <3>1, DeriveType
         DEF Published, Bearings, NoBearing, FeedBearing, TypeOK
    <3> QED
      BY <3>1, <3>2 DEF Show, Shown
  <2> QED
    BY <1>1, <2>1, <2>2 DEF IsFrame
<1>5. lastDerived' \in [DOMAIN lastDerived' -> Bearings] /\ DOMAIN lastDerived' \subseteq Vehicles
  <2>1. lastDerived' = Smoothing(raw, trails)
    BY DEF Apply, trails
  <2> DEFINE now == Derives(raw, trails)
             dom == (DOMAIN lastDerived \ (DOMAIN history \ DOMAIN trails)) \cup now
  <2>2. now \subseteq Vehicles
    BY <1>1 DEF Derives
  <2>3. Smoothing(raw, trails) =
            [v \in dom |-> IF v \in now THEN DeriveBearing(trails[v]) ELSE lastDerived[v]]
    BY DEF Smoothing
  <2>4. \A v \in dom : (IF v \in now THEN DeriveBearing(trails[v]) ELSE lastDerived[v]) \in Bearings
    BY DeriveType DEF Bearings, TypeOK
  <2> HIDE DEF now
  <2>5. dom \subseteq Vehicles
    BY <2>2 DEF TypeOK
  <2> QED
    BY <2>1, <2>3, <2>4, <2>5
<1>6. delta' \in [present: BOOLEAN, upd: SUBSET Vehicles, del: SUBSET Vehicles]
  BY <1>1 DEF Apply, NoDelta, ComputeDelta, TypeOK, IsFrame
<1>7. queue' \in [Clients -> Seq(Nat)]
  <2>1. \A c \in Clients : Put(queue[c], seq + 1) \in Seq(Nat)
    <3> SUFFICES ASSUME NEW c \in Clients PROVE Put(queue[c], seq + 1) \in Seq(Nat)
      OBVIOUS
    <3>1. queue[c] \in Seq(Nat) /\ seq + 1 \in Nat
      BY SMTT(40), BoundsAssumption DEF TypeOK
    <3>2. Len(queue[c]) >= QueueSize => Tail(queue[c]) \in Seq(Nat)
      BY <3>1, BoundsAssumption
    <3> QED
      BY <3>1, <3>2 DEF Put
  <2> QED
    BY <2>1 DEF Apply, Publish, TypeOK
<1>8. seq' \in 0 .. MaxSeq
  BY BoundsAssumption DEF Apply, TypeOK
<1>9. UNCHANGED <<phase, filter, deltas, sent, map, at, gap>>
  BY DEF Apply
<1> QED
  BY <1>3, <1>4, <1>5, <1>6, <1>7, <1>8, <1>9 DEF TypeOK, IsFrame

\* A full frame leaves the connection well typed.
LEMMA FullTypes ==
  ASSUME TypeOK, NEW c \in Clients, SendFull(c), UNCHANGED cacheVars
  PROVE  /\ map' \in [Clients -> {map'[d] : d \in Clients}]
         /\ \A d \in Clients : IsFrame(map'[d])
         /\ sent' \in [Clients -> SUBSET Vehicles]
         /\ at' \in [Clients -> 0 .. MaxSeq]
         /\ gap' \in [Clients -> BOOLEAN]
<1>1. Matching(filter[c]) \subseteq DOMAIN frame /\ DOMAIN frame \subseteq Vehicles
  BY DEF Matching, TypeOK, IsFrame
<1>2. IsFrame(Snapshot(filter[c]))
  BY <1>1 DEF Snapshot, IsFrame, TypeOK
<1>3. map' = [map EXCEPT ![c] = Snapshot(filter[c])]
  BY DEF SendFull
<1>4. \A d \in Clients : IsFrame(map'[d])
  BY <1>2, <1>3 DEF TypeOK
<1>5. map' \in [Clients -> {map'[d] : d \in Clients}]
  BY <1>3 DEF TypeOK
<1> QED
  BY <1>1, <1>4, <1>5 DEF SendFull, TypeOK

\* A delta frame leaves the connection well typed.
LEMMA DeltaTypes ==
  ASSUME TypeOK, NEW c \in Clients, ReadDelta(c), delta.upd \subseteq DOMAIN frame
  PROVE  TypeOK'
<1>1. /\ Updated(c) \subseteq DOMAIN frame
      /\ DOMAIN frame \subseteq Vehicles
      /\ DOMAIN map[c] \subseteq Vehicles
  BY DEF Updated, TypeOK, IsFrame
<1> DEFINE m == [v \in (DOMAIN map[c] \cup Updated(c)) \ Removed(c) |->
                    IF v \in Updated(c) THEN frame[v] ELSE map[c][v]]
<1>2. IsFrame(m)
  BY <1>1 DEF IsFrame, TypeOK
<1>3. map' = [map EXCEPT ![c] = m]
  BY DEF ReadDelta
<1> HIDE DEF m
<1>4. \A d \in Clients : IsFrame(map'[d])
  BY <1>2, <1>3 DEF TypeOK
<1>5. map' \in [Clients -> {map'[d] : d \in Clients}]
  BY <1>3 DEF TypeOK
<1>6. queue' \in [Clients -> Seq(Nat)]
  BY DEF ReadDelta, Wake, TypeOK
<1>7. sent' \in [Clients -> SUBSET Vehicles]
  BY <1>1 DEF ReadDelta, TypeOK
<1>8. at' \in [Clients -> 0 .. MaxSeq] /\ gap' \in [Clients -> BOOLEAN]
  BY DEF ReadDelta, TypeOK
<1>9. UNCHANGED <<cacheVars, phase, filter, deltas>>
  BY DEF ReadDelta, Wake
<1> QED
  BY <1>4, <1>5, <1>6, <1>7, <1>8, <1>9 DEF TypeOK, IsFrame, cacheVars

LEMMA TypeInit == Init => TypeOK /\ DeltaSound
<1> SUFFICES ASSUME Init PROVE TypeOK /\ DeltaSound
  OBVIOUS
<1>1. IsFrame(Nothing)
  BY DEF Nothing, IsFrame
<1>2. map \in [Clients -> {map[c] : c \in Clients}]
  BY DEF Init
<1>3. \A c \in Clients : IsFrame(map[c])
  BY <1>1 DEF Init
<1>4. history \in [DOMAIN history -> Seq(Point)] /\ DOMAIN history \subseteq Vehicles
  BY DEF Init
<1>5. lastDerived \in [DOMAIN lastDerived -> Bearings] /\ DOMAIN lastDerived \subseteq Vehicles
  BY DEF Init
<1>6. filter \in [Clients -> [bbox: SUBSET Int, routes: SUBSET Routes]]
  BY DEF Init, NoFilter
<1>7. seq \in 0 .. MaxSeq /\ at \in [Clients -> 0 .. MaxSeq]
  BY BoundsAssumption DEF Init
<1>8. queue \in [Clients -> Seq(Nat)]
  BY DEF Init
<1> QED
  BY <1>1, <1>2, <1>3, <1>4, <1>5, <1>6, <1>7, <1>8 DEF Init, TypeOK, DeltaSound, NoDelta

LEMMA DeltaSoundStep == TypeOK /\ DeltaSound /\ [Next]_vars => DeltaSound'
<1> SUFFICES ASSUME TypeOK, DeltaSound, [Next]_vars PROVE DeltaSound'
  OBVIOUS
<1>1. ASSUME NEW raw \in Messages, Apply(raw) PROVE DeltaSound'
  BY <1>1 DEF Apply, DeltaSound, NoDelta, ComputeDelta
<1>2. CASE UNCHANGED <<frame, delta>>
  BY <1>2 DEF DeltaSound
<1> QED
  BY <1>1, <1>2 DEF Next, vars, cacheVars, Purge, Connect, FirstFrame, ReadFull, ReadDelta,
                    Wake, Disconnect

LEMMA TypeStep == TypeOK /\ DeltaSound /\ [Next]_vars => TypeOK'
<1> SUFFICES ASSUME TypeOK, DeltaSound, [Next]_vars PROVE TypeOK'
  OBVIOUS
<1>1. ASSUME NEW raw \in Messages, Apply(raw) PROVE TypeOK'
  BY <1>1, ApplyTypes
<1>2. CASE Purge
  <2>1. history' \in [DOMAIN history' -> Seq(Point)] /\ DOMAIN history' \subseteq Vehicles
    BY <1>2 DEF Purge
  <2> QED
    BY <1>2, <2>1 DEF Purge, TypeOK, IsFrame, clientVars
<1>3. ASSUME NEW c \in Clients, Connect(c) PROVE TypeOK'
  <2>1. PICK f \in Filters, d \in BOOLEAN :
           filter' = [filter EXCEPT ![c] = f] /\ deltas' = [deltas EXCEPT ![c] = d]
    BY <1>3 DEF Connect
  <2>2. f \in [bbox: SUBSET Int, routes: SUBSET Routes]
    BY FiltersAssumption
  <2>3. /\ filter' \in [Clients -> [bbox: SUBSET Int, routes: SUBSET Routes]]
        /\ deltas' \in [Clients -> BOOLEAN]
    BY <2>1, <2>2 DEF TypeOK
  <2>4. phase' \in [Clients -> {"off", "subscribed", "live"}]
    BY <1>3 DEF Connect, TypeOK
  <2>5. UNCHANGED <<cacheVars, queue, sent, map, at, gap>>
    BY <1>3 DEF Connect
  <2> QED
    BY ZenonT(60), <2>3, <2>4, <2>5 DEF TypeOK, IsFrame, cacheVars
<1>4. ASSUME NEW c \in Clients, FirstFrame(c) PROVE TypeOK'
  BY <1>4, FullTypes DEF FirstFrame, TypeOK, IsFrame, cacheVars
<1>5. ASSUME NEW c \in Clients, ReadFull(c) PROVE TypeOK'
  <2>1. queue' \in [Clients -> Seq(Nat)]
    BY <1>5 DEF ReadFull, Wake, TypeOK
  <2> QED
    BY <1>5, <2>1, FullTypes DEF ReadFull, Wake, TypeOK, IsFrame, cacheVars
<1>6. ASSUME NEW c \in Clients, ReadDelta(c) PROVE TypeOK'
  BY <1>6, DeltaTypes DEF DeltaSound
<1>7. ASSUME NEW c \in Clients, Disconnect(c) PROVE TypeOK'
  <2>1. IsFrame(Nothing)
    BY DEF Nothing, IsFrame
  <2>2. \A d \in Clients : IsFrame(map'[d])
    BY <1>7, <2>1 DEF Disconnect, TypeOK
  <2>3. map' \in [Clients -> {map'[d] : d \in Clients}]
    BY <1>7 DEF Disconnect, TypeOK
  <2>4. filter' \in [Clients -> [bbox: SUBSET Int, routes: SUBSET Routes]]
    BY <1>7 DEF Disconnect, TypeOK, NoFilter
  <2>5. queue' \in [Clients -> Seq(Nat)] /\ sent' \in [Clients -> SUBSET Vehicles]
    <3>1. queue' = [queue EXCEPT ![c] = <<>>] /\ sent' = [sent EXCEPT ![c] = {}]
      BY <1>7 DEF Disconnect
    <3>2. queue \in [Clients -> Seq(Nat)] /\ sent \in [Clients -> SUBSET Vehicles]
      BY DEF TypeOK
    <3>3. <<>> \in Seq(Nat)
      OBVIOUS
    <3> QED
      BY <3>1, <3>2, <3>3
  <2>6. at' \in [Clients -> 0 .. MaxSeq] /\ gap' \in [Clients -> BOOLEAN]
    BY SMTT(40), <1>7, BoundsAssumption DEF Disconnect, TypeOK
  <2>7. /\ phase' \in [Clients -> {"off", "subscribed", "live"}]
        /\ deltas' \in [Clients -> BOOLEAN]
        /\ UNCHANGED cacheVars
    BY <1>7 DEF Disconnect, TypeOK
  <2> QED
    BY <2>2, <2>3, <2>4, <2>5, <2>6, <2>7 DEF TypeOK, IsFrame, cacheVars
<1>8. CASE UNCHANGED vars
  BY <1>8 DEF TypeOK, IsFrame, vars, cacheVars, clientVars
<1> QED
  BY <1>1, <1>2, <1>3, <1>4, <1>5, <1>6, <1>7, <1>8 DEF Next

\* Every variable of the cache and of the connections keeps its type, and the
\* delta only names vehicles of the frame it leads to as updated.
THEOREM TypeCorrect == Spec => [](TypeOK /\ DeltaSound)
<1>1. TypeOK /\ DeltaSound /\ [Next]_vars => (TypeOK /\ DeltaSound)'
  BY TypeStep, DeltaSoundStep
<1> QED
  BY TypeInit, <1>1, PTL DEF Spec

-----------------------------------------------------------------------------
(* The filter's record of what it sent.                                    *)

LEMMA MirrorStep == TypeOK /\ SentMirrorsClient /\ [Next]_vars => SentMirrorsClient'
<1> SUFFICES ASSUME TypeOK, SentMirrorsClient, [Next]_vars,
                    NEW d \in Clients, phase'[d] = "live", Active(filter'[d])
             PROVE  sent'[d] = DOMAIN map'[d]
  BY DEF SentMirrorsClient
<1>1. ASSUME NEW raw \in Messages, Apply(raw) PROVE sent'[d] = DOMAIN map'[d]
  BY <1>1 DEF Apply, SentMirrorsClient
<1>2. CASE Purge
  BY <1>2 DEF Purge, clientVars, SentMirrorsClient
<1>3. ASSUME NEW c \in Clients, Connect(c) PROVE sent'[d] = DOMAIN map'[d]
  <2>1. d # c
    BY <1>3 DEF Connect, TypeOK
  <2> QED
    BY <1>3, <2>1 DEF Connect, TypeOK, SentMirrorsClient
<1>4. ASSUME NEW c \in Clients, SendFull(c), phase' \in {phase, [phase EXCEPT ![c] = "live"]},
             UNCHANGED <<cacheVars, filter>>
      PROVE  sent'[d] = DOMAIN map'[d]
  BY <1>4 DEF SendFull, TypeOK, SentMirrorsClient, Snapshot
<1>5. ASSUME NEW c \in Clients, ReadDelta(c) PROVE sent'[d] = DOMAIN map'[d]
  <2>1. UNCHANGED <<phase, filter>>
    BY <1>5 DEF ReadDelta, Wake
  <2>2. CASE d = c
    <3>1. DOMAIN map'[c] = (DOMAIN map[c] \cup Updated(c)) \ Removed(c)
      BY <1>5 DEF ReadDelta, TypeOK
    <3>2. sent'[c] = (sent[c] \cup Updated(c)) \ Removed(c)
      BY <1>5, <2>1, <2>2 DEF ReadDelta, TypeOK
    <3>3. sent[c] = DOMAIN map[c]
      BY <2>1, <2>2 DEF SentMirrorsClient
    <3> QED
      BY <2>2, <3>1, <3>2, <3>3
  <2>3. CASE d # c
    BY <1>5, <2>1, <2>3 DEF ReadDelta, TypeOK, SentMirrorsClient
  <2> QED
    BY <2>2, <2>3
<1>6. ASSUME NEW c \in Clients, Disconnect(c) PROVE sent'[d] = DOMAIN map'[d]
  BY <1>6 DEF Disconnect, TypeOK, SentMirrorsClient
<1>7. CASE UNCHANGED vars
  BY <1>7 DEF vars, clientVars, SentMirrorsClient
<1> QED
  BY <1>1, <1>2, <1>3, <1>4, <1>5, <1>6, <1>7 DEF Next, FirstFrame, ReadFull, Wake

\* StreamFilter.sent is the id set of the client's map in every reachable
\* state, for every interleaving of polls, slow readers and reconnections.
THEOREM MirrorCorrect == Spec => []SentMirrorsClient
<1>1. Init => SentMirrorsClient
  BY DEF Init, SentMirrorsClient
<1> QED
  BY <1>1, MirrorStep, TypeCorrect, PTL DEF Spec

-----------------------------------------------------------------------------
(* Wake-ups.                                                               *)

LEMMA QueueStep == TypeOK /\ QueueSound /\ [Next]_vars => QueueSound'
<1> SUFFICES ASSUME TypeOK, QueueSound, [Next]_vars, NEW d \in Clients
             PROVE  /\ at'[d] <= seq'
                    /\ Len(queue'[d]) <= QueueSize
                    /\ (phase'[d] = "live" /\ at'[d] < seq')
                          => queue'[d] # <<>> /\ Newest(queue'[d]) = seq'
  BY DEF QueueSound
<1> DEFINE Goal == /\ at'[d] <= seq'
                   /\ Len(queue'[d]) <= QueueSize
                   /\ (phase'[d] = "live" /\ at'[d] < seq')
                         => queue'[d] # <<>> /\ Newest(queue'[d]) = seq'
<1>0. /\ queue[d] \in Seq(Nat)
      /\ at[d] \in 0 .. MaxSeq
      /\ seq \in 0 .. MaxSeq
      /\ QueueSize \in Nat /\ QueueSize > 0 /\ MaxSeq \in Nat
      /\ at[d] <= seq
      /\ Len(queue[d]) <= QueueSize
  BY BoundsAssumption DEF TypeOK, QueueSound
<1>1. ASSUME NEW raw \in Messages, Apply(raw) PROVE Goal
  <2>1. seq' = seq + 1 /\ at' = at /\ phase' = phase
    BY <1>1 DEF Apply
  <2>2. CASE phase[d] = "off"
    <3>1. queue'[d] = queue[d]
      BY <1>1, <2>2 DEF Apply, Publish
    <3> QED
      BY <1>0, <2>1, <2>2, <3>1
  <2>3. CASE phase[d] # "off"
    <3>1. queue'[d] = Put(queue[d], seq + 1)
      BY <1>1, <2>3 DEF Apply, Publish
    <3>2. seq + 1 \in Nat /\ at[d] <= seq + 1
      BY <1>0
    <3>3. /\ Put(queue[d], seq + 1) # <<>>
          /\ Len(Put(queue[d], seq + 1)) <= QueueSize
          /\ Newest(Put(queue[d], seq + 1)) = seq + 1
      BY <1>0, <3>2, PutQueue
    <3> QED
      BY <2>1, <3>1, <3>2, <3>3
  <2> QED
    BY <2>2, <2>3
<1>2. CASE Purge
  BY <1>2 DEF Purge, clientVars, QueueSound
<1>3. ASSUME NEW c \in Clients, Connect(c) PROVE Goal
  BY <1>3 DEF Connect, cacheVars, TypeOK, QueueSound
<1>4. ASSUME NEW c \in Clients, FirstFrame(c) PROVE Goal
  <2>1. /\ queue' = queue /\ seq' = seq
        /\ at' = [at EXCEPT ![c] = seq]
        /\ phase' = [phase EXCEPT ![c] = "live"]
    BY <1>4 DEF FirstFrame, SendFull, cacheVars
  <2>2. CASE d = c
    <3>1. at'[d] = seq
      BY <2>1, <2>2 DEF TypeOK
    <3> QED
      BY <1>0, <2>1, <3>1
  <2>3. CASE d # c
    <3>1. at'[d] = at[d] /\ phase'[d] = phase[d]
      BY <2>1, <2>3 DEF TypeOK
    <3> QED
      BY <1>0, <2>1, <3>1 DEF QueueSound
  <2> QED
    BY <2>2, <2>3
<1>5. ASSUME NEW c \in Clients, ReadFull(c) \/ ReadDelta(c) PROVE Goal
  <2>1. /\ seq' = seq /\ phase' = phase /\ queue[c] # <<>>
        /\ at' = [at EXCEPT ![c] = seq]
        /\ queue' = [queue EXCEPT ![c] = Tail(@)]
    BY <1>5 DEF ReadFull, ReadDelta, SendFull, Wake, cacheVars
  <2>2. CASE d = c
    <3>1. at'[d] = seq /\ queue'[d] = Tail(queue[d])
      BY <2>1, <2>2 DEF TypeOK
    <3>2. Len(Tail(queue[d])) = Len(queue[d]) - 1
      BY <1>0, <2>1, <2>2
    <3>3. Len(queue[d]) \in Nat
      BY <1>0
    <3> QED
      BY <1>0, <2>1, <3>1, <3>2, <3>3
  <2>3. CASE d # c
    <3>1. at'[d] = at[d] /\ queue'[d] = queue[d]
      BY <2>1, <2>3 DEF TypeOK
    <3> QED
      BY <1>0, <2>1, <3>1 DEF QueueSound
  <2> QED
    BY <2>2, <2>3
<1>6. ASSUME NEW c \in Clients, Disconnect(c) PROVE Goal
  <2>1. /\ seq' = seq
        /\ at' = [at EXCEPT ![c] = 0]
        /\ queue' = [queue EXCEPT ![c] = <<>>]
        /\ phase' = [phase EXCEPT ![c] = "off"]
    BY <1>6 DEF Disconnect, cacheVars
  <2>2. CASE d = c
    <3>1. at'[d] = 0 /\ queue'[d] = <<>> /\ phase'[d] = "off"
      BY <2>1, <2>2 DEF TypeOK
    <3> QED
      BY <1>0, <2>1, <3>1
  <2>3. CASE d # c
    <3>1. at'[d] = at[d] /\ queue'[d] = queue[d] /\ phase'[d] = phase[d]
      BY <2>1, <2>3 DEF TypeOK
    <3> QED
      BY <1>0, <2>1, <3>1 DEF QueueSound
  <2> QED
    BY <2>2, <2>3
<1>7. CASE UNCHANGED vars
  BY <1>7 DEF vars, cacheVars, clientVars, QueueSound
<1> QED
  BY <1>1, <1>2, <1>3, <1>4, <1>5, <1>6, <1>7 DEF Next

\* However slow a reader is and however often its queue overflows, a live
\* connection that has not sent the newest frame has its number waiting.
THEOREM WakeupCorrect == Spec => []NoLostWakeup
<1>1. Init => QueueSound
  BY BoundsAssumption DEF Init, QueueSound
<1>2. QueueSound => NoLostWakeup
  BY DEF QueueSound, NoLostWakeup
<1> QED
  BY <1>1, <1>2, QueueStep, TypeCorrect, PTL DEF Spec

-----------------------------------------------------------------------------
(* Clients that missed no frame.                                           *)

\* Whatever the pruning rule keeps, every vehicle of the message has a trail,
\* and it ends at the reported position.
LEMMA TrailsOfMessage ==
  ASSUME TypeOK, NEW raw \in Messages, NEW v \in DOMAIN raw
  PROVE  /\ raw[v] \in Reports
         /\ Trail(v) \in Seq(Point)
         /\ v \in DOMAIN RecordHistory(raw)
         /\ RecordHistory(raw)[v] = Extend(Trail(v), raw[v])
<1>1. raw[v] \in Reports
  BY DEF Messages
<1>2. Trail(v) \in Seq(Point)
  BY DEF Trail, TypeOK
<1>3. DOMAIN RecordHistory(raw) \in {DOMAIN raw, DOMAIN history \cup DOMAIN raw}
  BY DEF RecordHistory
<1>4. v \in DOMAIN RecordHistory(raw)
  BY <1>3
<1>5. RecordHistory(raw)[v] = Extend(Trail(v), raw[v])
  BY <1>4 DEF RecordHistory
<1> QED
  BY <1>1, <1>2, <1>4, <1>5

\* A vehicle that did not move and showed no bearing derives none now either.
LEMMA StandingStill ==
  ASSUME TypeOK, FrameSound, NEW raw \in Messages, NEW v \in DOMAIN raw,
         v \in DOMAIN frame, frame[v].pos = raw[v].pos, frame[v].bearing = NoBearing
  PROVE  DeriveBearing(RecordHistory(raw)[v]) = NoBearing
<1>1. RecordHistory(raw)[v] = Extend(Trail(v), raw[v]) /\ raw[v] \in Reports
  BY TrailsOfMessage
<1>2. CASE v \in DOMAIN history
  <2>1. /\ Trail(v) = history[v]
        /\ Trail(v) # <<>>
        /\ Newest(Trail(v)).pos = raw[v].pos
        /\ DeriveBearing(Trail(v)) = NoBearing
    BY <1>2 DEF Trail, FrameSound
  <2>2. Trail(v) \in Seq(Point)
    BY TrailsOfMessage
  <2>3. Extend(Trail(v), raw[v]) = Trail(v)
    BY <2>1, <2>2, <1>1, ExtendTrail
  <2> QED
    BY <1>1, <2>1, <2>3
<1>3. CASE v \notin DOMAIN history
  <2> DEFINE p == [pos |-> raw[v].pos, ts |-> raw[v].ts]
  <2>1. Trail(v) = <<>>
    BY <1>3 DEF Trail
  <2>2. Append(<<>>, p) = <<p>> /\ Len(<<p>>) = 1
    OBVIOUS
  <2>3. Extend(<<>>, raw[v]) = <<p>>
    BY <2>2, BoundsAssumption DEF Extend
  <2> QED
    BY <1>1, <2>1, <2>3, ShortTrail
<1> QED
  BY <1>2, <1>3

\* The comparison on raw reports misses no change of what is published.
LEMMA NotUpdatedUnchanged ==
  ASSUME TypeOK, FrameSound, RouteFixedByTrip, NEW raw \in Messages, Apply(raw),
         NEW v \in DOMAIN raw, delta'.present, v \notin delta'.upd
  PROVE  v \in DOMAIN frame /\ frame'[v] = frame[v]
<1>1. /\ v \in DOMAIN frame
      /\ frame[v].pos = raw[v].pos
      /\ frame[v].trip = raw[v].trip
      /\ frame[v].bearing = raw[v].bearing
  BY DEF Apply, NoDelta, ComputeDelta, Differs
<1>2. raw[v] \in Reports
  BY TrailsOfMessage
<1>3. frame[v].route = raw[v].route
  BY <1>1, <1>2 DEF FrameSound, RouteFixedByTrip
<1>4. frame'[v] = Show(v, raw[v], RecordHistory(raw)[v])
  BY DEF Apply
<1>5. Published(v, raw[v], RecordHistory(raw)[v]) = frame[v].bearing
  <2>1. CASE raw[v].bearing # NoBearing
    BY <1>1, <2>1 DEF Published
  <2>2. CASE raw[v].bearing = NoBearing
    BY <1>1, <2>2, StandingStill DEF Published
  <2> QED
    BY <2>1, <2>2
<1>6. frame[v] \in Shown
  BY <1>1 DEF TypeOK, IsFrame
<1> QED
  BY <1>1, <1>3, <1>4, <1>5, <1>6 DEF Show, Shown

LEMMA FrameSoundStep == TypeOK /\ FrameSound /\ [Next]_vars => FrameSound'
<1> SUFFICES ASSUME TypeOK, FrameSound, [Next]_vars PROVE FrameSound'
  OBVIOUS
<1>1. ASSUME NEW raw \in Messages, Apply(raw) PROVE FrameSound'
  <2> SUFFICES ASSUME NEW v \in DOMAIN frame'
               PROVE  /\ \E r \in Reports : r.trip = frame'[v].trip /\ r.route = frame'[v].route
                      /\ v \in DOMAIN history' =>
                            /\ history'[v] # <<>>
                            /\ Newest(history'[v]).pos = frame'[v].pos
                            /\ frame'[v].bearing = NoBearing
                                  => DeriveBearing(history'[v]) = NoBearing
    BY DEF FrameSound
  <2>1. v \in DOMAIN raw /\ frame'[v] = Show(v, raw[v], RecordHistory(raw)[v])
    BY <1>1 DEF Apply
  <2>2. /\ raw[v] \in Reports
        /\ history'[v] = Extend(Trail(v), raw[v])
        /\ Trail(v) \in Seq(Point)
        /\ history'[v] = RecordHistory(raw)[v]
    BY <1>1, <2>1, TrailsOfMessage DEF Apply
  <2>3. frame'[v].trip = raw[v].trip /\ frame'[v].route = raw[v].route
        /\ frame'[v].pos = raw[v].pos
    BY <2>1 DEF Show
  <2>4. frame'[v].bearing = NoBearing => DeriveBearing(history'[v]) = NoBearing
    BY <2>1, <2>2 DEF Show, Published, NoBearing
  <2> QED
    BY ZenonT(60), <2>2, <2>3, <2>4, ExtendTrail
<1>2. CASE Purge
  BY <1>2 DEF Purge, FrameSound
<1>3. CASE UNCHANGED cacheVars
  BY <1>3 DEF cacheVars, FrameSound
<1> QED
  BY <1>1, <1>2, <1>3 DEF Next, vars, Connect, FirstFrame, ReadFull, ReadDelta, Wake, Disconnect

\* What Following and InStep say of one client.
Kept(c) ==
    (phase[c] = "live" /\ ~gap[c]) =>
        /\ at[c] = seq => map[c] = Snapshot(filter[c])
        /\ (at[c] + 1 = seq /\ delta.present) => OneBehind(c)

\* A new frame leaves an up-to-date client exactly one delta behind.
LEMMA ApplyKept ==
  ASSUME TypeOK, FrameSound, QueueSound, RouteFixedByTrip, Following, InStep,
         NEW raw \in Messages, Apply(raw), NEW c \in Clients
  PROVE  Kept(c)'
<1>1. /\ seq' = seq + 1
      /\ UNCHANGED <<phase, filter, map, at, gap>>
  BY DEF Apply
<1>2. at[c] <= seq /\ at[c] \in Int /\ seq \in Int
  BY DEF TypeOK, QueueSound
<1> SUFFICES ASSUME phase[c] = "live", ~gap[c], at[c] = seq, delta'.present
             PROVE  OneBehind(c)'
  BY <1>1, <1>2 DEF Kept
<1>3. map[c] = Snapshot(filter[c])
  BY DEF InStep
<1>4. DOMAIN map[c] = Matching(filter[c])
  BY <1>3 DEF Snapshot
<1>5. DOMAIN frame' = DOMAIN raw
  BY DEF Apply
<1>6. \A v \in Matching(filter[c])' :
         v \in delta'.upd \/ (v \in DOMAIN map[c] /\ map[c][v] = frame'[v])
  <2> SUFFICES ASSUME NEW v \in Matching(filter[c])', v \notin delta'.upd
               PROVE  v \in DOMAIN map[c] /\ map[c][v] = frame'[v]
    OBVIOUS
  <2>1. v \in DOMAIN raw /\ Match(filter[c], frame'[v])
    BY <1>1, <1>5 DEF Matching
  <2>2. v \in DOMAIN frame /\ frame'[v] = frame[v]
    BY <2>1, NotUpdatedUnchanged
  <2>3. v \in Matching(filter[c])
    BY <2>1, <2>2 DEF Matching
  <2> QED
    BY <1>3, <1>4, <2>2, <2>3 DEF Snapshot
<1>7. DOMAIN map[c] \ Matching(filter[c])' \subseteq delta'.upd \cup delta'.del
  <2> SUFFICES ASSUME NEW v \in DOMAIN map[c], v \notin Matching(filter[c])',
                      v \notin delta'.upd
               PROVE  v \in delta'.del
    OBVIOUS
  <2>1. v \in DOMAIN frame /\ Match(filter[c], frame[v])
    BY <1>4 DEF Matching
  <2>2. CASE v \in DOMAIN raw
    <3>1. frame'[v] = frame[v]
      BY <2>2, NotUpdatedUnchanged
    <3>2. v \in Matching(filter[c])'
      BY <1>1, <1>5, <2>1, <2>2, <3>1 DEF Matching
    <3> QED
      BY <3>2
  <2>3. CASE v \notin DOMAIN raw
    BY <2>1, <2>3 DEF Apply, NoDelta, ComputeDelta
  <2> QED
    BY <2>2, <2>3
<1>8. filter'[c] = filter[c] /\ map'[c] = map[c]
  BY <1>1
<1> QED
  BY <1>6, <1>7, <1>8 DEF OneBehind

\* A delta read in sequence, or read twice, brings the client to the frame.
LEMMA DeltaKept ==
  ASSUME TypeOK, DeltaSound, QueueSound, SentMirrorsClient, Following, InStep,
         NEW c \in Clients, ReadDelta(c)
  PROVE  Kept(c)'
<1>1. /\ UNCHANGED <<seq, frame, delta, filter, phase>>
      /\ phase[c] = "live" /\ delta.present
      /\ at'[c] = seq
  BY DEF ReadDelta, Wake, cacheVars, TypeOK
<1>a. gap'[c] = (gap[c] \/ at[c] + 1 < seq)
  BY DEF ReadDelta, TypeOK
<1>2. at[c] <= seq /\ at[c] \in Int /\ seq \in Int
  BY DEF TypeOK, QueueSound
<1> SUFFICES ASSUME ~gap[c], at[c] \in {seq, seq - 1}
             PROVE  map'[c] = Snapshot(filter[c])
  <2>1. Snapshot(filter[c])' = Snapshot(filter[c])
    BY <1>1 DEF Snapshot, Matching
  <2> DEFINE late == at[c] + 1 < seq
  <2>a. gap[c] \in BOOLEAN /\ late \in BOOLEAN
    BY DEF TypeOK
  <2>b. gap'[c] = (gap[c] \/ late)
    BY <1>a
  <2>c. ~late => at[c] \in {seq, seq - 1}
    BY <1>2
  <2> HIDE DEF late
  <2>d. ~gap'[c] => ~gap[c] /\ ~late
    BY <2>a, <2>b, Zenon
  <2>2. ~gap'[c] => (~gap[c] /\ at[c] \in {seq, seq - 1})
    BY <2>c, <2>d
  <2>3. at'[c] + 1 # seq'
    BY <1>1, <1>2
  <2> QED
    BY <2>1, <2>2, <2>3 DEF Kept
<1> DEFINE M == Matching(filter[c])
<1>3. M \subseteq DOMAIN frame
  BY DEF Matching
<1>4. map'[c] = [v \in (DOMAIN map[c] \cup Updated(c)) \ Removed(c) |->
                     IF v \in Updated(c) THEN frame[v] ELSE map[c][v]]
  BY DEF ReadDelta, TypeOK
<1>5. ~Active(filter[c]) => M = DOMAIN frame
  BY DEF Active, Matching, Match
<1>6. Active(filter[c]) => sent[c] = DOMAIN map[c]
  BY <1>1 DEF SentMirrorsClient
<1>7. /\ \A v \in M : v \in delta.upd \/ (v \in DOMAIN map[c] /\ map[c][v] = frame[v])
      /\ DOMAIN map[c] \ M \subseteq delta.upd \cup delta.del
  <2>1. CASE at[c] = seq
    <3>1. map[c] = Snapshot(filter[c])
      BY <1>1, <2>1 DEF InStep
    <3> QED
      BY <3>1 DEF Snapshot
  <2>2. CASE at[c] = seq - 1
    <3>1. at[c] + 1 = seq
      BY <1>2, <2>2
    <3> QED
      BY <1>1, <3>1 DEF Following, OneBehind
  <2> QED
    BY <2>1, <2>2
<1> HIDE DEF M
<1>8. Updated(c) = delta.upd \cap M
  <2>1. ~Active(filter[c]) => delta.upd \cap M = delta.upd
    BY <1>5 DEF DeltaSound
  <2> QED
    BY <2>1 DEF Updated, M
<1>9. (DOMAIN map[c] \cup Updated(c)) \ Removed(c) = M
  <2>1. CASE Active(filter[c])
    <3>1. Removed(c) = DOMAIN map[c] \cap (delta.del \cup (delta.upd \ M))
      BY <1>6, <2>1 DEF Removed, M
    <3> QED
      BY <1>3, <1>7, <1>8, <3>1 DEF DeltaSound
  <2>2. CASE ~Active(filter[c])
    <3>1. Removed(c) = delta.del
      BY <2>2 DEF Removed
    <3> QED
      BY <1>3, <1>5, <1>7, <1>8, <2>2, <3>1 DEF DeltaSound
  <2> QED
    BY <2>1, <2>2
<1>10. \A v \in M : (IF v \in Updated(c) THEN frame[v] ELSE map[c][v]) = frame[v]
  BY <1>7, <1>8
<1> QED
  BY <1>4, <1>9, <1>10 DEF Snapshot, M

LEMMA KeptStep ==
  ASSUME RouteFixedByTrip
  PROVE  TypeOK /\ DeltaSound /\ FrameSound /\ QueueSound /\ SentMirrorsClient
            /\ Following /\ InStep /\ [Next]_vars => Following' /\ InStep'
<1> SUFFICES ASSUME TypeOK, DeltaSound, FrameSound, QueueSound, SentMirrorsClient,
                    Following, InStep, [Next]_vars, NEW d \in Clients
             PROVE  Kept(d)'
  BY DEF Kept, Following, InStep
<1>0. Kept(d)
  BY DEF Kept, Following, InStep
<1>1. ASSUME NEW raw \in Messages, Apply(raw) PROVE Kept(d)'
  BY <1>1, ApplyKept
<1>2. CASE Purge
  BY <1>0, <1>2 DEF Purge, clientVars, Kept, Snapshot, Matching, OneBehind
<1>3. ASSUME NEW c \in Clients, Connect(c) PROVE Kept(d)'
  <2>1. CASE d = c
    BY <1>3, <2>1 DEF Connect, TypeOK, Kept
  <2>2. CASE d # c
    <3>1. phase'[d] = phase[d] /\ filter'[d] = filter[d]
      BY <1>3, <2>2 DEF Connect, TypeOK
    <3>2. UNCHANGED <<seq, frame, delta, map, at, gap>>
      BY <1>3 DEF Connect, cacheVars
    <3> QED
      BY <1>0, <3>1, <3>2 DEF Kept, Snapshot, Matching, OneBehind
  <2> QED
    BY <2>1, <2>2
<1>4. ASSUME NEW c \in Clients, FirstFrame(c) \/ ReadFull(c) PROVE Kept(d)'
  <2>1. UNCHANGED <<seq, frame, delta, filter>> /\ SendFull(c)
    BY <1>4 DEF FirstFrame, ReadFull, Wake, cacheVars
  <2>2. CASE d = c
    <3>1. map'[d] = Snapshot(filter[d]) /\ at'[d] = seq
      BY <2>1, <2>2 DEF SendFull, TypeOK
    <3>2. at'[d] + 1 # seq
      BY <3>1 DEF TypeOK
    <3> QED
      BY <2>1, <3>1, <3>2 DEF Kept, Snapshot, Matching
  <2>3. CASE d # c
    <3>1. map'[d] = map[d] /\ at'[d] = at[d] /\ gap'[d] = gap[d]
      BY <2>1, <2>3 DEF SendFull, TypeOK
    <3>2. phase'[d] = phase[d]
      BY <1>4, <2>3 DEF FirstFrame, ReadFull, Wake, TypeOK
    <3> QED
      BY <1>0, <2>1, <3>1, <3>2 DEF Kept, Snapshot, Matching, OneBehind
  <2> QED
    BY <2>2, <2>3
<1>5. ASSUME NEW c \in Clients, ReadDelta(c) PROVE Kept(d)'
  <2>1. CASE d = c
    BY <1>5, <2>1, DeltaKept
  <2>2. CASE d # c
    <3>1. map'[d] = map[d] /\ at'[d] = at[d] /\ gap'[d] = gap[d]
      BY <1>5, <2>2 DEF ReadDelta, TypeOK
    <3>2. UNCHANGED <<seq, frame, delta, filter, phase>>
      BY <1>5 DEF ReadDelta, Wake, cacheVars
    <3> QED
      BY <1>0, <3>1, <3>2 DEF Kept, Snapshot, Matching, OneBehind
  <2> QED
    BY <2>1, <2>2
<1>6. ASSUME NEW c \in Clients, Disconnect(c) PROVE Kept(d)'
  <2>1. CASE d = c
    BY <1>6, <2>1 DEF Disconnect, TypeOK, Kept
  <2>2. CASE d # c
    <3>1. /\ map'[d] = map[d] /\ at'[d] = at[d] /\ gap'[d] = gap[d]
          /\ phase'[d] = phase[d] /\ filter'[d] = filter[d]
      BY <1>6, <2>2 DEF Disconnect, TypeOK
    <3>2. UNCHANGED <<seq, frame, delta>>
      BY <1>6 DEF Disconnect, cacheVars
    <3> QED
      BY <1>0, <3>1, <3>2 DEF Kept, Snapshot, Matching, OneBehind
  <2> QED
    BY <2>1, <2>2
<1>7. CASE UNCHANGED vars
  BY <1>0, <1>7 DEF vars, cacheVars, clientVars, Kept, Snapshot, Matching, OneBehind
<1> QED
  BY <1>1, <1>2, <1>3, <1>4, <1>5, <1>6, <1>7 DEF Next

\* On a feed whose trips fix their routes, a client that was sent every
\* sequence number has exactly the server's current vehicles inside its filter,
\* position, trip, route and smoothed bearing included.
THEOREM InStepCorrect ==
  ASSUME RouteFixedByTrip
  PROVE  Spec => []InStep
<1>1. Init => FrameSound /\ QueueSound /\ SentMirrorsClient /\ Following /\ InStep
  BY BoundsAssumption
     DEF Init, FrameSound, QueueSound, SentMirrorsClient, Following, InStep, Nothing
<1> QED
  BY <1>1, TypeInit, TypeStep, DeltaSoundStep, FrameSoundStep, QueueStep, MirrorStep,
     KeptStep, PTL DEF Spec
=============================================================================
