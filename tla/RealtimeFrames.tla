--------------------------- MODULE RealtimeFrames ---------------------------
(***************************************************************************)
(* One city's realtime vehicle frame (app/rt.py, RTCache) and the SSE      *)
(* connections that follow it (app/routers/vehicles.py, stream and         *)
(* StreamFilter).                                                          *)
(*                                                                         *)
(* The poller replaces the frame, keeps one delta against the frame before *)
(* it, extends the per-vehicle trails, derives bearings and puts the new   *)
(* sequence number in a two-place queue per connection.  A connection that *)
(* wakes up sends the delta the cache holds THEN, whatever number it took  *)
(* from its queue.  `map` is the plain id-keyed map the client builds from *)
(* the frames, `at` the sequence number of the last frame it received and  *)
(* `gap` whether a delta ever skipped a number since the last full frame.  *)
(*                                                                         *)
(* Positions are integers on a line, a bearing is a set of directions: the *)
(* empty set is Python's None, {"F"} a bearing published by the feed, and  *)
(* the circular mean of two derived bearings is the union of the two.      *)
(* A frame is one record per vehicle id: a feed that repeats an id inside  *)
(* one message is not modelled.                                            *)
(***************************************************************************)
EXTENDS Integers, Sequences, FiniteSets

CONSTANTS
    Vehicles,       \* vehicle ids
    Clients,        \* connection slots
    Reports,        \* what the feed may say of one vehicle
    Filters,        \* (bbox, routeIds) a connection may ask for
    Trips, Routes,
    MinMove,        \* MIN_MOVE_M
    MaxGap,         \* MAX_PAIR_GAP_S
    HistoryPoints,  \* VEHICLE_HISTORY_POINTS
    HistoryFloor,   \* the 1000 of the pruning rule
    QueueSize,      \* asyncio.Queue(maxsize=2)
    MaxSeq          \* bound on the frames a behaviour publishes

NoBearing == {}
FeedBearing == {"F"}
Bearings == SUBSET {"F", "E", "W"}

ASSUME ReportsAssumption ==
    Reports \subseteq [pos: Int, ts: Int, trip: Trips, route: Routes,
                       bearing: {NoBearing, FeedBearing}]
ASSUME FiltersAssumption ==
    Filters \subseteq [bbox: SUBSET Int, routes: SUBSET Routes]
ASSUME BoundsAssumption ==
    /\ QueueSize \in Nat \ {0}
    /\ HistoryPoints \in Nat \ {0}
    /\ HistoryFloor \in Nat
    /\ MaxSeq \in Nat
    /\ MinMove \in Nat \ {0}
    /\ MaxGap \in Nat

VARIABLES
    seq,          \* RTCache.seq
    frame,        \* RTCache.by_id (and .vehicles)
    delta,        \* RTCache.delta; present = FALSE is None
    history,      \* RTCache.history: id -> trail, newest last
    lastDerived,  \* RTCache._last_derived
    phase,        \* "off", "subscribed" (queue made, nothing sent), "live"
    filter,       \* the StreamFilter's bbox and route_ids
    deltas,       \* the ?deltas= parameter
    queue,        \* the connection's queue of sequence numbers
    sent,         \* StreamFilter.sent
    map,          \* the client's id-keyed map
    at,           \* seq of the last frame the client received
    gap           \* a delta skipped a number since the last full frame

cacheVars == <<seq, frame, delta, history, lastDerived>>
clientVars == <<phase, filter, deltas, queue, sent, map, at, gap>>
vars == <<cacheVars, clientVars>>

Shown == [pos: Int, trip: Trips, route: Routes, bearing: Bearings]
IsFrame(f) == f \in [DOMAIN f -> Shown] /\ DOMAIN f \subseteq Vehicles
Point == [pos: Int, ts: Int]
NoFilter == [bbox |-> {}, routes |-> {}]
NoDelta == [present |-> FALSE, upd |-> {}, del |-> {}]
Nothing == [v \in {} |-> [pos |-> 0]]

-----------------------------------------------------------------------------
(* The frame the cache publishes.                                          *)

Newest(trail) == trail[Len(trail)]

Distance(p, q) == IF p < q THEN q - p ELSE p - q

\* The two most recent distinct positions: those at least MinMove apart.
Apart(trail) ==
    {i \in 1 .. Len(trail) - 1 :
        Distance(trail[i].pos, Newest(trail).pos) >= MinMove}

DeriveBearing(trail) ==
    IF Apart(trail) = {} THEN NoBearing
    ELSE LET i == CHOOSE j \in Apart(trail) : \A k \in Apart(trail) : k <= j
         IN  IF Newest(trail).ts - trail[i].ts > MaxGap THEN NoBearing
             ELSE IF trail[i].pos < Newest(trail).pos THEN {"E"} ELSE {"W"}

\* deque(maxlen=n).append, skipped while the vehicle stands still.
Extend(trail, r) ==
    LET longer == Append(trail, [pos |-> r.pos, ts |-> r.ts])
    IN  IF trail # <<>> /\ Newest(trail).pos = r.pos THEN trail
        ELSE IF Len(longer) > HistoryPoints THEN Tail(longer) ELSE longer

Trail(v) == IF v \in DOMAIN history THEN history[v] ELSE <<>>

RecordHistory(raw) ==
    LET all == DOMAIN history \cup DOMAIN raw
        floor == IF Cardinality(DOMAIN raw) > HistoryFloor
                 THEN Cardinality(DOMAIN raw) ELSE HistoryFloor
        kept == IF Cardinality(all) > 3 * floor THEN DOMAIN raw ELSE all
    IN  [v \in kept |-> IF v \in DOMAIN raw THEN Extend(Trail(v), raw[v])
                        ELSE history[v]]

\* Published bearing: the feed's, else the mean of the last two derived ones.
Published(v, r, trail) ==
    IF r.bearing # NoBearing THEN r.bearing
    ELSE IF DeriveBearing(trail) = NoBearing THEN NoBearing
    ELSE DeriveBearing(trail)
             \cup (IF v \in DOMAIN lastDerived THEN lastDerived[v] ELSE {})

Show(v, r, trail) == [pos |-> r.pos, trip |-> r.trip, route |-> r.route,
                      bearing |-> Published(v, r, trail)]

Derives(raw, trails) ==
    {v \in DOMAIN raw : /\ raw[v].bearing = NoBearing
                        /\ DeriveBearing(trails[v]) # NoBearing}

\* Smoothing state: dropped with a pruned trail, then one entry per derivation.
Smoothing(raw, trails) ==
    LET pruned == DOMAIN history \ DOMAIN trails
        now == Derives(raw, trails)
    IN  [v \in (DOMAIN lastDerived \ pruned) \cup now |->
            IF v \in now THEN DeriveBearing(trails[v]) ELSE lastDerived[v]]

\* Mutant: a change of bearing alone is no change.
DiffersButBearing(prev, r) == prev.pos # r.pos \/ prev.trip # r.trip

\* The comparison runs on the raw report, before bearings are derived.
Differs(prev, r) ==
    prev.pos # r.pos \/ prev.trip # r.trip \/ prev.bearing # r.bearing

ComputeDelta(raw) ==
    [present |-> TRUE,
     upd |-> {v \in DOMAIN raw :
                v \in DOMAIN frame => Differs(frame[v], raw[v])},
     del |-> DOMAIN frame \ DOMAIN raw]

\* A full queue loses its oldest number.
Put(q, n) == Append(IF Len(q) >= QueueSize THEN Tail(q) ELSE q, n)

\* Mutant: a frame that changes nothing wakes nobody.
PublishChanges(n) ==
    LET same == delta'.present /\ delta'.upd = {} /\ delta'.del = {}
    IN  queue' = [c \in Clients |-> IF phase[c] = "off" \/ same THEN queue[c]
                                    ELSE Put(queue[c], n)]

Publish(n) ==
    queue' = [c \in Clients |-> IF phase[c] = "off" THEN queue[c]
                                ELSE Put(queue[c], n)]

\* apply(pos, ...) with a positions message; without one it changes no frame.
Apply(raw) ==
    LET trails == RecordHistory(raw)
    IN  /\ seq < MaxSeq
        /\ delta' = IF DOMAIN frame = {} THEN NoDelta ELSE ComputeDelta(raw)
        /\ seq' = seq + 1
        /\ history' = trails
        /\ frame' = [v \in DOMAIN raw |-> Show(v, raw[v], trails[v])]
        /\ lastDerived' = Smoothing(raw, trails)
        /\ Publish(seq + 1)
        /\ UNCHANGED <<phase, filter, deltas, sent, map, at, gap>>

\* POST /v1/admin/cities/{city}/purge
Purge ==
    /\ DOMAIN history # {}
    /\ history' = [v \in {} |-> <<>>]
    /\ UNCHANGED <<seq, frame, delta, lastDerived, clientVars>>

-----------------------------------------------------------------------------
(* The connections.                                                        *)

Active(f) == f.bbox # {} \/ f.routes # {}

Match(f, e) == /\ f.routes # {} => e.route \in f.routes
               /\ f.bbox # {} => e.pos \in f.bbox

Matching(f) == {v \in DOMAIN frame : Match(f, frame[v])}

Snapshot(f) == [v \in Matching(f) |-> frame[v]]

Connect(c) ==
    /\ phase[c] = "off"
    /\ \E f \in Filters, d \in BOOLEAN :
          /\ filter' = [filter EXCEPT ![c] = f]
          /\ deltas' = [deltas EXCEPT ![c] = d]
    /\ phase' = [phase EXCEPT ![c] = "subscribed"]
    /\ UNCHANGED <<cacheVars, queue, sent, map, at, gap>>

\* A full frame: StreamFilter.full of the snapshot.
SendFull(c) ==
    /\ map' = [map EXCEPT ![c] = Snapshot(filter[c])]
    /\ sent' = [sent EXCEPT ![c] = IF Active(filter[c]) THEN Matching(filter[c])
                                   ELSE @]
    /\ at' = [at EXCEPT ![c] = seq]
    /\ gap' = [gap EXCEPT ![c] = FALSE]

FirstFrame(c) ==
    /\ phase[c] = "subscribed"
    /\ phase' = [phase EXCEPT ![c] = "live"]
    /\ SendFull(c)
    /\ UNCHANGED <<cacheVars, filter, deltas, queue>>

Wake(c) ==
    /\ phase[c] = "live"
    /\ queue[c] # <<>>
    /\ queue' = [queue EXCEPT ![c] = Tail(@)]
    /\ UNCHANGED <<cacheVars, phase, filter, deltas>>

ReadFull(c) ==
    /\ ~(deltas[c] /\ delta.present)
    /\ Wake(c)
    /\ SendFull(c)

\* StreamFilter.delta of the frame's updated and removed ids.
Updated(c) == IF Active(filter[c]) THEN delta.upd \cap Matching(filter[c])
              ELSE delta.upd

Removed(c) == IF Active(filter[c])
              THEN sent[c] \cap (delta.del \cup (delta.upd \ Matching(filter[c])))
              ELSE delta.del

ReadDelta(c) ==
    /\ deltas[c] /\ delta.present
    /\ Wake(c)
    /\ map' = [map EXCEPT ![c] =
                 [v \in (DOMAIN map[c] \cup Updated(c)) \ Removed(c) |->
                     IF v \in Updated(c) THEN frame[v] ELSE map[c][v]]]
    /\ sent' = [sent EXCEPT ![c] = IF Active(filter[c])
                                   THEN (@ \cup Updated(c)) \ Removed(c) ELSE @]
    /\ at' = [at EXCEPT ![c] = seq]
    /\ gap' = [gap EXCEPT ![c] = @ \/ at[c] + 1 < seq]

\* The client goes away: the generator's finally clause unsubscribes.
Disconnect(c) ==
    /\ phase[c] # "off"
    /\ phase' = [phase EXCEPT ![c] = "off"]
    /\ filter' = [filter EXCEPT ![c] = NoFilter]
    /\ deltas' = [deltas EXCEPT ![c] = FALSE]
    /\ queue' = [queue EXCEPT ![c] = <<>>]
    /\ sent' = [sent EXCEPT ![c] = {}]
    /\ map' = [map EXCEPT ![c] = Nothing]
    /\ at' = [at EXCEPT ![c] = 0]
    /\ gap' = [gap EXCEPT ![c] = FALSE]
    /\ UNCHANGED cacheVars

-----------------------------------------------------------------------------
Init ==
    /\ seq = 0
    /\ frame = Nothing
    /\ delta = NoDelta
    /\ history = [v \in {} |-> <<>>]
    /\ lastDerived = [v \in {} |-> {}]
    /\ phase = [c \in Clients |-> "off"]
    /\ filter = [c \in Clients |-> NoFilter]
    /\ deltas = [c \in Clients |-> FALSE]
    /\ queue = [c \in Clients |-> <<>>]
    /\ sent = [c \in Clients |-> {}]
    /\ map = [c \in Clients |-> Nothing]
    /\ at = [c \in Clients |-> 0]
    /\ gap = [c \in Clients |-> FALSE]

Messages == UNION {[S -> Reports] : S \in SUBSET Vehicles}

Next ==
    \/ \E raw \in Messages : Apply(raw)
    \/ Purge
    \/ \E c \in Clients : \/ Connect(c)
                          \/ FirstFrame(c)
                          \/ ReadFull(c)
                          \/ ReadDelta(c)
                          \/ Disconnect(c)

\* The event loop runs a generator that has something to send; nothing makes
\* the feed answer or a client stay.
Fairness == \A c \in Clients : WF_vars(FirstFrame(c) \/ ReadFull(c) \/ ReadDelta(c))

Spec == Init /\ [][Next]_vars
FairSpec == Spec /\ Fairness

-----------------------------------------------------------------------------
(* Properties.                                                             *)

\* Type invariant of the cache and of every connection.
TypeOK ==
    /\ seq \in 0 .. MaxSeq
    /\ IsFrame(frame)
    /\ delta \in [present: BOOLEAN, upd: SUBSET Vehicles, del: SUBSET Vehicles]
    /\ history \in [DOMAIN history -> Seq(Point)]
    /\ DOMAIN history \subseteq Vehicles
    /\ lastDerived \in [DOMAIN lastDerived -> Bearings]
    /\ DOMAIN lastDerived \subseteq Vehicles
    /\ phase \in [Clients -> {"off", "subscribed", "live"}]
    /\ filter \in [Clients -> [bbox: SUBSET Int, routes: SUBSET Routes]]
    /\ deltas \in [Clients -> BOOLEAN]
    /\ queue \in [Clients -> Seq(Nat)]
    /\ sent \in [Clients -> SUBSET Vehicles]
    /\ map \in [Clients -> {map[c] : c \in Clients}]
    /\ \A c \in Clients : IsFrame(map[c])
    /\ at \in [Clients -> 0 .. MaxSeq]
    /\ gap \in [Clients -> BOOLEAN]

\* A client whose frames never skipped a number and who is at the current one
\* shows exactly the vehicles of the current frame that pass its filter, with
\* the position, trip and (derived, smoothed) bearing the server publishes.
InStep ==
    \A c \in Clients :
        (phase[c] = "live" /\ at[c] = seq /\ ~gap[c])
            => map[c] = Snapshot(filter[c])

\* The filter's own record of what it sent is the client's map, gaps or not:
\* the `count` of every frame and the ids it will report in `removed` are right.
SentMirrorsClient ==
    \A c \in Clients :
        (phase[c] = "live" /\ Active(filter[c])) => sent[c] = DOMAIN map[c]

\* Dropping from a full queue never loses the wake-up of the newest frame.
NoLostWakeup ==
    \A c \in Clients :
        (phase[c] = "live" /\ at[c] < seq)
            => queue[c] # <<>> /\ Newest(queue[c]) = seq /\ Len(queue[c]) <= QueueSize

-----------------------------------------------------------------------------
(* The inductive strengthening of InStep and NoLostWakeup.                 *)

\* The delta speaks of the frame it leads to.
DeltaSound ==
    /\ delta.upd \subseteq DOMAIN frame
    /\ delta.del \cap DOMAIN frame = {}

\* What a vehicle shows comes from its last report and from its trail.
FrameSound ==
    \A v \in DOMAIN frame :
        /\ \E r \in Reports : r.trip = frame[v].trip /\ r.route = frame[v].route
        /\ v \in DOMAIN history =>
              /\ history[v] # <<>>
              /\ Newest(history[v]).pos = frame[v].pos
              /\ frame[v].bearing = NoBearing => DeriveBearing(history[v]) = NoBearing

\* The queue of an open connection is within its size, and its end is seq
\* unless the client has already been sent that frame.
QueueSound ==
    \A c \in Clients :
        /\ at[c] <= seq
        /\ Len(queue[c]) <= QueueSize
        /\ (phase[c] = "live" /\ at[c] < seq) => queue[c] # <<>> /\ Newest(queue[c]) = seq

\* One frame behind, the delta is exactly what the client's map lacks.
OneBehind(c) ==
    /\ \A v \in Matching(filter[c]) :
          v \in delta.upd \/ (v \in DOMAIN map[c] /\ map[c][v] = frame[v])
    /\ DOMAIN map[c] \ Matching(filter[c]) \subseteq delta.upd \cup delta.del

Following ==
    \A c \in Clients :
        (phase[c] = "live" /\ ~gap[c] /\ at[c] + 1 = seq /\ delta.present) => OneBehind(c)

\* Holds of the feeds that give a route exactly one meaning per trip.
RouteFixedByTrip ==
    \A r1, r2 \in Reports : r1.trip = r2.trip => r1.route = r2.route

FollowInv == SentMirrorsClient /\ DeltaSound /\ FrameSound /\ QueueSound /\ Following /\ InStep

-----------------------------------------------------------------------------

\* A connection that stays open gets the newest frame sooner or later.
CatchesUp == \A c \in Clients : []<>(phase[c] = "off" \/ at[c] = seq)

\* docs/API.md:265, "so clients keep a plain id-keyed map": the ids in the map
\* of an up-to-date client are those of the current frame inside its filter.
PlainMap ==
    \A c \in Clients :
        (phase[c] = "live" /\ at[c] = seq) => DOMAIN map[c] = Matching(filter[c])
=============================================================================
