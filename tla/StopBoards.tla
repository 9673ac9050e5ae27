----------------------------- MODULE StopBoards -----------------------------
(***************************************************************************)
(* What a stop announces: the service windows of features.ServiceIndex,    *)
(* the departures of routers/stops.py with the predictions paired to them  *)
(* by stop (normalize.apply_stop_predictions), the board, the buses        *)
(* upstream of the stop, and the watch.  Instants are whole minutes.       *)
(***************************************************************************)
EXTENDS Integers, FiniteSetsExt, SequencesExt

CONSTANTS
    DayLength,     \* minutes of a service day
    PairWithin,    \* how far a prediction may be from the timetable
    Stale,         \* how old a prediction may be
    Hop            \* minutes a bus takes from stop to stop
ASSUME BoardsAssumption == DayLength \in Nat \ {0} /\ {PairWithin, Stale, Hop} \subseteq Nat

None == -1
Absent == ""
Least(S) == IF S = {} THEN None ELSE Min(S)
\* A stable sort: the position settles ties.
Sorted(s, Key(_)) ==
    LET order == SortSeq([i \in DOMAIN s |-> i],
                         LAMBDA i, j : Key(s[i]) < Key(s[j]) \/ (Key(s[i]) = Key(s[j]) /\ i < j))
    IN  [i \in DOMAIN s |-> s[order[i]]]
Firsts(s, n) == SubSeq(s, 1, IF n < Len(s) THEN n ELSE Len(s))

(***************************************************************************)
(* Service windows.  Times of a service day may exceed its length.         *)
(***************************************************************************)
ActiveServices(index, day) ==
    LET regular == {s \in DOMAIN index.calendar : day \in index.calendar[s]}
    IN  (regular \cup {s \in index.services : <<s, day>> \in index.added})
          \ {s \in index.services : <<s, day>> \in index.removed}

WindowsOn(index, day) == {w \in index.windows : w.service \in ActiveServices(index, day)}

\* Yesterday's windows are asked for their end alone.
Active(index, day, time) ==
    \/ \E w \in WindowsOn(index, day) : w.first <= time /\ time <= w.last
    \/ \E w \in WindowsOn(index, day - 1) : w.last > DayLength /\ time + DayLength <= w.last

WindowFor(index, day, time) ==
    LET today  == WindowsOn(index, day)
        active == Active(index, day, time)
        later  == {w.first : w \in {w \in today : w.first > time}}
        next   == {w.first + DayLength : w \in WindowsOn(index, day + 1)}
    IN  [active |-> active, serves |-> today # {},
         start |-> Least({w.first : w \in today}),
         end |-> IF today = {} THEN None ELSE Max({w.last : w \in today}),
         nextStart |-> IF active THEN None ELSE IF later # {} THEN Min(later) ELSE Least(next)]

(***************************************************************************)
(* Predictions keyed by stop: each scheduled departure, in order, takes    *)
(* the nearest one of its route; the others are announced on their own.    *)
(***************************************************************************)
Reaches(dep, a) ==
    /\ a.route = Absent \/ dep.route = Absent \/ a.route = dep.route
    /\ (a.eta - dep.sched) \in -PairWithin .. PairWithin
Gap(dep, a) == IF a.eta < dep.sched THEN dep.sched - a.eta ELSE a.eta - dep.sched

NearestOf(dep, unused) ==
    LET near == {i \in DOMAIN unused : Reaches(dep, unused[i])}
    IN  IF near = {} THEN 0
        ELSE CHOOSE i \in near : \A j \in near : \/ Gap(dep, unused[i]) < Gap(dep, unused[j])
                                                 \/ Gap(dep, unused[i]) = Gap(dep, unused[j]) /\ i <= j

Predicted(dep, eta) == [dep EXCEPT !.eta = eta, !.realtime = TRUE, !.source = "stop"]
Unplanned(a) == [route |-> a.route, sign |-> Absent, trip |-> Absent, sched |-> None, eta |-> a.eta,
                 realtime |-> TRUE, source |-> "stop"]

\* Mutant: a prediction that was paired may be paired again.
PairKeeping(acc, dep) ==
    LET i == IF dep.eta # None THEN 0 ELSE NearestOf(dep, acc.unused)
    IN  [acc EXCEPT !.deps = Append(@, IF i = 0 THEN dep ELSE Predicted(dep, acc.unused[i].eta))]

Pair(acc, dep) ==
    LET i == IF dep.eta # None THEN 0 ELSE NearestOf(dep, acc.unused)
    IN  IF i = 0 THEN [acc EXCEPT !.deps = Append(@, dep)]
        ELSE [deps |-> Append(acc.deps, Predicted(dep, acc.unused[i].eta)), unused |-> RemoveAt(acc.unused, i)]

Paired(deps, arrivals, now) ==
    FoldLeft(Pair, [deps |-> <<>>, unused |-> Sorted(SelectSeq(arrivals, LAMBDA a : a.eta >= now - Stale),
                                                     LAMBDA a : a.eta)], deps)
ApplyStopPredictions(deps, arrivals, now) ==
    LET paired == Paired(deps, arrivals, now)
    IN  paired.deps \o [i \in DOMAIN paired.unused |-> Unplanned(paired.unused[i])]

When(dep) == IF dep.eta # None THEN dep.eta ELSE dep.sched

\* A station's platforms share trips: the first of each is kept.
MergeDepartures(deps) ==
    FoldLeft(LAMBDA acc, d : IF d.trip # Absent /\ \E i \in DOMAIN acc : acc[i].trip = d.trip
                             THEN acc ELSE Append(acc, d), <<>>, Sorted(deps, When))

Departures(deps, arrivals, now, limit) ==
    Firsts(MergeDepartures(ApplyStopPredictions(deps, arrivals, now)), limit)

(***************************************************************************)
(* The board: rows by route and headsign; what no timetable describes is   *)
(* left out, and routes with nothing coming are appended.                  *)
(***************************************************************************)
BoardSource(dep) ==
    IF ~dep.realtime THEN "scheduled"
    ELSE IF dep.source = "trip" /\ dep.matched # "schedule" THEN "live" ELSE "estimated"

Announced(dep) == [trip |-> dep.trip, time |-> When(dep), source |-> BoardSource(dep)]
RowKey(dep) == <<dep.route, dep.sign>>
\* Rows by their first departure; ties, which the code settles by the route's
\* name, keep their order.
GroupBoard(deps, perRoute) ==
    LET keys == FoldLeft(LAMBDA acc, d : IF Contains(acc, RowKey(d)) THEN acc ELSE Append(acc, RowKey(d)),
                         <<>>, deps)
        Shown(key) == Firsts(SelectSeq(deps, LAMBDA d : RowKey(d) = key), perRoute)
        rows == [i \in DOMAIN keys |->
                   [route |-> keys[i][1], sign |-> keys[i][2],
                    next |-> [j \in DOMAIN Shown(keys[i]) |-> Announced(Shown(keys[i])[j])]]]
    IN  Sorted(rows, LAMBDA row : row.next[1].time)

BoardRows(deps, arrivals, serving, now, perRoute) ==
    LET described == SelectSeq(ApplyStopPredictions(deps, arrivals, now), LAMBDA d : d.sched # None)
        rows == GroupBoard(MergeDepartures(described), perRoute)
        idle == SelectSeq(serving, LAMBDA r : \A i \in DOMAIN rows : rows[i].route # r)
    IN  rows \o [i \in DOMAIN idle |-> [route |-> idle[i], sign |-> Absent, next |-> <<>>]]

(***************************************************************************)
(* The next buses of a route: those upstream of the stop, then departures  *)
(* of trips no such bus runs.  A pattern is its stops; a bus is where the  *)
(* feed's stop id says, or else where its position does.                   *)
(***************************************************************************)
Calls(pattern, stops) == {i \in DOMAIN pattern : pattern[i] \in stops}

\* <<pattern, index of the stop it is at or next to>>, or <<>>.
LocateVehicle(v, patterns) ==
    LET named == {k \in DOMAIN patterns : Calls(patterns[k], {v.stop}) # {}}
    IN  IF named # {} THEN <<Min(named), Min(Calls(patterns[Min(named)], {v.stop}))>> ELSE v.near

\* None: the bus is nowhere, or past the first of the stops on its pattern.
StopsAway(v, patterns, target) ==
    LET place == LocateVehicle(v, patterns)
        calls == IF place = <<>> THEN {} ELSE Calls(patterns[place[1]], target)
    IN  IF calls = {} \/ Min(calls \cup {place[2]}) < place[2] THEN None ELSE Min(calls) - place[2]

VehicleRow(v, away, deps, now) ==
    LET timed == SelectSeq(deps, LAMBDA d : d.trip # Absent /\ d.trip = v.trip /\ d.realtime /\ d.eta # None)
    IN  [vehicle |-> v.id, trip |-> v.trip, away |-> away,
         time |-> IF timed = <<>> THEN now + away * Hop ELSE timed[Len(timed)].eta,
         source |-> IF timed = <<>> THEN "estimated" ELSE "live"]

DepartureRow(d) == [vehicle |-> Absent, trip |-> d.trip, away |-> None, time |-> When(d),
                    source |-> IF d.realtime THEN "live" ELSE "scheduled"]

NextRows(vehicles, patterns, target, deps, now, limit) ==
    LET coming  == SelectSeq(vehicles, LAMBDA v : StopsAway(v, patterns, target) # None)
        buses   == [i \in DOMAIN coming |-> VehicleRow(coming[i], StopsAway(coming[i], patterns, target), deps, now)]
        covered == {coming[i].trip : i \in DOMAIN coming}
        others  == SelectSeq(deps, LAMBDA d : d.trip = Absent \/ d.trip \notin covered)
        room    == IF Len(buses) < limit THEN limit - Len(buses) ELSE 0
        fill    == Firsts(others, room)
    IN  Firsts(Sorted(buses \o [i \in DOMAIN fill |-> DepartureRow(fill[i])], LAMBDA r : r.time), limit)

\* next_buses asks its rows only where some pattern of the route calls.
NextBuses(vehicles, patterns, target, route, deps, now, limit) ==
    IF \A k \in DOMAIN patterns : Calls(patterns[k], target) = {} THEN <<>>
    ELSE NextRows(vehicles, patterns, target, SelectSeq(MergeDepartures(deps), LAMBDA d : d.route = route),
                  now, limit)

(***************************************************************************)
(* The watch: the stops asked for, in order, then the nearest ones up to   *)
(* the number aimed at.  deps maps the stops that can be read to theirs.   *)
(***************************************************************************)
MaxStops == 6
MaxRoutesPerStop == 3

CompactRows(deps, only, perRoute) ==
    LET kept   == SelectSeq(deps, LAMBDA d : d.route # Absent /\ (only = {} \/ d.route \in only))
        routes == FoldLeft(LAMBDA acc, d : IF Contains(acc, d.route) THEN acc ELSE Append(acc, d.route), <<>>, kept)
        rows   == [i \in DOMAIN routes |->
                     [route |-> routes[i],
                      next |-> Firsts(SelectSeq(kept, LAMBDA d : d.route = routes[i]), perRoute)]]
    IN  Firsts(Sorted(rows, LAMBDA r : When(r.next[1])), MaxRoutesPerStop)

WatchStops(favourites, near, limit) ==
    LET fav  == Firsts(favourites, MaxStops)
        more == SelectSeq(Firsts(near, 2 * limit), LAMBDA s : ~Contains(fav, s))
    IN  Firsts(fav \o Firsts(more, IF Len(fav) < limit THEN limit - Len(fav) ELSE 0), MaxStops)

WatchSummary(favourites, near, limit, deps, only, perRoute) ==
    LET wanted == SelectSeq(WatchStops(favourites, near, limit), LAMBDA s : s \in DOMAIN deps)
        items  == [i \in DOMAIN wanted |->
                     [stop |-> wanted[i], rows |-> CompactRows(MergeDepartures(deps[wanted[i]]), only, perRoute)]]
    IN  SelectSeq(items, LAMBDA it : it.rows # <<>> \/ Contains(Firsts(favourites, MaxStops), it.stop))
=============================================================================
