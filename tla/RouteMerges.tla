----------------------------- MODULE RouteMerges -----------------------------
(***************************************************************************)
(* One commercial route published as many: the services that replace a leg *)
(* (segments.py), the route list (route_merge.py), the shapes of the       *)
(* network (network_dedupe.py) and the published timetable (schedule.py).  *)
(***************************************************************************)
EXTENDS Integers, FiniteSetsExt, SequencesExt

Unnamed == ""
Firstly(s, Is(_)) == LET hits == {i \in DOMAIN s : Is(s[i])} IN IF hits = {} THEN 0 ELSE Min(hits)
\* The keys of s in the order they come first, and the elements of each.
Keyed(s, Key(_)) ==
    FoldLeft(LAMBDA acc, x : IF Contains(acc, Key(x)) THEN acc ELSE Append(acc, Key(x)), <<>>, s)
Groups(s, Key(_)) == LET keys == Keyed(s, Key)
                     IN  [i \in DOMAIN keys |-> SelectSeq(s, LAMBDA x : Key(x) = keys[i])]
\* Equal elements keep their order.
Ordered(s, Less(_, _)) ==
    LET order == SortSeq([i \in DOMAIN s |-> i],
                         LAMBDA i, j : Less(s[i], s[j]) \/ (~Less(s[j], s[i]) /\ i < j))
    IN  [i \in DOMAIN s |-> s[order[i]]]

(***************************************************************************)
(* Equivalent services of a segment: a pattern that calls at an origin and *)
(* after it at a destination, the quickest per route and platform.         *)
(***************************************************************************)
StopFamily(rows, seed) ==
    LET seeds   == {r \in rows : r.id = seed}
        parents == {r.parent : r \in seeds} \ {Unnamed}
    IN  IF seeds = {} THEN {seed}
        ELSE {seed} \cup parents \cup {r.id : r \in {r \in rows : r.parent \in parents \cup {seed}}}

\* Mutant: the stop of the destination is looked for anywhere on the pattern.
AlightAnywhere(pattern, board, destinations) ==
    LET offs == {j \in DOMAIN pattern.stops : pattern.stops[j] \in destinations /\ j # board}
    IN  IF offs = {} THEN 0 ELSE Max(offs \cup {board})

Alight(pattern, board, destinations) ==
    LET offs == {j \in DOMAIN pattern.stops : j > board /\ pattern.stops[j] \in destinations}
    IN  IF offs = {} THEN 0 ELSE Min(offs)

\* <<>>, or what boarding this pattern is.
Services(pattern, origins, destinations) ==
    LET board == Firstly(pattern.stops, LAMBDA s : s \in origins)
        off   == IF board = 0 THEN 0 ELSE Alight(pattern, board, destinations)
    IN  IF off = 0 THEN <<>>
        ELSE <<[id |-> pattern.route, name |-> pattern.name, today |-> pattern.today,
                board |-> pattern.stops[board], off |-> pattern.stops[off], stops |-> off - board]>>

FewestStops(group) == group[Firstly(group, LAMBDA x : \A i \in DOMAIN group : x.stops <= group[i].stops)]
RunningToday(services) == SelectSeq(services, LAMBDA s : s.today # "no")
DropDetours(services) ==
    LET least == Min({services[i].stops : i \in DOMAIN services})
    IN  SelectSeq(services, LAMBDA s : 2 * s.stops <= 5 * least \/ s.stops <= least + 3)

Instruction(s) == <<IF s.name = Unnamed THEN s.id ELSE s.name, s.board, s.off>>
DedupePerPlatform(services) ==
    LET groups == Groups(services, Instruction)
    IN  [i \in DOMAIN groups |-> [head |-> groups[i][1],
                                  merged |-> [j \in DOMAIN Tail(groups[i]) |-> Tail(groups[i])[j].id]]]

EquivalentServices(patterns, origins, destinations, exclude) ==
    LET named == SelectSeq(patterns, LAMBDA p : p.route \notin exclude)
        found == FlattenSeq([i \in DOMAIN named |-> Services(named[i], origins, destinations)])
        each  == Groups(found, LAMBDA s : <<s.id, s.board>>)
        best  == [i \in DOMAIN each |-> FewestStops(each[i])]
    IN  DedupePerPlatform(IF RunningToday(best) = <<>> THEN <<>> ELSE DropDetours(RunningToday(best)))

(***************************************************************************)
(* The route list: one row per distinct route, under its lowest id.        *)
(***************************************************************************)
RouteKey(r) == <<r.component, r.short, r.long, r.mode>>
MergeDuplicateRoutes(routes) ==
    LET named   == SelectSeq(routes, LAMBDA r : r.short # Unnamed \/ r.long # Unnamed)
        unnamed == SelectSeq(routes, LAMBDA r : r.short = Unnamed /\ r.long = Unnamed)
        groups  == Groups(named, RouteKey)
        sorted  == [i \in DOMAIN groups |-> Ordered(groups[i], LAMBDA a, b : a.id < b.id)]
        Row(rows) == [id |-> rows[1].id, key |-> RouteKey(rows[1]),
                      merged |-> [j \in DOMAIN Tail(rows) |-> Tail(rows)[j].id]]
    IN  [i \in DOMAIN sorted |-> Row(sorted[i])] \o [i \in DOMAIN unnamed |-> Row(<<unnamed[i]>>)]

(***************************************************************************)
(* The shapes of one group.  A shape is the set of points it is simplified *)
(* to; its encoding tells twins.  The longest goes first; one of which     *)
(* nine tenths are covered by the shapes kept is stood for.                *)
(***************************************************************************)
Covered(shape, kept) == Cardinality(shape.points \cap UNION {k.points : k \in kept})
Mostly(shape, kept)  == 10 * Covered(shape, kept) >= 9 * Cardinality(shape.points)

BestCover(shape, kept) ==
    kept[Firstly(kept, LAMBDA k : \A i \in DOMAIN kept : Covered(shape, {kept[i]}) <= Covered(shape, {k}))]

PlaceShape(acc, shape) ==
    LET twins == SelectSeq(acc.kept, LAMBDA k : k.code = shape.code)
        By(id) == [acc EXCEPT !.standIn = Append(@, <<shape.id, id>>)]
    IN  IF twins # <<>> THEN By(twins[1].id)
        ELSE IF acc.kept # <<>> /\ Mostly(shape, Range(acc.kept)) THEN By(BestCover(shape, acc.kept).id)
        ELSE [acc EXCEPT !.kept = Append(@, shape)]

DedupeShapes(shapes) ==
    FoldLeft(PlaceShape, [kept |-> <<>>, standIn |-> <<>>],
             Ordered(shapes, LAMBDA a, b : a.length > b.length \/ (a.length = b.length /\ a.id < b.id)))

(***************************************************************************)
(* The timetable of a direction: departures in minutes.                    *)
(***************************************************************************)
DayHours == 24
FrequentHeadway == 12
DoubledMedian(s) == LET m == Ordered(s, LAMBDA a, b : a < b)
                    IN  m[(Len(m) + 1) \div 2] + m[Len(m) \div 2 + 1]
\* Python's round of half of n: to the even number.
RoundedHalf(n) == IF n % 4 = 3 THEN (n + 1) \div 2 ELSE n \div 2
Typical(gaps) == RoundedHalf(DoubledMedian(gaps))

HourOf(minute, hour) == (minute \div hour) % DayHours
GapsIn(deps, which) ==
    LET at == SelectSeq([i \in 1 .. Len(deps) - 1 |-> i], LAMBDA i : deps[i] \in which)
    IN  [k \in DOMAIN at |-> deps[at[k] + 1] - deps[at[k]]]

Band(deps, h, hour) ==
    LET gaps == GapsIn(deps, {d \in Range(deps) : HourOf(d, hour) = h})
    IN  [hour |-> h, trips |-> Len(SelectSeq(deps, LAMBDA d : HourOf(d, hour) = h)),
         headway |-> IF gaps = <<>> THEN <<>> ELSE <<Min(Range(gaps)), Typical(gaps), Max(Range(gaps))>>]

ScheduleSummary(departures, hour) ==
    LET deps == Ordered(departures, LAMBDA a, b : a < b)
        gaps == GapsIn(deps, Range(deps))
        typical == IF gaps = <<>> THEN <<>> ELSE <<Typical(gaps)>>
    IN  [trips |-> Len(deps), ends |-> IF deps = <<>> THEN <<>> ELSE <<deps[1], deps[Len(deps)]>>,
         typical |-> typical, frequent |-> typical # <<>> /\ typical[1] <= FrequentHeadway,
         bands |-> {Band(deps, h, hour) : h \in {HourOf(deps[i], hour) : i \in DOMAIN deps}}]

\* The variants of the direction asked for, or of the longest variant's; longest first.
DirectionGroup(patterns, wanted) ==
    LET groups == Groups(patterns, LAMBDA p : <<p.direction, p.sign>>)
        Longest(g) == Max({Len(g[i].stops) : i \in DOMAIN g})
        chosen == IF wanted # Unnamed THEN Firstly(groups, LAMBDA g : \E i \in DOMAIN g : g[i].code = wanted)
                  ELSE Firstly(groups, LAMBDA g : \A i \in DOMAIN groups : Longest(groups[i]) <= Longest(g))
    IN  IF patterns = <<>> \/ chosen = 0 THEN <<>>
        ELSE Ordered(groups[chosen], LAMBDA a, b : Len(a.stops) > Len(b.stops))
=============================================================================
