----------------------------- MODULE JourneyPlan -----------------------------
(***************************************************************************)
(* GET /plan: which searches one request sends to the router               *)
(* (parse_modes, resolve_rental_modes, build_variables), and how what they *)
(* find becomes one list: merge_plans, merge_ondemand, attach_park_ride,   *)
(* merge_park_ride, merge_direct, apply_walk_limit and attach_to_plan, in  *)
(* the order of the handler.                                               *)
(*                                                                         *)
(* An itinerary is its legs, its times in minutes, what it walks and the   *)
(* search that produced it.  A leg's `ride` stands for its route and its   *)
(* two stops.  `of` tells the objects apart, as Python's `is` does.        *)
(***************************************************************************)
EXTENDS Integers, FiniteSetsExt, SequencesExt, Lists

CONSTANTS
    Asks,          \* the requests, with what the city's configuration allows
    Found(_),      \* the lists of itineraries the router may answer a search with
    LegRides,      \* the rides of its legs
    CityModes,     \* the city's transit modes, in order
    MaxFeeder,     \* on_demand_policy.max_feeder_km
    MaxDrive,      \* park_ride.max_drive_km
    MaxParkWalk,   \* park_ride.max_walk_meters
    MaxWalk,       \* the request's maxWalkDistance
    Rush,          \* the minute from which rides take longer ...
    RushPct        \* ... and by how much, in percent

ASSUME BoundsAssumption == {MaxFeeder, MaxDrive, MaxParkWalk, MaxWalk, Rush} \subseteq Nat
                           /\ RushPct \in Nat

VARIABLES
    asked,     \* the request
    searches,  \* the queries sent to the router, in order
    parts,     \* where the searches for rides, for parking and for the other modes begin
    found,     \* what each of them found
    answer,    \* the itineraries and the warnings of the response
    stage      \* asked, searched, answered or refused
journey == <<asked, searches, parts, found, answer, stage>>

Street  == {"WALK", "BICYCLE", "CAR", "SCOOTER"}
Rentals == {"BICYCLE_RENTAL", "SCOOTER_RENTAL"}
Transit == {"BUS", "RAIL", "TRAM"}
RentalOf(token) == IF token = "BIKE_RENTAL" THEN "BICYCLE_RENTAL" ELSE token

Or(s, default) == IF s = <<>> THEN default ELSE s

(***************************************************************************)
(* What the request asks for.  The token ONDEMAND is taken out first.      *)
(***************************************************************************)
AnyTokens(q) == Where(q.modes, LAMBDA t : t # "ONDEMAND")
OnDemand(q)  == (q.onDemand \/ "ONDEMAND" \in Range(q.modes)) /\ q.rides

KnownMode(t) == t \in {"TRANSIT", "BIKE_RENTAL"} \cup Transit \cup Street \cup Rentals

TransitModes(q) ==
    LET named == FlattenSeq([i \in DOMAIN AnyTokens(q) |->
                                IF AnyTokens(q)[i] = "TRANSIT" THEN CityModes
                                ELSE Where(<<AnyTokens(q)[i]>>, LAMBDA t : t \in Transit)])
    IN  IF AnyTokens(q) = <<>> THEN CityModes ELSE OnceBy(named, named)

StreetModes(q) ==
    LET named == Where([i \in DOMAIN AnyTokens(q) |-> RentalOf(AnyTokens(q)[i])],
                       LAMBDA m : m \in Street \cup Rentals)
    IN  Or(OnceBy(named, named), <<"WALK">>)

\* "no" when the networks of that family all have nothing, or there is no
\* such network among those that are; "unknown" before any status is loaded.
Availability(q, mode) ==
    LET verdicts == {n.has : n \in {m \in q.networks : mode \in m.modes}}
    IN  IF verdicts = {} THEN (IF q.networks = {} THEN "unknown" ELSE "no")
        ELSE IF "yes" \in verdicts THEN "yes"
        ELSE IF verdicts = {"no"} THEN "no" ELSE "unknown"

Unserved(q, mode) == mode \in Rentals /\ Availability(q, mode) = "no"
Served(q) == Or(Where(StreetModes(q), LAMBDA m : ~Unserved(q, m)), <<"WALK">>)

\* ApiError: an unknown mode, or a shared vehicle where the city has none.
Refused(q) == \/ \E t \in Range(AnyTokens(q)) : ~KnownMode(t)
              \/ ~q.bikeShare /\ \E m \in Range(StreetModes(q)) : m \in Rentals

(***************************************************************************)
(* The searches: the first one, a companion and a biased one per rental    *)
(* mode, the taxi's, the car park's, and one per further mode of one's own.*)
(* The router takes one rental mode and one plain street mode per query.   *)
(***************************************************************************)
Shared(q) == Where(Served(q), LAMBDA m : m \in Rentals)
Plain(q)  == Or(Where(Served(q), LAMBDA m : m \notin Rentals), <<"WALK">>)
Base(q)   == IF TransitModes(q) # <<>> \/ "WALK" \in Range(Plain(q)) THEN "WALK" ELSE Plain(q)[1]
Extra(q)  == Where(Plain(q), LAMBDA m : m # Base(q))

Query(kind, transit, street, first) ==
    [kind |-> kind, transit |-> transit, street |-> street, first |-> first]
QueryPer(kind, transit, modes, with, first) ==
    [i \in DOMAIN modes |-> Query(kind, transit, with \o <<modes[i]>>, first)]

BaseSearches(q) ==
    LET transit == TransitModes(q) # <<>>
        later   == IF transit THEN Shared(q) ELSE SubSeq(Shared(q), 2, Len(Shared(q)))
        biased  == IF transit THEN Shared(q) ELSE <<>>
    IN  <<Query("primary", transit, <<Base(q)>> \o (IF transit THEN <<>> ELSE FirstOf(Shared(q), 1)), q.num)>>
            \o QueryPer("companion", transit, later, <<"WALK">>, q.num)
            \o QueryPer("companion", transit, biased, <<"WALK">>, Max({6, q.num + 4}))

Feeds(q) == q.firstLastMile /\ TransitModes(q) # <<>>
DropOff(q) == Query("dropoff", TRUE, <<Base(q)>>, Max({4, q.num}))
RideSearches(q) ==
    IF ~OnDemand(q) THEN <<>>
    ELSE (IF q.near THEN <<Query("ride", FALSE, <<"CAR">>, 1)>> ELSE <<>>)
         \o (IF Feeds(q) THEN <<DropOff(q), [DropOff(q) EXCEPT !.kind = "pickup"]>> ELSE <<>>)

ParkRide(q) == q.parkRide /\ q.parking /\ TransitModes(q) # <<>>
\* The taxi's search for combos serves the car park too.
SharesDropOff(q) == OnDemand(q) /\ q.firstLastMile
OwnDropOff(q) == ParkRide(q) /\ ~SharesDropOff(q)
ParkSearches(q) == IF OwnDropOff(q) THEN <<DropOff(q)>> ELSE <<>>

DirectSearches(q) == QueryPer("direct", FALSE, Extra(q), <<>>, 1)
SearchesOf(q) == BaseSearches(q) \o RideSearches(q) \o ParkSearches(q) \o DirectSearches(q)

\* The handler's od_start, pr_index and direct_start, counted from one.
RidesFrom(q) == Len(BaseSearches(q)) + 1
\* The mutated form forgets that the drop-off search may not be made.
ParkAtLast(q) == RidesFrom(q) + 1
ParkAt(q) == IF SharesDropOff(q) THEN RidesFrom(q) + (IF q.near THEN 1 ELSE 0)
                 ELSE Len(BaseSearches(q) \o RideSearches(q)) + 1
DirectFrom(q) == Len(BaseSearches(q) \o RideSearches(q) \o ParkSearches(q)) + 1
PartsOf(q) == [rides |-> RidesFrom(q), park |-> ParkAt(q), direct |-> DirectFrom(q)]

BasePlans   == SubSeq(found, 1, parts.rides - 1)
RidePlans   == LET upto == SubSeq(found, parts.rides, parts.direct - 1)
               IN  IF OwnDropOff(asked) THEN RemoveAt(upto, parts.park - parts.rides + 1) ELSE upto
DirectPlans == SubSeq(found, parts.direct, Len(found))

(***************************************************************************)
(* Itineraries.                                                            *)
(***************************************************************************)
Leg(mode, ride, from, to, metres) ==
    [mode |-> mode, ride |-> ride, start |-> from, end |-> to, duration |-> to - from,
     metres |-> metres, transit |-> mode \in Transit, rental |-> mode \in Rentals, parkRide |-> FALSE]

Itinerary(legs, walk) ==
    [legs |-> legs, walk |-> walk, start |-> legs[1].start, end |-> legs[Len(legs)].end,
     duration |-> legs[Len(legs)].end - legs[1].start, source |-> "primary", of |-> <<>>]

Signature(it) == [i \in DOMAIN it.legs |-> <<it.legs[i].mode, it.legs[i].ride, it.legs[i].start>>]
Shape(it)     == [i \in DOMAIN it.legs |-> <<it.legs[i].mode, it.legs[i].ride>>]

Rides(it)    == \E i \in DOMAIN it.legs : it.legs[i].transit
Rented(it)   == \E i \in DOMAIN it.legs : it.legs[i].rental
Driven(it)   == \E i \in DOMAIN it.legs : it.legs[i].mode = "CAR"
IsOnDemand(leg) == leg.mode = "CAR" /\ ~leg.parkRide

Ranked(its)   == SortedBy(its, [i \in DOMAIN its |-> <<its[i].end, its[i].duration>>])
Shortest(its) == SortedBy(its, [i \in DOMAIN its |-> <<its[i].duration, 0>>])

From(source, its) == [i \in DOMAIN its |-> [its[i] EXCEPT !.source = source]]

\* Those whose signature is neither in `seen` nor met before.
Unseen(its, seen) ==
    LET fresh == Where(its, LAMBDA it : Signature(it) \notin seen)
    IN  OnceBy(fresh, [i \in DOMAIN fresh |-> Signature(fresh[i])])

\* The earliest-arriving row of the first search without rental or car, if any.
PlainTransit(it) == it.source = "primary" /\ Rides(it) /\ ~Rented(it) /\ ~Driven(it)
BestPlainTransit(its) == FirstOf(Ranked(Where(its, PlainTransit)), 1)

(***************************************************************************)
(* The merges.  Each makes room by dropping the last of the rows it may    *)
(* drop, and gives up on what still does not fit.                          *)
(***************************************************************************)
MakeRoom(its, cap, droppable) ==
    Picked(its, {i \in DOMAIN its :
                    i \in droppable => Cardinality({j \in droppable : j >= i}) > Len(its) - cap + 1})

PlainRow(it) == it.source = "primary" /\ ~Rented(it)
\* droppable_index: not the first row, nor the one to keep; the mutated form keeps none.
DroppableLast(its, keep) == {i \in 2..Len(its) : PlainRow(its[i])}
Droppable(its, keep) == {i \in 2..Len(its) : PlainRow(its[i]) /\ its[i] \notin keep}

Fit(its, pick, cap, droppable) ==
    LET room == MakeRoom(its, cap, droppable)
    IN  IF Len(room) >= cap THEN room ELSE Append(room, pick)

MinRental == 2
RentalCount(its) == Cardinality({i \in DOMAIN its : Rented(its[i])})

\* Once two rentals are in, one more does not displace anything.
AddRental(its, pick, cap) ==
    IF RentalCount(its) >= MinRental /\ Len(its) >= cap THEN its
    ELSE Fit(its, pick, cap, {i \in DOMAIN its : PlainRow(its[i])})

RentalPicks(plans, first) ==
    From("rental", Unseen(Where(FlattenSeq(Tail(plans)), Rented), {Signature(it) : it \in Range(first)}))

MergePlans(plans, num) ==
    LET first == Unseen(FirstOf(plans[1], num), {})
        picks == Shortest(RentalPicks(plans, first))
        upto[i \in 0 .. Len(picks)] ==
            IF i = 0 THEN first ELSE AddRental(upto[i - 1], picks[i], num + 2)
    IN  IF Len(plans) = 1 THEN plans[1] ELSE Ranked(upto[Len(picks)])

\* New to the list, and no other departure of a combination already seen.
NewRides(its, plans) ==
    LET sorted == FlattenSeq([i \in DOMAIN plans |-> Shortest(plans[i])])
        known  == {Signature(it) : it \in Range(its)}
        rides  == Where(sorted, LAMBDA it : /\ \E i \in DOMAIN it.legs : IsOnDemand(it.legs[i])
                                            /\ Signature(it) \notin known)
    IN  From("ondemand", OnceBy(rides, [i \in DOMAIN rides |-> Shape(rides[i])]))

ShortFeeders(it) == \A i \in DOMAIN it.legs : IsOnDemand(it.legs[i]) => it.legs[i].metres <= MaxFeeder

RidePicks(its, plans, whenSlower) ==
    LET transit == Where(its, Rides)
        Worth(it) == whenSlower \/ transit = <<>> \/ it.duration <= transit[1].duration
        new     == Shortest(Where(NewRides(its, plans), Worth))
        direct  == Where(new, LAMBDA it : ~Rides(it))
        combos  == Where(new, LAMBDA it : Rides(it) /\ ShortFeeders(it))
    IN  FirstOf(direct, 1) \o FirstOf(combos, 2)

MergePicks(its, picks, num) ==
    LET keep == Range(BestPlainTransit(its))
        upto[i \in 0 .. Len(picks)] ==
            IF i = 0 THEN its ELSE Fit(upto[i - 1], picks[i], num + 3, Droppable(upto[i - 1], keep))
    IN  Ranked(upto[Len(picks)])

MergeOnDemand(its, plans, q) ==
    IF plans = <<>> THEN its ELSE MergePicks(its, RidePicks(its, plans, q.showSlower), q.num)

\* find_parking: the nearest zone a car may stop in, that is not known to be full.
Suits(zone) == zone.allowed /\ zone.metres <= MaxParkWalk /\ zone.spaces # 0
Nearest(zones) ==
    LET suited == Where(zones, Suits)
    IN  FirstOf(SortedBy(suited, [i \in DOMAIN suited |-> <<suited[i].metres, 0>>]), 1)

Shift(legs, which, minutes) ==
    [i \in DOMAIN legs |-> IF i \in which
                           THEN [legs[i] EXCEPT !.start = @ + minutes, !.end = @ + minutes] ELSE legs[i]]

FirstCar(it) == {i \in DOMAIN it.legs : /\ it.legs[i].mode = "CAR"
                                        /\ \A j \in 1..(i - 1) : it.legs[j].mode # "CAR"}
Feeding(it, i) == \E j \in (i + 1)..Len(it.legs) : it.legs[j].transit

\* One drop-off rewritten: the car ends at the zone, a walk leads to the stop,
\* and a longer walk makes everything before it start earlier.
Parked(it, i, zone) ==
    LET walked == it.legs[i + 1].mode = "WALK"
        old    == IF walked THEN it.legs[i + 1] ELSE [it.legs[i] EXCEPT !.duration = 0]
        sooner == IF zone.walk > old.duration THEN zone.walk - old.duration ELSE 0
        walk   == Leg("WALK", "parking", old.end - zone.walk, old.end, zone.walk)
        before == Shift(it.legs, 1..(i - 1), -sooner)
        car    == [it.legs[i] EXCEPT !.parkRide = TRUE, !.start = @ - sooner, !.end = walk.start]
    IN  [it EXCEPT !.legs = SubSeq(before, 1, i - 1) \o <<car, walk>>
                                \o SubSeq(it.legs, IF walked THEN i + 2 ELSE i + 1, Len(it.legs)),
                   !.start = @ - sooner, !.duration = @ + sooner, !.source = "parkride",
                   !.walk = @ - old.duration + zone.walk]

AttachParkRide(its, zones) ==
    LET Suited(it) == /\ Nearest(zones) # <<>>
                      /\ \E i \in FirstCar(it) : Feeding(it, i) /\ it.legs[i].metres <= MaxDrive
        suited == Where(its, Suited)
    IN  [k \in DOMAIN suited |-> Parked(suited[k], CHOOSE i \in FirstCar(suited[k]) : TRUE, Nearest(zones)[1])]

MergeParkRide(its, park, num) == MergePicks(its, FirstOf(Shortest(park), 2), num)

\* The shortest of each search that is not there already: it is added anyway.
NewDirect(plan, its) ==
    FirstOf(Where(Shortest(plan), LAMBDA it : Signature(it) \notin {Signature(x) : x \in Range(its)}), 1)
DirectPicks(its, plans) ==
    LET upto[i \in 0 .. Len(plans)] ==
            IF i = 0 THEN <<>> ELSE upto[i - 1] \o NewDirect(plans[i], its \o upto[i - 1])
    IN  upto[Len(plans)]

AddDirect(its, pick, cap, keep) ==
    Append(MakeRoom(its, cap, {i \in 2..Len(its) : its[i].source = "primary" /\ its[i] \notin keep}), pick)

MergeDirect(its, plans, num) ==
    LET keep  == Range(BestPlainTransit(its))
        picks == DirectPicks(its, plans)
        upto[i \in 0 .. Len(picks)] ==
            IF i = 0 THEN its ELSE AddDirect(upto[i - 1], picks[i], num + Len(plans), keep)
    IN  IF plans = <<>> THEN its ELSE Ranked(upto[Len(picks)])

WithinWalk(it) == it.walk <= MaxWalk
ApplyWalkLimit(its, q) == IF q.strictWalk THEN Where(its, WithinWalk) ELSE its

(***************************************************************************)
(* attach_to_plan: traffic makes a ride longer.  One that feeds transit    *)
(* starts earlier, with all before it; any other ends later, with all      *)
(* after it.  The list has been sorted before.                             *)
(***************************************************************************)
Factor(start) == IF start >= Rush THEN RushPct ELSE 100
Slower(leg)   == (leg.duration * Factor(leg.start) + 50) \div 100 - leg.duration

Stretched(it, i, feeds) ==
    LET leg == it.legs[i]
        by  == Slower(leg)
        moved == IF feeds THEN Shift(it.legs, 1..(i - 1), -by)
                 ELSE Shift(it.legs, (i + 1)..Len(it.legs), by)
        longer == [leg EXCEPT !.duration = @ + by, !.start = @ - (IF feeds THEN by ELSE 0),
                              !.end = @ + (IF feeds THEN 0 ELSE by)]
    IN  IF ~IsOnDemand(leg) \/ by <= 0 THEN it
        ELSE [it EXCEPT !.legs = [moved EXCEPT ![i] = longer], !.duration = @ + by,
                        !.start = @ - (IF feeds THEN by ELSE 0), !.end = @ + (IF feeds THEN 0 ELSE by)]
\* A ride that feeds a stop leaves earlier; the mutated form always arrives later.
StretchEnd(it, i) == Stretched(it, i, FALSE)
Stretch(it, i) == Stretched(it, i, Feeding(it, i))

StretchAll(it) ==
    LET upto[i \in 0 .. Len(it.legs)] == IF i = 0 THEN it ELSE Stretch(upto[i - 1], i)
    IN  upto[Len(it.legs)]
AttachToPlan(its, q) == IF OnDemand(q) THEN [k \in DOMAIN its |-> StretchAll(its[k])] ELSE its

(***************************************************************************)
(* What may be asked, and what the router may answer: timetables, of which *)
(* no car that leads to a bus or a train comes after one, and where the    *)
(* same rides at the same times end together.                              *)
(***************************************************************************)
LegOf(R) == [mode : Street \cup Rentals \cup Transit, ride : R, start : Int, end : Int, duration : Int, metres : Int,
             transit : BOOLEAN, rental : BOOLEAN, parkRide : BOOLEAN]
ItineraryOf(R, O) == [legs : Seq(LegOf(R)) \ {<<>>}, walk : Int, start : Int, end : Int, duration : Int,
                      source : {"primary", "rental", "ondemand", "parkride"}, of : O]

Timetable(it) ==
    /\ \A i \in 1..(Len(it.legs) - 1) : it.legs[i].end <= it.legs[i + 1].start
    /\ \A i \in DOMAIN it.legs : it.legs[i].duration <= it.legs[i].end - it.legs[i].start
    /\ it.start = it.legs[1].start /\ it.end = it.legs[Len(it.legs)].end
    /\ it.duration = it.end - it.start
DepartureTimes(it) == {<<it.legs[i].ride, it.legs[i].start>> : i \in {i \in DOMAIN it.legs : it.legs[i].transit}}

TaxiAtTheEnds(it) ==
    \A i, j \in DOMAIN it.legs : i <= j /\ it.legs[j].mode = "CAR" /\ Feeding(it, j) => ~it.legs[i].transit
KindsSaid(it) == \A i \in DOMAIN it.legs : /\ it.legs[i].transit <=> it.legs[i].mode \in Transit
                                           /\ it.legs[i].rental <=> it.legs[i].mode \in Rentals
EndTogether(its) == \A i, j \in DOMAIN its : Signature(its[i]) = Signature(its[j]) => its[i].end = its[j].end

RouterRows == {it \in ItineraryOf(LegRides, {<<>>}) :
                 it.source = "primary" /\ Timetable(it) /\ TaxiAtTheEnds(it) /\ KindsSaid(it)}
ASSUME AsksAssumption ==
    \A q \in Asks : /\ q.modes \in Seq(Range(q.modes)) /\ q.num \in Nat
                    /\ q.zones \in Seq([metres : Nat, spaces : Int, allowed : BOOLEAN, walk : Nat])
ASSUME RouterAssumption ==
    \A q \in Asks : \A i \in DOMAIN SearchesOf(q) : \A its \in Found(SearchesOf(q)[i]) :
        its \in Seq(RouterRows) /\ EndTogether(its)

(***************************************************************************)
(* The request.                                                            *)
(***************************************************************************)
Merged == LET q     == asked
              base  == MergePlans(BasePlans, q.num)
              rides == MergeOnDemand(base, RidePlans, q)
              park  == IF ParkRide(q) THEN AttachParkRide(found[parts.park], q.zones) ELSE <<>>
              cars  == IF ParkRide(q) THEN MergeParkRide(rides, park, q.num) ELSE rides
          IN  [its |-> MergeDirect(cars, DirectPlans, q.num), parked |-> park # <<>>]

\* NO_ITINERARIES is the first search's; it goes if another one found something.
NoItineraries(its) == /\ found[1] = <<>>
                      /\ its = <<>> \/ (Len(BasePlans \o RidePlans) = 1
                                         /\ ~ParkRide(asked) /\ DirectPlans = <<>>)

Warnings(merged, kept) ==
         {w \in {"MODE_NO_VEHICLES"} : \E m \in Range(StreetModes(asked)) : Unserved(asked, m)}
    \cup {w \in {"NO_ITINERARIES"} : NoItineraries(merged.its)}
    \cup {w \in {"PARK_RIDE_NO_PARKING"} : ParkRide(asked) /\ ~merged.parked}
    \cup {w \in {"WALK_LIMIT_FILTERED"} : Len(kept) < Len(merged.its)}

AnswersTo(queries) ==
    LET upto[i \in 0 .. Len(queries)] ==
            IF i = 0 THEN {<<>>}
            ELSE {Append(a, FirstOf(its, queries[i].first)) : a \in upto[i - 1], its \in Found(queries[i])}
    IN  upto[Len(queries)]
Told(lists) == [i \in DOMAIN lists |-> [j \in DOMAIN lists[i] |-> [lists[i][j] EXCEPT !.of = <<i, j>>]]]

NoAnswer == [its |-> <<>>, warnings |-> {}]

PlanInit == /\ asked \in Asks
            /\ searches = <<>> /\ found = <<>> /\ parts = [rides |-> 1, park |-> 1, direct |-> 1]
            /\ answer = NoAnswer
            /\ stage = "asked"

Refuse == /\ stage = "asked" /\ Refused(asked)
          /\ stage' = "refused"
          /\ UNCHANGED <<asked, searches, parts, found, answer>>

\* All the searches at once: any of them that fails fails the request.
Search == /\ stage = "asked" /\ ~Refused(asked)
          /\ searches' = SearchesOf(asked) /\ parts' = PartsOf(asked)
          /\ \/ \E lists \in AnswersTo(searches') : found' = Told(lists) /\ stage' = "searched"
             \/ found' = <<>> /\ stage' = "refused"
          /\ UNCHANGED <<asked, answer>>

Reply == /\ stage = "searched"
         /\ LET merged == Merged
                kept   == ApplyWalkLimit(merged.its, asked)
            IN  answer' = [its |-> AttachToPlan(kept, asked), warnings |-> Warnings(merged, kept)]
         /\ stage' = "answered"
         /\ UNCHANGED <<asked, searches, parts, found>>

PlanNext == Refuse \/ Search \/ Reply
PlanSpec == PlanInit /\ [][PlanNext]_journey

(***************************************************************************)
(* Properties.                                                             *)
(***************************************************************************)
Count(s, Is(_)) == Cardinality({i \in DOMAIN s : Is(s[i])})

\* However the flags combine, each merge is given the searches meant for it:
\* the taxi's merge no search made for the car park alone, the car park a
\* search that drops one off, the direct merge the direct ones.  And no query
\* names two rental modes or two plain ones, which the router refuses.
SearchesMatched ==
    stage \in {"searched", "answered"} =>
      /\ Len(found) = Len(searches)
      /\ \A i \in DOMAIN searches :
            /\ i < parts.rides => searches[i].kind \in {"primary", "companion"}
            /\ i >= parts.direct <=> searches[i].kind = "direct"
            /\ Count(searches[i].street, LAMBDA m : m \in Rentals) <= 1
            /\ Count(searches[i].street, LAMBDA m : m \notin Rentals) <= 1
      /\ ParkRide(asked) => parts.park \in DOMAIN searches /\ searches[parts.park].kind = "dropoff"
      /\ Len(RidePlans) = Count(searches, LAMBDA s : s.kind \in {"ride", "dropoff", "pickup"})
                                    - (IF OwnDropOff(asked) THEN 1 ELSE 0)
      /\ \A k \in DOMAIN RidePlans : RidePlans[k] = found[parts.rides + k - 1]

\* Whatever rentals, taxis, car parks and rides of one's own make room for
\* themselves, the earliest plain transit option of the first search is in the
\* answer ("never displaced"), unless the rider set a limit that it walks past.
BestTransitKept ==
    stage = "answered" =>
      LET first == IF Len(BasePlans) = 1 THEN found[1] ELSE FirstOf(found[1], asked.num)
      IN  \A best \in Range(BestPlainTransit(first)) :
             \/ asked.strictWalk /\ ~WithinWalk(best)
             \/ \E it \in Range(answer.its) : it.of = best.of /\ it.source = "primary"

\* The rewritten itineraries (parked cars, rides slowed by traffic) stay
\* timetables: no leg starts before the one before it ends, the itinerary spans
\* its legs, lasts as long as it spans, and a bus or a train leaves when the
\* router said: a slower ride to it starts earlier.
TimelineKept ==
    stage = "answered" =>
      \A it \in Range(answer.its) :
         Timetable(it) /\ DepartureTimes(it) = DepartureTimes(found[it.of[1]][it.of[2]])
=============================================================================
