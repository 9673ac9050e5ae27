----------------------------- MODULE MCRequests -----------------------------
(***************************************************************************)
(* One request of a rider, for TLC.                                        *)
(***************************************************************************)
EXTENDS JourneyPlan

\* A slow bus with a walk at either end, a later one at the door, a tram.
Bus   == Itinerary(<<Leg("WALK", "w1", 0, 2, 2), Leg("BUS", "r1", 2, 12, 90), Leg("WALK", "w2", 12, 15, 3)>>, 5)
Late  == Itinerary(<<Leg("BUS", "r1", 14, 20, 90)>>, 0)
Tram  == Itinerary(<<Leg("TRAM", "r2", 4, 13, 90)>>, 0)
Afoot == Itinerary(<<Leg("WALK", "w3", 0, 16, 16)>>, 16)
\* A rented bicycle to the tram, one all the way, a scooter.
ToTram == Itinerary(<<Leg("BICYCLE_RENTAL", "b1", 0, 3, 9), Leg("TRAM", "r2", 4, 13, 90)>>, 0)
Cycled == Itinerary(<<Leg("BICYCLE_RENTAL", "b2", 0, 11, 60)>>, 0)
Rolled == Itinerary(<<Leg("SCOOTER_RENTAL", "b3", 0, 10, 60)>>, 0)
\* A taxi; one to the bus, with a walk or none; one from the tram; too far a one.
Taxi    == Itinerary(<<Leg("CAR", "c1", 6, 12, 80)>>, 0)
ToBus   == Itinerary(<<Leg("WALK", "w4", 0, 1, 1), Leg("CAR", "c2", 1, 5, 20), Leg("WALK", "w5", 5, 6, 1),
                       Leg("BUS", "r1", 7, 12, 70)>>, 2)
AtBus   == Itinerary(<<Leg("CAR", "c3", 5, 7, 20), Leg("BUS", "r1", 7, 12, 70)>>, 0)
FromTram == Itinerary(<<Leg("TRAM", "r2", 4, 9, 60), Leg("CAR", "c4", 9, 13, 20), Leg("WALK", "w6", 13, 14, 1)>>, 1)
Far     == Itinerary(<<Leg("CAR", "c5", 0, 4, 70), Leg("TRAM", "r2", 4, 9, 60)>>, 0)
Bicycle == Itinerary(<<Leg("BICYCLE", "d1", 0, 9, 60)>>, 0)
Drive   == Itinerary(<<Leg("CAR", "d2", 6, 10, 60)>>, 0)

Lists(query) ==
    CASE query.kind = "primary"   -> {<<>>, <<Bus, Tram, Late>>, <<Late, Afoot, Bus>>}
      [] query.kind = "companion" -> {<<>>, <<ToTram, Cycled, Rolled>>, <<Cycled, Tram>>}
      [] query.kind = "ride"      -> {<<>>, <<Taxi>>}
      [] query.kind = "dropoff"   -> {<<ToBus, Far>>, <<AtBus, ToBus>>}
      [] query.kind = "pickup"    -> {<<>>, <<FromTram, Tram>>}
      [] OTHER                    -> {IF "CAR" \in Range(query.street) THEN <<Drive>> ELSE <<Bicycle>>}

Docked == {[modes |-> {"BICYCLE_RENTAL"}, has |-> "yes"], [modes |-> {"BICYCLE_RENTAL"}, has |-> "unknown"],
           [modes |-> {"SCOOTER_RENTAL"}, has |-> "no"]}
\* Next to the stop but full, near, and too far to walk back.
Kerbs == <<[metres |-> 1, spaces |-> 0, allowed |-> TRUE, walk |-> 1],
           [metres |-> 4, spaces |-> 3, allowed |-> TRUE, walk |-> 5],
           [metres |-> 2, spaces |-> 3, allowed |-> FALSE, walk |-> 2]>>

Usual == [modes |-> <<>>, onDemand |-> FALSE, rides |-> TRUE, near |-> TRUE, firstLastMile |-> TRUE,
        showSlower |-> TRUE, parkRide |-> FALSE, parking |-> TRUE, strictWalk |-> FALSE, num |-> 1,
        bikeShare |-> TRUE, networks |-> Docked, zones |-> Kerbs]

PlanAsks ==
         {[Usual EXCEPT !.modes = m, !.onDemand = TRUE, !.near = n, !.firstLastMile = f, !.showSlower = s,
                      !.parkRide = p, !.strictWalk = w] :
            m \in {<<>>, <<"BUS", "BICYCLE", "CAR">>}, n, f, s, p, w \in BOOLEAN}
    \cup {[Usual EXCEPT !.modes = <<"TRANSIT", "BIKE_RENTAL", "CAR">>, !.onDemand = TRUE, !.num = 3, !.parkRide = TRUE]}
    \cup {[Usual EXCEPT !.modes = m, !.num = k, !.parkRide = p, !.networks = d, !.strictWalk = w] :
            m \in {<<>>, <<"TRANSIT", "BIKE_RENTAL", "SCOOTER_RENTAL">>, <<"BICYCLE", "BIKE_RENTAL", "SCOOTER_RENTAL">>,
                   <<"TRAM", "CAR", "BICYCLE", "WALK">>, <<"SCOOTER_RENTAL", "ONDEMAND">>},
            k \in {1, 3}, p, w \in BOOLEAN, d \in {Docked, {}}}
    \cup {[Usual EXCEPT !.modes = m, !.parkRide = TRUE, !.zones = <<>>, !.rides = FALSE, !.bikeShare = FALSE] :
            m \in {<<"SPACESHIP">>, <<"BIKE_RENTAL">>, <<"TRANSIT">>}}
TwoModes == <<"BUS", "TRAM">>
RidesOf(its) == UNION {{it.legs[i].ride : i \in DOMAIN it.legs} : it \in its}
AllRides == RidesOf({Bus, Late, Tram, Afoot, ToTram, Cycled, Rolled, Taxi, ToBus, AtBus, FromTram, Far, Bicycle, Drive})

=============================================================================
