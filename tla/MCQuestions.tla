----------------------------- MODULE MCQuestions -----------------------------
(***************************************************************************)
(* Riders' questions, for TLC.                                             *)
(***************************************************************************)
EXTENDS RiderQuestions

\* Sequences of at most n elements of S.
UpTo(S, n) == UNION {[1 .. k -> S] : k \in 0 .. n}

-----------------------------------------------------------------------------
Night == [id |-> "night", optional |-> FALSE, night |-> <<20, 6>>, sundays |-> FALSE, holidays |-> TRUE,
          zones |-> {}, amount |-> 3]
Airport == [id |-> "airport", optional |-> FALSE, night |-> <<>>, sundays |-> TRUE, holidays |-> FALSE,
            zones |-> {"airport"}, amount |-> 5]
Bag == [id |-> "bag", optional |-> TRUE, night |-> <<>>, sundays |-> TRUE, holidays |-> TRUE,
        zones |-> {"airport"}, amount |-> 2]
Meter == [flagFall |-> 4, minimum |-> 8, unitPrice |-> 1, unitMetres |-> 3, unitSeconds |-> 4, waitingPct |-> 50,
          rounding |-> 2, bandPct |-> 15, surcharges |-> <<Night, Airport, Bag>>, zones |-> [airport |-> {"gate"}]]
Meters == [street |-> Meter, dear |-> [Meter EXCEPT !.unitPrice = 3, !.surcharges = <<>>]]
Apps == <<[id |-> 2, tariff |-> "dear", enabled |-> TRUE, order |-> 1],
          [id |-> 1, tariff |-> "street", enabled |-> TRUE, order |-> 1],
          [id |-> 3, tariff |-> "none", enabled |-> TRUE, order |-> 0],
          [id |-> 4, tariff |-> "street", enabled |-> FALSE, order |-> 0]>>
Ride(m, minute, wanted) == [metres |-> m, seconds |-> 2 * m, minute |-> minute, sunday |-> m % 2 = 0,
                            holiday |-> FALSE, points |-> {"gate"}, wanted |-> wanted]
Hiring(n, price) == [network |-> n, price |-> price, perMinute |-> FALSE]
Ridden(seconds, electric) ==
    [network |-> "meter", perMinute |-> TRUE,
     price |-> PerRide([unlock |-> 1, perMinute |-> 2, electric |-> 3], seconds, electric)]
Hours(unit, to, maximum) == [from |-> 0, to |-> to, unit |-> unit, rate |-> 3, maximum |-> maximum]
Park(tiers) == <<[activity |-> "loading", tiers |-> <<>>], [activity |-> "parking", tiers |-> tiers]>>
Trip == [kind |-> "fare", fares |-> <<[base |-> 4, transfer |-> 1, window |-> 3, maxTransfers |-> 2]>>, starts |-> <<>>,
         rentals |-> <<>>, configured |-> Apps, tariffs |-> Meters, ride |-> Ride(4, 12, {}), rules |-> <<>>, minutes |-> 2]

Trips ==
         {[Trip EXCEPT !.starts = SortSeq(s, <=)] : s \in UpTo({0, 1, 3, 4, 7}, 4)}
    \cup {[Trip EXCEPT !.starts = s] : s \in {<<0, 2, 3, 3, 5, 6, 7>>, <<0, 1, 1, 2, 3, 4>>}}
    \cup {[Trip EXCEPT !.rentals = r] :
            r \in UpTo({Hiring("pass", 5), Ridden(60, FALSE), Ridden(61, TRUE), Hiring("other", 0), Hiring("free", Unpriced)}, 3)}
    \cup {[Trip EXCEPT !.ride = Ride(m, t, w), !.configured = c, !.fares = <<>>] :
            m \in {1, 4, 9, 40}, t \in {5, 6, 20}, w \in {{}, {"bag"}}, c \in {Apps, <<Apps[3]>>, <<>>}}
    \cup {[Trip EXCEPT !.rules = Park(t), !.minutes = 150] :
            t \in {<<>>, <<Hours("hour", 60, Unpriced), [Hours("session", 400, Unpriced) EXCEPT !.from = 60]>>,
                   <<[Hours("minute", 90, 7) EXCEPT !.from = 30], Hours("hour", 30, Unpriced)>>}}

-----------------------------------------------------------------------------
Daily(from, to) == [starts |-> NoTime, ends |-> NoTime, dates |-> 0 .. 40, period |-> Unnamed, except |-> FALSE,
                    from |-> from, to |-> to]
Spans == {Daily(NoTime, NoTime), Daily(1, 3), Daily(3, 1), Daily(2, DayTicks), [Daily(1, 2) EXCEPT !.dates = {1, 5, 7}],
          [Daily(NoTime, NoTime) EXCEPT !.period = "holidays"],
          [Daily(NoTime, 2) EXCEPT !.period = "holidays", !.except = TRUE],
          [Daily(NoTime, NoTime) EXCEPT !.starts = 4, !.ends = 8], [Daily(1, NoTime) EXCEPT !.starts = 5, !.ends = 10]}
Rule(activity, only, never) == [activity |-> activity, only |-> only, never |-> never]
Policy(id, priority, spans, rules) == [id |-> id, priority |-> priority, spans |-> spans, rules |-> rules]
Bays == {{Rule("parking", {}, {})}, {Rule("loading", {"taxi"}, {})},
         {Rule("parking", {}, {"car"}), Rule("no stopping", {}, {})}}
MdsRule(id, kind, maximum, shapes) == [id |-> id, kind |-> kind, maximum |-> maximum, minimum |-> 1, onTrip |-> FALSE,
                                       geographies |-> shapes, spans |-> {Daily(1, 3)}]
MdsPolicies == {[id |-> "m", starts |-> 4, ends |-> 8,
                 rules |-> {MdsRule("x", "count", 0, {"g1", "g2"}), MdsRule("y", "time", 0, {"g3"})}],
                [id |-> "n", starts |-> NoTime, ends |-> NoTime, rules |-> {MdsRule("z", "speed", 3, {"g1"})}]}
Shapes3 == {[id |-> g, shape |-> g # "g3", starts |-> NoTime, ends |-> 5] : g \in {"g1", "g2", "g3"}}

Kerb(zone, class, now) == [kind |-> "kerb", zone |-> zone, class |-> class, now |-> now, mds |-> MdsPolicies,
                           geographies |-> Shapes3]
KerbsAsked ==
         {Kerb({Policy(1, 1, {s1}, b), Policy(2, 0, {s2}, {Rule("parking", {}, {})})}, c, t) :
            s1 \in Spans, s2 \in {Daily(1, 3), Daily(2, NoTime)}, b \in Bays, c \in {Anyone, "car", "taxi"}, t \in {0, 2, 5}}
    \cup {Kerb({Policy(1, 0, ss, {Rule("parking", {}, {})})}, "car", t) :
            ss \in {{}} \cup {{a, b} : a, b \in Spans}, t \in {0, 3, 7}}
    \cup {Kerb({}, "car", 4)}

-----------------------------------------------------------------------------
Run(service, first, last) == [service |-> service, first |-> first, last |-> last]
Windows == {Run("week", 2, 5), Run("week", 4, 9), Run("night", 7, 11), Run("night", 9, 10), Run("extra", 1, 6)}
Index(windows, removed) == [calendar |-> [week |-> {1, 2}, night |-> {0, 1}], services |-> {"week", "night", "extra"},
                            added |-> {<<"extra", 2>>}, removed |-> removed, windows |-> windows]
WindowsAsked == {[kind |-> "window", index |-> Index(w, r), day |-> d, time |-> t] :
                   w \in SUBSET Windows, r \in {{}, {<<"week", 1>>}}, d \in {1, 2}, t \in 0 .. DayLength - 1}

Dep(route, trip, at, eta) == [route |-> route, sign |-> "out", trip |-> trip, sched |-> at, eta |-> eta,
                              realtime |-> eta # None, source |-> IF eta = None THEN "schedule" ELSE "trip",
                              matched |-> "trip"]
Seen(route, eta) == [route |-> route, eta |-> eta]
DepLists == {<<>>, <<Dep("r1", "t1", 5, None), Dep("r1", "t2", 7, None), Dep("r2", "t3", 6, None)>>,
             <<Dep("r1", "t2", 9, 8), Dep("r1", "t1", 5, None), Dep("r1", "t1", 6, None)>>,
             <<Dep("r2", "t4", 3, None), Dep("r1", Absent, 4, None), Dep("r1", Absent, 4, None)>>}
BoardsAsked == {[kind |-> "board", deps |-> d, arrivals |-> a, serving |-> <<"r1", "r3">>, now |-> 4, limit |-> n] :
                  d \in DepLists, n \in {1, 5},
                  a \in UpTo({Seen("r1", 5), Seen("r1", 6), Seen("r2", 8), Seen(Absent, 4), Seen("r1", 1)}, 3)}

BusAt(id, trip, stop, near) == [id |-> id, trip |-> trip, stop |-> stop, near |-> near]
OnRoad == {BusAt("v1", "t1", "a", <<>>), BusAt("v2", "t2", "c", <<2, 1>>), BusAt("v3", "t9", "z", <<1, 3>>),
           BusAt("v4", "t8", "z", <<>>), BusAt("v5", "t7", "d", <<>>)}
Tracks == {<< <<"a", "b", "c">>, <<"d", "b", "a", "b">> >>, << <<"a", "c">> >>}
BusesAsked == {[kind |-> "bus", vehicles |-> SetToSeq(v), patterns |-> p, target |-> t, route |-> "r1", deps |-> d,
                now |-> 4, limit |-> n] :
                 v \in SUBSET OnRoad, p \in Tracks, t \in {{"b"}, {"c", "a"}}, d \in DepLists, n \in {1, 3}}

Readable == [s1 |-> <<Dep("r1", "t1", 5, None), Dep("r2", "t2", 4, None), Dep("r1", "t3", 9, 6)>>,
             s2 |-> <<>>, s3 |-> <<Dep("r3", "t4", 8, None)>>, s4 |-> <<>>]
WatchesAsked == {[kind |-> "watch", favourites |-> f, near |-> <<"s3", "s4", "s9", "s1">>, limit |-> n, deps |-> Readable,
                  only |-> o] :
                   f \in {<<>>, <<"s2">>, <<"s2", "s9", "s1">>, <<"s4", "s8", "s7", "s6", "s5", "s2", "s1">>},
                   n \in 1 .. 4, o \in {{}, {"r1"}}}

-----------------------------------------------------------------------------
Line3(route, name, today, stops) == [route |-> route, name |-> name, today |-> today, stops |-> stops]
Rows == {[id |-> s, parent |-> IF s \in {"a1", "a2"} THEN "A" ELSE Unnamed] : s \in {"A", "a1", "a2", "b", "c", "d"}}
Lines3 == {Line3("r1", "One", "yes", <<"a1", "c", "b">>), Line3("r2", "One", "yes", <<"a1", "b">>),
           Line3("r3", "Two", "yes", <<"b", "a2", "c", "d", "b">>), Line3("r4", Unnamed, "no", <<"a2", "b">>),
           Line3("r5", "Long", "unknown", <<"a1", "c", "d", "c", "d", "c", "d", "b">>), Line3("r6", "Two", "yes", <<"b", "c", "a2">>)}
SegmentsAsked == {[kind |-> "segment", stops |-> Rows, patterns |-> SetToSeq(p), from |-> f, to |-> t, exclude |-> x,
                   router |-> r, calls |-> [r1 |-> {"a1", "b"}, r9 |-> {"c"}]] :
                    p \in SUBSET Lines3, f \in {"a1", "A"}, t \in {"b", "zz"}, x \in {{}, {"r1"}}, r \in BOOLEAN}

Route(id, short, mode) == [id |-> id, component |-> "bus", short |-> short, long |-> short, mode |-> mode]
ListsAsked == {[kind |-> "list", routes |-> SetToSeq(r)] :
                 r \in SUBSET {Route(3, "K", "BUS"), Route(1, "K", "BUS"), Route(2, "K", "TRAM"), Route(4, Unnamed, "BUS"),
                               Route(5, Unnamed, "BUS"), Route(6, "K", "BUS")}}

Form(id, code, length, points) == [id |-> id, code |-> code, length |-> length, points |-> points]
ShapesAsked == {[kind |-> "shapes", shapes |-> SetToSeq(s)] :
                  s \in SUBSET {Form(1, "x", 9, 1 .. 12), Form(2, "y", 8, 1 .. 9 \cup {20}), Form(3, "x", 9, 1 .. 12),
                                Form(4, "z", 9, 11 .. 20), Form(5, "w", 5, 9 .. 14), Form(6, "v", 5, {1, 30})}}

Pat(code, sign, n) == [code |-> code, direction |-> 0, sign |-> sign, stops |-> [i \in 1 .. n |-> i]]
TimetablesAsked == {[kind |-> "timetable", departures |-> d, hour |-> 4, wanted |-> w,
                     patterns |-> <<Pat("p1", "out", 2), Pat("p2", "back", 4), Pat("p3", "out", 3)>>] :
                      d \in UpTo({1, 3, 6, 97}, 4), w \in {Unnamed, "p1", "p9"}}

-----------------------------------------------------------------------------
Way(depart, arrive, rides) == [depart |-> depart, arrive |-> arrive, rides |-> rides]
AskedFor == [start |-> 0, window |-> 30, maxOptions |-> 3, arriveBy |-> FALSE, wheelchair |-> FALSE, serviceEnd |-> NoInstant]
Found1 == {<<>>, <<Way(2, 9, "a"), Way(2, 9, "b")>>, <<Way(1, 12, "c"), Way(20, 25, "a")>>}
Found2 == {<<Way(20, 25, "a"), Way(12, 12, "d")>>, <<Way(11, 19, "a"), Way(25, 30, "e"), Way(2, 9, "a")>>}
Probed == {(0 :> f) @@ (10 :> g) @@ (20 :> <<Way(27, 33, "a")>>) : f \in Found1, g \in Found2}
              \cup {0 :> f : f \in Found1} \cup {<<>>}
ForecastsAsked == {[kind |-> "forecast", ask |-> [AskedFor EXCEPT !.wheelchair = c, !.arriveBy = b, !.maxOptions = m,
                                                             !.serviceEnd = e],
                    answers |-> a, now |-> t] :
                     c \in BOOLEAN, b \in BOOLEAN, m \in {3, 9}, e \in {NoInstant, 28}, a \in Probed, t \in {1}}
                  \cup {[kind |-> "forecast", ask |-> [AskedFor EXCEPT !.wheelchair = c, !.maxOptions = m],
                         answers |-> 0 :> <<Way(5, 8, "a")>>, now |-> t] : c \in BOOLEAN, m \in {3, 9}, t \in {2, 3, 4}}
=============================================================================
