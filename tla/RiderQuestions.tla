---------------------------- MODULE RiderQuestions ----------------------------
(***************************************************************************)
(* The questions a rider asks that change nothing but, for a forecast, its *)
(* cache: what a trip costs, what a kerb allows, what a stop announces,    *)
(* which services replace a leg, when to leave.  A question carries what   *)
(* the router and the tables hold when it is asked; the handler answers    *)
(* with the operators of the modules extended.  The properties compare the *)
(* answers with what they claim, read off the question.                    *)
(***************************************************************************)
EXTENDS Fares, CurbHours, StopBoards, RouteMerges, Forecasts

CONSTANTS FareQuestions, KerbQuestions, WindowQuestions, BoardQuestions, BusQuestions, WatchQuestions,
          SegmentQuestions, ListQuestions, ShapeQuestions, TimetableQuestions, ForecastQuestions

(***************************************************************************)
(* A policy's hours are of the day, "24:00" included; a window ends no     *)
(* earlier than it begins, and it is asked about at a time of the day.     *)
(* The window of a forecast has a minute for each probe, at least          *)
(* (routers/plan.py:530: 15 minutes, for MAX_FANOUT = 8).                  *)
(***************************************************************************)
KindsApart ==
    /\ \A q \in WindowQuestions : q.kind = "window"
    /\ \A q \in KerbQuestions : q.kind = "kerb"
    /\ \A q \in ForecastQuestions : q.kind = "forecast"
    /\ \A q \in BoardQuestions \cup BusQuestions \cup WatchQuestions \cup SegmentQuestions
                  \cup ListQuestions \cup ShapeQuestions \cup TimetableQuestions :
          q.kind \notin {"window", "kerb", "forecast", "fare"}
SoundHours(spans) == \A s \in spans : /\ {s.from, s.to} \subseteq {NoTime} \cup 0 .. DayTicks
                                      /\ {s.starts, s.ends} \subseteq {NoTime} \cup Nat
TimetableSound(q) ==
    /\ q.day \in Int /\ q.time \in 0 .. DayLength - 1
    /\ \A w \in q.index.windows : w.first \in Nat /\ w.last \in Nat /\ w.first <= w.last
Forecastable == [start : Nat, window : Nat, maxOptions : Nat, arriveBy : BOOLEAN, wheelchair : BOOLEAN, serviceEnd : Int]
ForecastSound(q) ==
    /\ q.ask \in Forecastable /\ q.ask.window >= MaxFanout /\ q.now \in Nat
    /\ \A t \in DOMAIN q.answers : /\ q.answers[t] \in Seq(Range(q.answers[t]))
                                   /\ \A j \in Range(q.answers[t]) : j.depart \in Nat /\ j.arrive \in Nat
Tariff(surcharges, zones) ==
    [flagFall : Nat, minimum : Nat, unitPrice : Nat, unitMetres : Nat \ {0}, unitSeconds : Nat \ {0}, waitingPct : Nat,
     rounding : Nat \ {0}, bandPct : Nat, surcharges : {surcharges}, zones : {zones}]
RideOf(points, wanted) == [metres : Nat, seconds : Nat, minute : Nat, sunday : BOOLEAN, holiday : BOOLEAN,
                           points : {points}, wanted : {wanted}]
CityFare == [base : Nat, transfer : Nat, window : Nat, maxTransfers : Nat]
RateTier == [from : Nat, to : Nat, unit : {"minute", "hour", "day", "week", "session"}, rate : Nat, maximum : Nat \cup {Unpriced}]
ListOf(s) == s \in Seq(Range(s))
FareSound(q) ==
    /\ q.kind = "fare" /\ q.minutes \in Nat
    /\ q.fares = <<>> \/ \E f \in Range(q.fares) : q.fares = <<f>> /\ f \in CityFare
    /\ q.starts \in Seq(Nat)
    /\ ListOf(q.rentals) /\ \A r \in Range(q.rentals) : r.price \in Int /\ r.perMinute \in BOOLEAN
    /\ ListOf(q.configured) /\ \A p \in Range(q.configured) : p.order \in Int /\ p.id \in Int
    /\ "street" \in DOMAIN q.tariffs
    /\ \A t \in Range(q.tariffs) : /\ t \in Tariff(t.surcharges, t.zones) /\ ListOf(t.surcharges)
                                   /\ \A x \in Range(t.surcharges) : x.amount \in Nat
    /\ q.ride \in RideOf(q.ride.points, q.ride.wanted)
    /\ ListOf(q.rules) /\ \A r \in Range(q.rules) : r.tiers \in Seq(RateTier)
ASSUME QuestionsAssumption ==
    /\ KindsApart
    /\ \A q \in WindowQuestions : TimetableSound(q)
    /\ \A q \in FareQuestions : FareSound(q)
    /\ \A q \in ForecastQuestions : ForecastSound(q)
    /\ \A q \in KerbQuestions : q.now \in Nat /\ \A p \in q.zone : SoundHours(p.spans)

VARIABLES question, response, forecasts
questions == <<question, response, forecasts>>

Silence == [kind |-> "none"]
QuestionsInit == question = Silence /\ response = Silence /\ forecasts = <<>>

Answering(Questions, Answer(_)) ==
    /\ question = Silence
    /\ \E q \in Questions : question' = q /\ response' = Answer(q)
    /\ UNCHANGED forecasts

AskFare == Answering(FareQuestions, LAMBDA q :
    [fare    |-> EstimateFare(q.fares, q.starts, q.rentals,
                              <<QuotesFor(q.configured, q.tariffs, q.ride)>>, ParkingFee(q.rules, q.minutes)),
     meter   |-> Estimate(q.tariffs["street"], q.ride),
     further |-> Estimate(q.tariffs["street"], [q.ride EXCEPT !.metres = @ + 1]),
     stay    |-> [m \in 1 .. q.minutes |-> ParkingFee(q.rules, m)]])

KerbAnswer(q) == [curb |-> CurbPublic(q.zone, q.class, q.now), zones |-> ZonesPublic(q.mds, q.geographies, q.now),
                  shown |-> GeographiesPublic(q.geographies, q.now)]
AskKerb == Answering(KerbQuestions, KerbAnswer)

WindowAnswer(q) == WindowFor(q.index, q.day, q.time)
AskWindow == Answering(WindowQuestions, WindowAnswer)

AskBoard == Answering(BoardQuestions, LAMBDA q :
    [all  |-> ApplyStopPredictions(q.deps, q.arrivals, q.now),
     deps |-> Departures(q.deps, q.arrivals, q.now, q.limit),
     rows |-> BoardRows(q.deps, q.arrivals, q.serving, q.now, q.limit)])

AskBus == Answering(BusQuestions, LAMBDA q :
    [rows |-> NextBuses(q.vehicles, q.patterns, q.target, q.route, q.deps, q.now, q.limit)])

AskWatch == Answering(WatchQuestions, LAMBDA q :
    [items |-> WatchSummary(q.favourites, q.near, q.limit, q.deps, q.only, q.limit)])

\* segment_services: a stop the tables do not know is refused; without the router's
\* patterns the services are the routes known to call at both stops.
ServedBoth(q) ==
    LET both == {r \in DOMAIN q.calls \ q.exclude :
                   \A end \in {q.from, q.to} : q.calls[r] \cap StopFamily(q.stops, end) # {}}
    IN  SetToSeq({[head |-> [id |-> r], merged |-> <<>>] : r \in both})
AskSegment == Answering(SegmentQuestions, LAMBDA q :
    IF ~({q.from, q.to} \subseteq {r.id : r \in q.stops}) THEN [match |-> "unknown", services |-> <<>>]
    ELSE IF ~q.router THEN [match |-> "stop", services |-> ServedBoth(q)]
    ELSE [match |-> "pattern",
          services |-> EquivalentServices(q.patterns, StopFamily(q.stops, q.from), StopFamily(q.stops, q.to),
                                          q.exclude)])

AskList      == Answering(ListQuestions, LAMBDA q : [rows |-> MergeDuplicateRoutes(q.routes)])
AskShapes    == Answering(ShapeQuestions, LAMBDA q : DedupeShapes(q.shapes))
AskTimetable == Answering(TimetableQuestions, LAMBDA q :
    [group |-> DirectionGroup(q.patterns, q.wanted), summary |-> ScheduleSummary(q.departures, q.hour)])

\* plan_forecast: from the cache, or computed and put there.  A window nothing
\* was asked of (the router has no answer at all) is put there as well.
AskForecast ==
    /\ question.kind \in {"none", "forecast"}
    /\ \E q \in ForecastQuestions :
          LET hit  == Cached(forecasts, ForecastKey(q.ask), q.now)
              body == [window |-> Compute(q.answers, q.ask), of |-> q]
          IN  /\ question.kind = "forecast" => q.now > question.now
              /\ question' = q
              /\ response' = IF hit # <<>> THEN hit[1].body ELSE body
              /\ forecasts' = IF hit # <<>> THEN forecasts ELSE Put(forecasts, ForecastKey(q.ask), body, q.now)

QuestionsNext ==
    \/ AskFare \/ AskKerb \/ AskWindow \/ AskBoard \/ AskBus \/ AskWatch
    \/ AskSegment \/ AskList \/ AskShapes \/ AskTimetable \/ AskForecast
QuestionsSpec == QuestionsInit /\ [][QuestionsNext]_questions

Is(kind) == question.kind = kind
InOrder(s, Key(_)) == \A i, j \in DOMAIN s : i < j => Key(s[i]) <= Key(s[j])
OnlyOnce(s) == \A i, j \in DOMAIN s : s[i] = s[j] => i = j

-----------------------------------------------------------------------------
\* features.py:22: each boarding is a transfer exactly when the last base fare is
\* recent and has transfers left; a network without minutes to pay is paid once;
\* the lines add up.  The meter's band holds its estimate, a longer ride and a
\* longer stay are never cheaper, and nobody is cheaper than who is recommended.
BaseBefore(charged, i) == Max({b \in 1 .. i : charged[b] = "base"})
BoardingsAgree(q) ==
    LET charged == Boardings(q.fares[1], q.starts)
    IN  /\ Len(charged) = Len(q.starts)
        /\ charged # <<>> => charged[1] = "base"
        /\ \A i \in 2 .. Len(charged) :
              LET b == BaseBefore(charged, i - 1)
              IN  charged[i] = "transfer" <=> /\ q.starts[i] - q.starts[b] <= q.fares[1].window
                                              /\ i - b <= q.fares[1].maxTransfers

\* A network none of whose rides is paid by the minute is charged once; a ride that is, always.
ByTheMinute(rentals) == Where(rentals, LAMBDA r : r.perMinute /\ r.price \notin {Unpriced, 0})
RentalsAgree(rentals) ==
    LET charged == ChargedRentals(rentals)
        passes  == {rentals[i].network : i \in {i \in DOMAIN rentals : rentals[i].price \notin {Unpriced, 0}}}
    IN  /\ \A n \in passes : (\A i \in DOMAIN rentals : rentals[i].network = n => ~rentals[i].perMinute)
              => \E i \in DOMAIN charged : \A k \in DOMAIN charged : charged[k].network = n <=> k = i
        /\ ByTheMinute(charged) = ByTheMinute(rentals)

FaresAgree ==
    Is("fare") =>
      LET q == question
          lines == response.fare.lines
          quotes == QuotesFor(q.configured, q.tariffs, q.ride)
      IN  /\ q.fares # <<>> => BoardingsAgree(q) /\ {i \in DOMAIN lines : lines[i].kind = "transit"} = 1 .. Len(q.starts)
          /\ RentalsAgree(q.rentals)
          /\ response.fare.note <=> \E i \in DOMAIN lines : lines[i].amount = Unpriced
          /\ response.meter.min <= response.meter.amount /\ response.meter.amount <= response.meter.max
          /\ response.meter.amount <= response.further.amount
          /\ \A m \in 1 .. q.minutes - 1 : response.stay[m] # Unpriced => response.stay[m] <= response.stay[m + 1]
          /\ \A i \in Priced(quotes) : /\ Recommended(quotes) \in Priced(quotes)
                                       /\ quotes[Recommended(quotes)].price <= quotes[i].price

\* openmobility.py:187 "the exact moment": where dates begin and end at midnight, a
\* span flips for the first time at its next change, tick by tick, within a week (one
\* open until "24:00" of the last day may name the midnight it ends at).
\* Until the kerb's own next change (403) the policies that decide now still apply,
\* or none does; and the price is of the policy that decides.
LastMidnight(t) == (Day(t) + Week + 1) * DayTicks
FirstFlip(spans, t) ==
    LET flips == {u \in t + 1 .. LastMidnight(t) - 1 : SpansActive(spans, u) # SpansActive(spans, t)}
    IN  IF flips = {} THEN NoTime ELSE Min(flips)
ByMidnights(spans) == \A s \in spans : \A u \in {s.starts, s.ends} \ {NoTime} : u % DayTicks = 0
ChangeExact(spans, t) ==
    LET change == NextChange(spans, t)
        first  == FirstFlip(spans, t)
    IN  IF ByMidnights(spans) THEN change = first \/ (first = NoTime /\ change = LastMidnight(t))
        ELSE change # NoTime => SpansActive(spans, change) # SpansActive(spans, t) /\ first <= change
Meanwhile(now, change) == now .. (IF change = NoTime THEN (Day(now) + Week) * DayTicks ELSE change - 1)

KerbHonest ==
    Is("kerb") =>
      LET q  == question
          ev == response.curb.ev
          Deciding(u) == ActivePolicies(q.zone, q.class, u)
      IN  /\ \A p \in q.zone : ChangeExact(p.spans, q.now)
          /\ (\A p \in q.zone : ByMidnights(p.spans)) =>
                \A u \in Meanwhile(q.now, ev.nextChange) :
                   /\ ev.allowed = "unknown" => Deciding(u) = {}
                   /\ Deciding(q.now) \subseteq Deciding(u)
          /\ q.class # Anyone => response.curb.price = ev.winner
          /\ \A z \in response.zones : z.shapes # {} /\ z.shapes \subseteq {g.id : g \in q.geographies}

\* features.py:215: a route that is not "active" is not running at that instant, and
\* runs for the next time at nextStart, not before; one that is said active either
\* runs or has yet to begin a run of yesterday's that ends past midnight.  (A run
\* that ends at midnight sharp is over by then; and a run of today's that starts past
\* midnight is named even before an earlier one of tomorrow's.)
RunsAt(q, t) ==
    \E d \in {q.day - 1, q.day, q.day + 1} : \E w \in WindowsOn(q.index, d) :
       LET from == (d - q.day) * DayLength + w.first
           till == (d - q.day) * DayLength + w.last
       IN  from <= t /\ t <= till /\ (till = 0 => d = q.day)
StartsPastMidnight(q, t) == t >= DayLength /\ \E w \in WindowsOn(q.index, q.day) : w.first = t
YetToBegin(q) == \E w \in WindowsOn(q.index, q.day - 1) : w.first > q.time + DayLength

WindowHonest ==
    Is("window") =>
      LET q == question
      IN  /\ ~response.active =>
                /\ ~RunsAt(q, q.time)
                /\ response.nextStart # None => RunsAt(q, response.nextStart)
                /\ \/ StartsPastMidnight(q, response.nextStart)
                   \/ \A t \in q.time .. (IF response.nextStart = None THEN 2 * DayLength
                                         ELSE response.nextStart) - 1 : ~RunsAt(q, t)
          /\ response.active => RunsAt(q, q.time) \/ YetToBegin(q)

\* normalize.py:393: every fresh prediction is announced exactly once, with a departure
\* of the timetable or on its own, and none stays alone while it is within reach of
\* a departure without one.  A trip is announced once, in the order of time; the
\* board (board.py:88) has a row per route and sign, one at least for every route.
FreshOnes(q) == SelectSeq(q.arrivals, LAMBDA a : a.eta >= q.now - Stale)
Announcements(all, e) == Cardinality({i \in DOMAIN all : all[i].source = "stop" /\ all[i].eta = e})
Given(arrivals, e) == Cardinality({i \in DOMAIN arrivals : arrivals[i].eta = e})
TripsOf(rows) == SelectSeq([i \in DOMAIN rows |-> rows[i].trip], LAMBDA t : t # Absent)

BoardHonest ==
    Is("board") =>
      LET all == response.all IN
      /\ \A e \in {question.arrivals[i].eta : i \in DOMAIN question.arrivals} :
            Announcements(all, e) = Given(FreshOnes(question), e)
      /\ \A i, j \in DOMAIN all : all[i].eta = None /\ all[j].sched = None => ~Reaches(all[i], all[j])
      /\ InOrder(response.deps, When) /\ OnlyOnce(TripsOf(response.deps))
      /\ \A i, j \in DOMAIN response.rows : RowKey(response.rows[i]) = RowKey(response.rows[j]) => i = j
      /\ Range(question.serving) \subseteq {response.rows[i].route : i \in DOMAIN response.rows}
      /\ \A i \in DOMAIN response.rows : InOrder(response.rows[i].next, LAMBDA d : d.time)

\* board.py:191: no bus is offered that is past the stop, no trip both as a bus and as
\* a departure; watch.py:105: a favourite that can be read never disappears.
BusesHonest ==
    /\ Is("bus") =>
          /\ Len(response.rows) <= question.limit /\ InOrder(response.rows, LAMBDA r : r.time) /\ OnlyOnce(TripsOf(response.rows))
          /\ \A i \in DOMAIN response.rows : response.rows[i].vehicle # Absent =>
                \E v \in Range(question.vehicles) :
                   LET place == LocateVehicle(v, question.patterns)
                   IN  v.id = response.rows[i].vehicle
                       /\ question.patterns[place[1]][place[2] + response.rows[i].away] \in question.target
    /\ Is("watch") =>
          LET shown == [i \in DOMAIN response.items |-> response.items[i].stop]
          IN  /\ \A i \in DOMAIN question.favourites : i <= MaxStops /\ question.favourites[i] \in DOMAIN question.deps
                    => question.favourites[i] \in Range(shown)
              /\ Len(shown) <= MaxStops /\ OnlyOnce(shown)
              /\ \A i \in DOMAIN response.items : response.items[i].rows = <<>> => shown[i] \in Range(question.favourites)

\* What is said at a stop: its service windows, its departures and board, its buses.
StopsHonest == WindowHonest /\ BoardHonest /\ BusesHonest

\* segments.py:56: a service offered for a leg boards at the origin and, later on its
\* pattern, alights at the destination, not past a stop where it could have; every
\* route that runs and is no detour is offered, itself or merged into another.
\* route_merge.py:34, network_dedupe.py:38, schedule.py:26: nothing is lost in a merge.
Listed(rows) == UNION {{rows[i].id} \cup Range(rows[i].merged) : i \in DOMAIN rows}
Rideable(q, p, from, to) ==
    {ij \in (DOMAIN p.stops) \X (DOMAIN p.stops) :
       ij[1] < ij[2] /\ p.stops[ij[1]] \in StopFamily(q.stops, from) /\ p.stops[ij[2]] \in StopFamily(q.stops, to)}
SegmentsAgree(q) ==
    LET offered == {[s |-> x.head, ids |-> {x.head.id} \cup Range(x.merged)] : x \in Range(response.services)}
        BoardAt(p) == Min({i \in DOMAIN p.stops : p.stops[i] \in StopFamily(q.stops, q.from)})
        CanRide(p) == /\ p.route \notin q.exclude /\ p.today # "no"
                      /\ \E ij \in Rideable(q, p, q.from, q.to) : ij[1] = BoardAt(p)
        Direct(p) == Min({ij[2] - ij[1] : ij \in {ij \in Rideable(q, p, q.from, q.to) : ij[1] = BoardAt(p)}})
    IN  /\ \A o \in offered : \E p \in Range(q.patterns) :
              p.route = o.s.id /\ CanRide(p) /\ Direct(p) = o.s.stops
              /\ \E ij \in Rideable(q, p, q.from, q.to) :
                    p.stops[ij[1]] = o.s.board /\ p.stops[ij[2]] = o.s.off /\ ij[2] - ij[1] = o.s.stops
        /\ \A p \in Range(q.patterns) :
              (/\ CanRide(p)
               /\ \A r \in Range(q.patterns) : CanRide(r) => Direct(p) <= Direct(r) + 3)
                 => \E o \in offered : p.route \in o.ids

MergesAgree ==
    /\ Is("segment") /\ response.match = "pattern" => SegmentsAgree(question)
    /\ Is("list") =>
          /\ Listed(response.rows) = {r.id : r \in Range(question.routes)}
          /\ \A i, j \in DOMAIN response.rows : i # j =>
                                                  /\ Listed(<<response.rows[i]>>) \cap Listed(<<response.rows[j]>>) = {}
                                                  /\ response.rows[i].key = response.rows[j].key => response.rows[i].key[2] = Unnamed
    /\ Is("shapes") =>
          LET kept == Range(response.kept) IN
          /\ {k.id : k \in kept} \cup {pair[1] : pair \in Range(response.standIn)} = {s.id : s \in Range(question.shapes)}
          /\ \A pair \in Range(response.standIn) :
                /\ pair[2] \in {k.id : k \in kept}
                /\ \E s \in Range(question.shapes) : s.id = pair[1] /\ (Mostly(s, kept) \/ \E k \in kept : k.code = s.code)
    /\ Is("timetable") =>
          /\ MapThenSumSet(LAMBDA b : b.trips, response.summary.bands) = response.summary.trips
          /\ \A b \in response.summary.bands : b.headway # <<>> => b.headway[1] <= b.headway[2] /\ b.headway[2] <= b.headway[3]
          /\ response.group # <<>> /\ question.wanted # Unnamed => \E p \in Range(response.group) : p.code = question.wanted

\* forecast.py: the router is asked so many times at most, from the start and within the
\* window; every journey a probe found is an option unless the list is full, none
\* twice; the note of a long gap is where one is.  An answer of the cache is as
\* good as that of the one who asked, but perhaps for another wheelchair flag.
ForecastHonest ==
    Is("forecast") =>
      LET of == response.of
          w  == response.window
          asked == SampleTimes(of.ask.start, of.ask.window, MaxFanout)
          found == UNION {Range(of.answers[t]) : t \in Range(asked) \cap DOMAIN of.answers}
      IN  /\ [of.ask EXCEPT !.wheelchair = question.ask.wheelchair] = question.ask
          /\ question.now - of.now < ForecastTtl
          /\ Len(asked) <= AtLeast(MaxFanout, 1) /\ OnlyOnce(asked) /\ asked[1] = of.ask.start
          /\ \A i \in DOMAIN asked : asked[i] \in of.ask.start .. of.ask.start + of.ask.window
          /\ Range(w.options) \subseteq found
          /\ \A i, j \in DOMAIN w.options :
                <<w.options[i].rides, w.options[i].depart>> = <<w.options[j].rides, w.options[j].depart>> => i = j
          /\ Len(w.options) < of.ask.maxOptions =>
                \A j \in found : \E i \in DOMAIN w.options :
                   w.options[i].rides = j.rides /\ w.options[i].depart = j.depart
          /\ \A i \in 1 .. Len(w.options) - 1 : ~of.ask.arriveBy =>
                /\ w.options[i].depart + AtLeast(w.gaps[i], 0) = w.options[i + 1].depart
                /\ <<"long_gap", w.options[i].depart>> \in w.notes
                     <=> w.options[i + 1].depart - w.options[i].depart >= LongGap
                           \/ \E k \in DOMAIN w.options : w.options[k].depart = w.options[i].depart /\ w.gaps[k] >= LongGap
          /\ w.recommended # 0 => \A i \in DOMAIN w.options :
                Duration(w.options[i]) \in 1 .. Duration(w.options[w.recommended])
                  => w.options[i].arrive >= w.options[w.recommended].arrive
=============================================================================
