-------------------------------- MODULE Fares --------------------------------
(***************************************************************************)
(* What a trip costs: the taximeter (tariff.estimate), the shared vehicle  *)
(* (PerMinutePrice.quote), the car park (parking_fee), the providers'      *)
(* quotes, and features.estimate_fare, which adds them to the city's own   *)
(* fare.  Amounts are whole units of the currency; instants are minutes.   *)
(***************************************************************************)
EXTENDS Lists

\* No price is known.
Unpriced == -1
SumOf(s) == LET upto[i \in 0 .. Len(s)] == IF i = 0 THEN 0 ELSE upto[i - 1] + s[i] IN upto[Len(s)]
AtLeast(a, b) == IF a < b THEN b ELSE a
AtMost(a, b)  == IF a < b THEN a ELSE b
CeilDiv(n, d) == (n + d - 1) \div d

\* Python's round(n / d / unit) * unit: halves go to the even multiple.
Rounded(n, d, unit) ==
    LET down == n \div (d * unit)
        over == 2 * (n % (d * unit))
    IN  unit * (IF over < d * unit \/ (over = d * unit /\ down % 2 = 0) THEN down ELSE down + 1)

(***************************************************************************)
(* The taximeter.                                                          *)
(***************************************************************************)
\* A window whose end is before its start goes past midnight.
InNightWindow(minute, from, to) ==
    IF from <= to THEN from <= minute /\ minute < to ELSE minute >= from \/ minute < to

ZonesTouched(tariff, points) == {z \in DOMAIN tariff.zones : tariff.zones[z] \cap points # {}}

Applies(tariff, s, ride) ==
    LET touched == ZonesTouched(tariff, ride.points)
    IN  IF s.optional THEN s.id \in ride.wanted
        ELSE \/ s.night # <<>> /\ InNightWindow(ride.minute, s.night[1], s.night[2])
             \/ s.sundays /\ ride.sunday
             \/ s.holidays /\ ride.holiday
             \/ s.zones \cap touched # {}

ApplicableSurcharges(tariff, ride) == Where(tariff.surcharges, LAMBDA s : Applies(tariff, s, ride))

MeterUnits(tariff, ride) ==
    CeilDiv(ride.metres, tariff.unitMetres) + (ride.seconds * tariff.waitingPct) \div (100 * tariff.unitSeconds)

Metered(tariff, ride) ==
    Rounded(AtLeast(tariff.flagFall + MeterUnits(tariff, ride) * tariff.unitPrice, tariff.minimum),
            1, tariff.rounding)

Estimate(tariff, ride) ==
    LET applied == ApplicableSurcharges(tariff, ride)
        amounts == [i \in DOMAIN applied |-> applied[i].amount]
        total   == Rounded(Metered(tariff, ride) + SumOf(amounts), 1, tariff.rounding)
    IN  [amount |-> total,
         min |-> Rounded(total * (100 - tariff.bandPct), 100, tariff.rounding),
         max |-> Rounded(total * (100 + tariff.bandPct), 100, tariff.rounding),
         lines |-> <<Metered(tariff, ride)>>
                     \o [i \in DOMAIN amounts |-> Rounded(amounts[i], 1, tariff.rounding)]]

(***************************************************************************)
(* The providers: enabled ones, by order; the cheapest price is            *)
(* recommended, the first one when nobody has a price.                     *)
(***************************************************************************)
QuoteProvider(p, tariffs, ride) ==
    [id |-> p.id, price |-> IF p.tariff \in DOMAIN tariffs THEN Estimate(tariffs[p.tariff], ride).amount
                            ELSE Unpriced]

Offered(configured) ==
    LET enabled == Where(configured, LAMBDA p : p.enabled)
    IN  SortedBy(enabled, [i \in DOMAIN enabled |-> <<enabled[i].order, enabled[i].id>>])

QuotesFor(configured, tariffs, ride) ==
    LET ps == Offered(configured) IN [i \in DOMAIN ps |-> QuoteProvider(ps[i], tariffs, ride)]

Priced(quotes) == {i \in DOMAIN quotes : quotes[i].price # Unpriced}
Recommended(quotes) ==
    IF Priced(quotes) # {}
    THEN CHOOSE i \in Priced(quotes) :
           \A j \in Priced(quotes) : \/ quotes[i].price < quotes[j].price
                                     \/ quotes[i].price = quotes[j].price /\ i <= j
    ELSE 1

(***************************************************************************)
(* Shared vehicles and car parks.                                          *)
(***************************************************************************)
\* A started minute is charged whole.
PerRide(price, seconds, electric) ==
    LET rate == IF electric /\ price.electric # Unpriced THEN price.electric ELSE price.perMinute
    IN  price.unlock + rate * CeilDiv(seconds, 60)

MinutesOf(unit) == [minute |-> 1, hour |-> 60, day |-> 1440, week |-> 10080][unit]

\* What the minutes of one tier cost; a unit that is no time is charged once.
TierFee(tier, minutes) ==
    LET span == AtMost(minutes, tier.to) - tier.from
        cost == IF tier.unit = "session" THEN <<tier.rate, 1>> ELSE <<tier.rate * span, MinutesOf(tier.unit)>>
        capped == tier.maximum # Unpriced /\ tier.maximum * cost[2] < cost[1]
    IN  IF span <= 0 THEN <<0, 1>> ELSE IF capped THEN <<tier.maximum, 1>> ELSE cost

\* The cost of a tier in parts that every unit divides.
Common == 10080
TierCost(tier, minutes) == TierFee(tier, minutes)[1] * (Common \div TierFee(tier, minutes)[2])

\* The first rule that prices parking; the tiers' costs are added, then rounded.
ParkingRules(rules) == Where(rules, LAMBDA r : r.activity = "parking" /\ r.tiers # <<>>)
InTurn(tiers) == SortedBy(tiers, [i \in DOMAIN tiers |-> <<tiers[i].from, 0>>])
StayFee(tiers, minutes) == Rounded(SumOf([i \in DOMAIN tiers |-> TierCost(tiers[i], minutes)]), Common, 1)
ParkingFee(rules, minutes) ==
    LET priced == ParkingRules(rules)
    IN  IF priced = <<>> THEN Unpriced ELSE StayFee(InTurn(priced[1].tiers), minutes)

(***************************************************************************)
(* The city's fare.  A boarding is a base fare or, within the window of    *)
(* the last base fare and while transfers are left, a transfer.            *)
(***************************************************************************)
NoWindow == -1
\* Mutant: a new base fare does not give the transfers back.
BoardSpent(fares, acc, start) ==
    IF acc.since # NoWindow /\ start - acc.since <= fares.window /\ acc.used < fares.maxTransfers
    THEN [acc EXCEPT !.used = @ + 1, !.lines = Append(@, "transfer")]
    ELSE [acc EXCEPT !.since = start, !.lines = Append(@, "base")]

Board(fares, acc, start) ==
    LET inside == /\ acc.since # NoWindow
                  /\ start - acc.since <= fares.window
                  /\ acc.used < fares.maxTransfers
    IN  IF inside THEN [acc EXCEPT !.used = @ + 1, !.lines = Append(@, "transfer")]
        ELSE [since |-> start, used |-> 0, lines |-> Append(acc.lines, "base")]

Boardings(fares, starts) ==
    LET after[i \in 0 .. Len(starts)] ==
            IF i = 0 THEN [since |-> NoWindow, used |-> 0, lines |-> <<>>] ELSE Board(fares, after[i - 1], starts[i])
    IN  after[Len(starts)].lines

\* One pass per network, unless every ride of it is paid by the minute.
ChargedRentals(rentals) ==
    LET priced == Where(rentals, LAMBDA r : r.price # Unpriced /\ r.price # 0)
    IN  Picked(priced, {i \in DOMAIN priced : priced[i].perMinute
                                                \/ \A j \in 1 .. (i - 1) : priced[j].network # priced[i].network})

Line(kind, amount) == [kind |-> kind, amount |-> amount]

\* fares is <<>> where the city has none; quotes is what each taxi leg was offered.
EstimateFare(fares, starts, rentals, rides, parking) ==
    LET boarded == IF fares = <<>> THEN <<>> ELSE Boardings(fares[1], starts)
        hired   == ChargedRentals(rentals)
        offered == Where(rides, LAMBDA quotes : quotes # <<>>)
        parked  == IF parking = Unpriced THEN <<>> ELSE <<Line("parking", parking)>>
        lines   == [i \in DOMAIN boarded |->
                      Line("transit", IF boarded[i] = "base" THEN fares[1].base ELSE fares[1].transfer)]
                   \o [i \in DOMAIN hired |-> Line("rental", hired[i].price)]
                   \o [i \in DOMAIN offered |-> Line("ondemand", offered[i][Recommended(offered[i])].price)]
                   \o parked
        paid    == Where(lines, LAMBDA l : l.amount # Unpriced)
    IN  IF fares = <<>> /\ hired = <<>> /\ rides = <<>> /\ parked = <<>> THEN Unpriced
        ELSE [amount |-> SumOf([i \in DOMAIN paid |-> paid[i].amount]), lines |-> lines,
              note |-> Len(paid) < Len(lines)]
=============================================================================
