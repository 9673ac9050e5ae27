------------------------------ MODULE CurbHours ------------------------------
(***************************************************************************)
(* What a kerb allows at an instant and until when: openmobility.py's time *)
(* spans, evaluate_zone, the price of the winning policy, and the flat     *)
(* shape of MDS zones.  An instant is a number of ticks; a policy is [id,  *)
(* priority, spans, rules], a rule [activity, only, never, priced].  The   *)
(* four date fields of a span are the set of dates they leave.             *)
(***************************************************************************)
EXTENDS Integers, Sequences, FiniteSetsExt

CONSTANTS DayTicks, Week, Holidays
ASSUME CurbAssumption == {DayTicks, Week} \subseteq Nat \ {0} /\ Holidays \subseteq Nat

NoTime == -1
Day(t)     == t \div DayTicks
TimeOf(t)  == t % DayTicks
Horizon(t) == Day(t) .. Day(t) + Week

(***************************************************************************)
(* Time spans.  A start is inclusive and an end exclusive, of the dates    *)
(* and of the day; a window that starts after its end wraps past midnight. *)
(***************************************************************************)
DuringDay(span, time) ==
    LET lo == IF span.from = NoTime THEN 0 ELSE span.from
        hi == IF span.to = NoTime THEN DayTicks ELSE span.to
    IN  IF lo <= hi THEN lo <= time /\ time < hi ELSE time >= lo \/ time < hi

\* Of the designated periods only the holidays are known.
DuringPeriod(span, day) == span.period = "holidays" => (day \in Holidays) # span.except

TimeSpanActive(span, t) ==
    /\ span.starts # NoTime => t >= span.starts
    /\ span.ends # NoTime => t < span.ends
    /\ Day(t) \in span.dates
    /\ DuringPeriod(span, Day(t))
    /\ DuringDay(span, TimeOf(t))

SpansActive(spans, t) == spans = {} \/ \E s \in spans : TimeSpanActive(s, t)

\* Mutant: only the edges of the windows are looked at, not the midnights.
WindowEdges(spans) == ({s.from : s \in spans} \cup {s.to : s \in spans}) \ {NoTime}

Edges(spans) == ({0} \cup {s.from : s \in spans} \cup {s.to : s \in spans}) \ {NoTime}
Boundaries(spans, t) == {u \in {d * DayTicks + e : d \in Horizon(t), e \in Edges(spans)} : u > t}
NextChange(spans, t) ==
    LET flips == {u \in Boundaries(spans, t) : SpansActive(spans, u) # SpansActive(spans, t)}
    IN  IF flips = {} THEN NoTime ELSE Min(flips)

(***************************************************************************)
(* A kerb: zone is the set of its policies, a policy has a set of rules.   *)
(***************************************************************************)
PickUps   == {"stopping", "loading", "unloading", "parking"}
Forbidden == {"no " \o a : a \in PickUps \cup {"travel"}}
Anyone    == "anyone"

\* A taxi may use a car's bay, a car may not use a taxi's.
UserClasses(class) == IF class = "taxi" THEN {"taxi", "car"} ELSE {class}
RuleMatches(rule, class) ==
    class # Anyone => /\ rule.only = {} \/ rule.only \cap UserClasses(class) # {}
                      /\ rule.never \cap UserClasses(class) = {}
RulesFor(policy, class) == {r \in policy.rules : RuleMatches(r, class)}

ActivePolicies(zone, class, t) ==
    {p \in zone : SpansActive(p.spans, t) /\ (class # Anyone => RulesFor(p, class) # {})}

Before(p, q) == p.priority < q.priority \/ (p.priority = q.priority /\ p.id < q.id)
Winner(policies) == CHOOSE p \in policies : \A q \in policies \ {p} : Before(p, q)

\* "unknown" where no policy applies.
PickUpAllowed(active, class) ==
    IF active = {} THEN "unknown"
    ELSE LET acts == {r.activity : r \in RulesFor(Winner(active), class)}
         IN  IF acts \cap PickUps # {} /\ acts \cap Forbidden = {} THEN "yes" ELSE "no"

\* The policies of the zone count where none is active.
SoonestChange(active, zone, t) ==
    LET changes == {NextChange(p.spans, t) : p \in IF active = {} THEN zone ELSE active} \ {NoTime}
    IN  IF changes = {} THEN NoTime ELSE Min(changes)

\* _winning_price_label: a policy without a rule for the class has no price to win with.
WinningPrice(zone, class, t) ==
    LET priced == {p \in zone : SpansActive(p.spans, t) /\ RulesFor(p, class) # {}}
    IN  IF priced = {} THEN {} ELSE {Winner(priced).id}

EvaluateZone(zone, class, t) ==
    LET active == ActivePolicies(zone, class, t)
    IN  [allowed |-> PickUpAllowed(active, class), nextChange |-> SoonestChange(active, zone, t),
         active |-> {p.id : p \in active}, winner |-> IF active = {} THEN {} ELSE {Winner(active).id}]

CurbPublic(zone, class, t) ==
    [ev |-> EvaluateZone(zone, class, t), price |-> WinningPrice(zone, class, t)]

(***************************************************************************)
(* MDS policies as zones: one per rule that has a geometry, of the         *)
(* policies in force.                                                      *)
(***************************************************************************)
InForce(from, to, t) == (from # NoTime => t >= from) /\ (to # NoTime => t < to)

RuleZoneType(rule) ==
    CASE rule.kind = "speed" -> "speed_limit"
      [] rule.kind = "count" /\ rule.maximum = 0 -> IF rule.onTrip THEN "no_ride" ELSE "no_parking"
      [] rule.kind = "count" /\ rule.maximum = NoTime /\ rule.minimum > 0 -> "preferred_parking"
      [] rule.kind = "count" -> "cap"
      [] rule.kind = "time" /\ rule.maximum = 0 -> "no_ride"
      [] OTHER -> "other"

Shapes(rule, geographies) == {g.id : g \in {g \in geographies : g.id \in rule.geographies /\ g.shape}}
Zone(p, r, geographies, t) ==
    [policy |-> p.id, rule |-> r.id, type |-> RuleZoneType(r), active |-> SpansActive(r.spans, t),
     nextChange |-> NextChange(r.spans, t), shapes |-> Shapes(r, geographies)]
ZonesPublic(policies, geographies, t) ==
    UNION {{Zone(p, r, geographies, t) : r \in {r \in p.rules : Shapes(r, geographies) # {}}} :
             p \in {p \in policies : InForce(p.starts, p.ends, t)}}
GeographiesPublic(geographies, t) == {g \in geographies : InForce(g.starts, g.ends, t)}
=============================================================================
