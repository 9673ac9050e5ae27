------------------------------ MODULE Forecasts ------------------------------
(***************************************************************************)
(* When to leave: forecast.py and the handler plan_forecast.  The router   *)
(* is asked at instants across the window; a probe that fails is left out, *)
(* and the window is cached under a key that has not the wheelchair flag.  *)
(* Instants are minutes; a journey is [depart, arrive, rides].             *)
(***************************************************************************)
EXTENDS Lists, SequencesExt

CONSTANTS
    MaxFanout,      \* plans asked for one window at most
    LongGap,
    ForecastTtl, CacheSize
ASSUME ForecastAssumption == {MaxFanout, LongGap, ForecastTtl, CacheSize} \subseteq Nat \ {0}

NoInstant == -1
NearestWhole(n, d) == IF 2 * (n % d) < d \/ (2 * (n % d) = d /\ (n \div d) % 2 = 0) THEN n \div d ELSE n \div d + 1
SampleTimes(start, window, fanout) ==
    LET n == IF fanout < MaxFanout THEN fanout ELSE MaxFanout
    IN  IF n <= 1 \/ window <= 0 THEN <<start>>
        ELSE [i \in 1 .. n |-> start + NearestWhole(window * (i - 1), n)]

\* Mutant: two journeys are the same when they leave and arrive together.
TimesOnly(j) == <<j.depart, j.arrive>>

\* _signature: the same vehicles at the same instants.
JourneyTaken(j) == <<j.rides, j.depart>>
Distinct(journeys) == OnceBy(journeys, [i \in DOMAIN journeys |-> JourneyTaken(journeys[i])])
Duration(j) == j.arrive - j.depart

\* In the order of departure (of arrival when that is what was asked), the quicker first.
Chronological(journeys, arriveBy) ==
    SortedBy(journeys, [i \in DOMAIN journeys |->
                          <<IF arriveBy THEN journeys[i].arrive ELSE journeys[i].depart, Duration(journeys[i])>>])

BuildOptions(plans, maxOptions, arriveBy) ==
    FirstOf(Chronological(Distinct(FlattenSeq(plans)), arriveBy), maxOptions)

\* The earliest arrival of the fastest quarter; 0 where there is none.
MarkRecommended(options) ==
    LET timed  == Where(options, LAMBDA j : Duration(j) > 0)
        slower == SortedBy(timed, [i \in DOMAIN timed |-> <<Duration(timed[i]), 0>>])
        cutoff == Duration(slower[(Len(slower) - 1) \div 4 + 1])
        quick  == {i \in DOMAIN options : Duration(options[i]) \in 1 .. cutoff}
    IN  IF timed = <<>> THEN 0
        ELSE CHOOSE i \in quick : \A k \in quick : \/ options[i].arrive < options[k].arrive
                                                   \/ options[i].arrive = options[k].arrive /\ i <= k

\* The wait for the next option; none after the last, nor where it is not later.
AnnotateGaps(options) ==
    [i \in DOMAIN options |-> IF i = Len(options) \/ options[i + 1].depart <= options[i].depart THEN NoInstant
                              ELSE options[i + 1].depart - options[i].depart]

BuildNotes(options, windowEnd, serviceEnd) ==
    LET gaps == AnnotateGaps(options)
        last == options[Len(options)].depart
    IN  {<<"long_gap", options[i].depart>> : i \in {i \in DOMAIN options : gaps[i] >= LongGap}}
          \cup (IF options # <<>> /\ last < windowEnd - LongGap THEN {<<"last_service", last>>} ELSE {})
          \cup (IF serviceEnd # NoInstant /\ serviceEnd <= windowEnd THEN {<<"service_ends", serviceEnd>>} ELSE {})

\* answers: instant -> the journeys found from it; a probe that failed is not in its domain.
Compute(answers, ask) ==
    LET times   == Where(SampleTimes(ask.start, ask.window, MaxFanout), LAMBDA t : t \in DOMAIN answers)
        options == BuildOptions([i \in DOMAIN times |-> answers[times[i]]], ask.maxOptions, ask.arriveBy)
    IN  [options |-> options, gaps |-> AnnotateGaps(options), recommended |-> MarkRecommended(options),
         notes |-> BuildNotes(options, ask.start + ask.window, ask.serviceEnd)]

(***************************************************************************)
(* The cache: [key, at, body] in the order they were put.                  *)
(***************************************************************************)
Cached(cache, key, now) == Where(cache, LAMBDA e : e.key = key /\ now - e.at < ForecastTtl)
\* What is under the key is stale by now: it was dropped when it was looked for.
Put(cache, key, body, now) ==
    LET others == Where(cache, LAMBDA e : e.key # key)
        kept   == IF Len(others) >= CacheSize THEN Tail(others) ELSE others
    IN  Append(kept, [key |-> key, at |-> now, body |-> body])
ForecastKey(ask) == [ask EXCEPT !.wheelchair = FALSE]
=============================================================================
