-------------------------- MODULE MCRealtimeFrames --------------------------
(* Small instances of RealtimeFrames: see README.md for what each one shows. *)
EXTENDS RealtimeFrames

\* A vehicle at either end of a line, and one there on another trip, late: trails,
\* derived and smoothed bearings, changes of trip and route.
Moves == {[pos |-> 0, ts |-> 0, trip |-> "t1", route |-> "r1", bearing |-> NoBearing],
          [pos |-> 3, ts |-> 0, trip |-> "t1", route |-> "r1", bearing |-> NoBearing],
          [pos |-> 3, ts |-> 9, trip |-> "t2", route |-> "r2", bearing |-> NoBearing]}

\* Two places and two trips of different routes, as the streams tell them apart.
Hops == {[pos |-> p, ts |-> 0, trip |-> t, route |-> IF t = "t1" THEN "r1" ELSE "r2",
          bearing |-> b] :
            p \in {0, 3}, t \in {"t1", "t2"}, b \in {FeedBearing}}

NoFilters == {NoFilter}
BoxAndRoute == {NoFilter, [bbox |-> {3}, routes |-> {"r2"}]}
=============================================================================
