------------------------------ MODULE OpsAlert ------------------------------
(***************************************************************************)
(* Telling a person that a feed shrank or that a router graph has drifted: *)
(* app/ops_alerts.py, app/feed_shrink.py, app/graph_drift.py and           *)
(* _ops_alert of app/main.py, over the table ops_alert_sent.               *)
(*                                                                         *)
(* A worker is a process of the service; each runs a static pass for the   *)
(* city at start-up and at every refresh.  The ingest and the loaders are  *)
(* one step here: FeedIngest has their statements.  Every await of         *)
(* _ops_alert is the boundary of a step.                                   *)
(***************************************************************************)
EXTENDS Integers, FiniteSets, Sequences

CONSTANTS
    Workers,
    Feeds,          \* the zips the agency may publish
    Trips,          \* feed -> the trips it carries
    Graphs,         \* the graph releases, as baseline_tag names them
    Shared,         \* graph -> feed -> the feed's trips the graph recognises
    None,           \* no graph, no feed
    MaxPublish, MaxRebuilds, MaxRefusals, MaxErrors, MaxCrashes  \* bounds on a behaviour

ShrinkThreshold == 30       \* SHRINK_THRESHOLD_PCT
RebuildBelow == 85          \* REBUILD_BELOW_PCT

ASSUME FeedsAssumption ==
    /\ IsFiniteSet(Feeds) /\ Trips \in [Feeds -> Nat]
    /\ \A g \in Graphs, f \in Feeds : Shared[g][f] \in 0 .. Trips[f]
    /\ None \notin Graphs \cup Feeds
ASSUME BoundsAssumption ==
    {MaxPublish, MaxRebuilds, MaxRefusals, MaxErrors, MaxCrashes} \subseteq Nat

VARIABLES
    published,  \* the feed the agency serves
    stored,     \* the versions kept, the active one first: <<[feed, id], ...>>
    serial,     \* the last feed version id given
    graph,      \* the release whose baseline the city is configured with
    baseline,   \* worker -> the release whose baseline it has fetched
    keys,       \* ops_alert_sent
    pc,         \* worker -> where its pass is
    todo,       \* worker -> the alerts still to say, in order
    \* what the outside world has seen:
    told,       \* keys of the messages a channel accepted
    twice,      \* keys accepted more than once
    shrank,     \* the alerts due for the active version: one, or none
    pubs, rebuilds, refusals, errors, crashes   \* used of the bounds

feedVars == <<stored, serial, shrank>>
callVars == <<pc, todo>>
logVars == <<told, twice>>
boundVars == <<pubs, rebuilds, refusals, errors, crashes>>
vars == <<published, graph, feedVars, baseline, keys, callVars, logVars, boundVars>>

-----------------------------------------------------------------------------
(* The two conditions.                                                     *)

\* feed_shrink: nothing to compare with, or nothing left, is another alarm.
FeedShrink(before, now) ==
    /\ before > 0 /\ now > 0 /\ now < before
    /\ 100 * (before - now) >= ShrinkThreshold * before

\* overlap: the percentage is rounded to a tenth before it is compared.
Tenths(g, f) == (2000 * Shared[g][f] + Trips[f]) \div (2 * Trips[f])
Drifted(g, f) == Trips[f] > 0 /\ Tenths(g, f) < 10 * RebuildBelow

\* alerts_for: a feed is told of by its version, a graph by its release.
ShrankKey(id) == <<"feed_shrank", id>>
DriftKey(g) == <<"graph_drift", g>>

Ids == 0 .. Cardinality(Feeds) + MaxPublish
Keys == {ShrankKey(id) : id \in Ids} \cup {DriftKey(g) : g \in Graphs}

If(cond, item) == IF cond THEN <<item>> ELSE <<>>

-----------------------------------------------------------------------------
Init ==
    /\ published \in Feeds /\ graph \in Graphs
    /\ stored = <<>> /\ serial = 0 /\ shrank = <<>>
    /\ baseline = [w \in Workers |-> None]
    /\ keys = {} /\ told = {} /\ twice = {}
    /\ pc = [w \in Workers |-> "idle"] /\ todo = [w \in Workers |-> <<>>]
    /\ pubs = 0 /\ rebuilds = 0 /\ refusals = 0 /\ errors = 0 /\ crashes = 0

Publish ==
    /\ pubs < MaxPublish
    /\ \E f \in Feeds \ {published} : published' = f
    /\ pubs' = pubs + 1
    /\ UNCHANGED <<graph, feedVars, baseline, keys, callVars, logVars, rebuilds, refusals, errors,
                   crashes>>

\* A new graph is built and the city's trip_ids_url moved to its release.
Rebuild ==
    /\ rebuilds < MaxRebuilds
    /\ \E g \in Graphs \ {graph} : graph' = g
    /\ rebuilds' = rebuilds + 1
    /\ UNCHANGED <<published, feedVars, baseline, keys, callVars, logVars, pubs, refusals, errors,
                   crashes>>

\* ingest: the published feed becomes the active version.  One stored before
\* keeps its id; the two fetched last are kept.
Active == IF stored = <<>> THEN None ELSE stored[1].feed
Changed == Active # published

Ingest ==
    LET known == {i \in DOMAIN stored : stored[i].feed = published}
        id == IF known = {} THEN serial + 1 ELSE stored[CHOOSE i \in known : TRUE].id
    IN  IF Changed
        THEN /\ stored' = <<[feed |-> published, id |-> id]>> \o (IF stored = <<>> THEN <<>> ELSE <<stored[1]>>)
             /\ serial' = IF known = {} THEN id ELSE serial
        ELSE UNCHANGED <<stored, serial>>

\* What the ingest's result says of the version it has just made active.
Shrink ==
    If(Active # None /\ FeedShrink(Trips[Active], Trips[published]), ShrankKey(stored'[1].id))

\* _bootstrap_static: the ingest's result names a shrink only when the version
\* changed; the drift is that of the trips now loaded, if the release's
\* baseline is here already or can be fetched.
StaticPass(w) ==
    /\ pc[w] = "idle"
    /\ Ingest
    /\ shrank' = IF Changed THEN Shrink ELSE shrank
    /\ \E fetched \in BOOLEAN :
          /\ baseline[w] = graph => fetched
          /\ fetched \/ refusals < MaxRefusals
          /\ refusals' = IF fetched THEN refusals ELSE refusals + 1
          /\ baseline' = IF fetched THEN [baseline EXCEPT ![w] = graph] ELSE baseline
          /\ LET said == (IF Changed THEN shrank' ELSE <<>>)
                            \o If(fetched /\ Drifted(graph, published), DriftKey(graph))
             IN  /\ todo' = [todo EXCEPT ![w] = said]
                 /\ pc' = [pc EXCEPT ![w] = IF said = <<>> THEN "idle" ELSE "claim"]
    /\ UNCHANGED <<published, graph, keys, logVars, pubs, rebuilds, errors, crashes>>

\* The admin's ingest-static answers its caller with the shrink, and alerts nobody.
AdminIngest ==
    /\ Changed
    /\ Ingest
    /\ shrank' = <<>>
    /\ UNCHANGED <<published, graph, baseline, keys, callVars, logVars, boundVars>>

\* The pass is done with its first alert.
Advance(w) ==
    /\ todo' = [todo EXCEPT ![w] = Tail(@)]
    /\ pc' = [pc EXCEPT ![w] = IF Len(todo[w]) = 1 THEN "idle" ELSE "claim"]

\* Mutant: the insert replaces a row that is there, and returns it.
Replaced(key) == key \in Keys

\* ON CONFLICT DO NOTHING RETURNING: a row comes back when it is new.
Inserted(key) == key \notin keys

Claim(w) ==
    LET key == Head(todo[w])
    IN  /\ pc[w] = "claim"
        /\ IF Inserted(key) THEN pc' = [pc EXCEPT ![w] = "send"] /\ UNCHANGED todo
                            ELSE Advance(w)
        /\ keys' = keys \cup {key}
        /\ UNCHANGED <<published, graph, feedVars, baseline, logVars, boundVars>>

\* Some channel accepts the message.
Deliver(w) ==
    LET key == Head(todo[w])
    IN  /\ pc[w] = "send"
        /\ told' = told \cup {key}
        /\ twice' = IF key \in told THEN twice \cup {key} ELSE twice
        /\ Advance(w)
        /\ UNCHANGED <<published, graph, feedVars, baseline, keys, boundVars>>

\* None does.
Refuse(w) ==
    /\ pc[w] = "send" /\ refusals < MaxRefusals
    /\ refusals' = refusals + 1
    /\ pc' = [pc EXCEPT ![w] = "unclaim"]
    /\ UNCHANGED <<published, graph, feedVars, baseline, keys, todo, logVars, pubs, rebuilds, errors,
                   crashes>>

\* Mutant: the row of a refused message stays.
UnclaimNothing(w) ==
    /\ pc[w] = "unclaim"
    /\ Advance(w)
    /\ UNCHANGED <<published, graph, feedVars, baseline, keys, logVars, boundVars>>

Unclaim(w) ==
    /\ pc[w] = "unclaim"
    /\ keys' = keys \ {Head(todo[w])}
    /\ Advance(w)
    /\ UNCHANGED <<published, graph, feedVars, baseline, logVars, boundVars>>

\* A query raises: the handler logs it and drops what was left to say.
QueryFails(w) ==
    /\ pc[w] \in {"claim", "unclaim"} /\ errors < MaxErrors
    /\ errors' = errors + 1
    /\ pc' = [pc EXCEPT ![w] = "idle"] /\ todo' = [todo EXCEPT ![w] = <<>>]
    /\ UNCHANGED <<published, graph, feedVars, baseline, keys, logVars, pubs, rebuilds, refusals,
                   crashes>>

\* The process is stopped and starts again.
Crash(w) ==
    /\ crashes < MaxCrashes
    /\ crashes' = crashes + 1
    /\ pc' = [pc EXCEPT ![w] = "idle"] /\ todo' = [todo EXCEPT ![w] = <<>>]
    /\ baseline' = [baseline EXCEPT ![w] = None]
    /\ UNCHANGED <<published, graph, feedVars, keys, logVars, pubs, rebuilds, refusals, errors>>

Says(w) == Claim(w) \/ Deliver(w) \/ Refuse(w) \/ Unclaim(w)

Next ==
    \/ Publish \/ Rebuild \/ AdminIngest
    \/ \E w \in Workers : StaticPass(w) \/ Says(w) \/ QueryFails(w) \/ Crash(w)

Spec == Init /\ [][Next]_vars

\* The refresh timer goes off again and again and a pass that has begun goes
\* on.  Refusals are bounded, so a channel, or the server of the baseline,
\* asked often enough answers.
FairSpec == Spec /\ \A w \in Workers : WF_vars(StaticPass(w)) /\ WF_vars(Says(w))

-----------------------------------------------------------------------------
Busy == {"claim", "send", "unclaim"}

\* main.py:87, "two workers racing the same condition send it once": whatever
\* stops, restarts or is refused, no channel accepts a message for a key twice.
ToldOnce == twice = {}

\* The insert is the lock: no two workers hold the same key, and one that was
\* accepted is never given back.
Holds(w) == pc[w] \in {"send", "unclaim"}
ClaimExcludes ==
    /\ \A w, o \in Workers : w # o /\ Holds(w) /\ Holds(o) => Head(todo[w]) # Head(todo[o])
    /\ told \subseteq keys

\* ops_alerts.py, "once per stale graph": a graph that stays drifted is told of,
\* however often the channel or the baseline's server refuses first, unless a
\* process stopped or a query failed: those may leave the key of a message
\* nobody got.
Stale(g) == Active # None /\ graph = g /\ Drifted(g, Active)
DriftTold ==
    \A g \in Graphs :
        Stale(g) ~> (DriftKey(g) \in told \/ ~Stale(g) \/ errors + crashes > 0)

=============================================================================
