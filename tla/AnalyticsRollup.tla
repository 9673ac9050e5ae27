--------------------------- MODULE AnalyticsRollup ---------------------------
(***************************************************************************)
(* The analytics of one city (app/analytics.py, app/routers/analytics.py,  *)
(* the analytics loop of app/main.py): events are received and stored, and *)
(* rollups - the loop's, one in every instance of the service, and the     *)
(* operator's - count them into tables of aggregates, while the retention  *)
(* drops old events.                                                       *)
(*                                                                         *)
(* A statement outside a transaction is a step.  Inside it, a DELETE finds *)
(* its rows in one step and deletes them in another, once no other         *)
(* transaction has deleted them and not ended (READ COMMITTED).  A row     *)
(* holds the set of the events it counts, which the real one holds the     *)
(* number of.  A batch is one event: it is stored whole, with one stamp.   *)
(***************************************************************************)
EXTENDS Integers, Sequences, FiniteSets

CONSTANTS
    Rollups,        \* calls of rollup that may be under way at once
    Types,          \* types of the events received
    Hours,          \* hours of the day told apart
    Retentions,     \* the retention, in days, of each city: a partition is all cities'
    Age,            \* days an event's own time may be away from its receipt
    West, East,     \* 1 if the city's day begins after the UTC day, before it
    InOrder,        \* events are stored in the order they were received
    KeepsUp,        \* rollups follow within the day after
    MaxEvents, MaxDay, MaxFailures      \* bounds on a behaviour

ASSUME DaysAssumption == /\ Retentions \subseteq Nat /\ Age \in Nat
                         /\ {West, East} \subseteq {0, 1}
ASSUME TypesAssumption == Types \subseteq {"search_select", "app_open"}
ASSUME SwitchesAssumption == {InOrder, KeepsUp} \subseteq BOOLEAN
ASSUME BoundsAssumption == {MaxEvents, MaxDay, MaxFailures} \subseteq Nat
\* What is received on a day touches days whose events are not yet dropped.
ASSUME RetentionAssumption == \A r \in Retentions : r > 2 * Age + West + East

VARIABLES
    today,      \* the UTC day
    received,   \* events received: the number of the newest is its received_at
    inflight,   \* received and not stored yet
    raw,        \* analytics_event
    watermark,  \* analytics_rollup_state
    tab,        \* the tables of aggregates
    at, nth,    \* where each rollup is, and at which table
    mark,       \* the watermark it read
    new,        \* the events after it
    scope,      \* the raw events of the days they touch
    found,      \* the rows its DELETE has found
    dead, born, \* what its transaction has deleted and inserted
    \* history:
    stored,     \* every event stored, dropped since or not
    crossed,    \* days of which two transactions were under way at once
    failures    \* used of the bound

feedVars == <<today, received, inflight, raw, stored>>
txVars == <<found, dead, born>>
readVars == <<mark, new, scope>>
vars == <<feedVars, watermark, tab, at, nth, readVars, txVars, crossed, failures>>

\* The tables told apart: one a day with no primary key, one a day with one,
\* and one an hour; in the order of the DELETEs and in that of the INSERTs.
DeleteOrder == <<"agg_search_daily", "agg_funnel_daily", "agg_place_hourly">>
InsertOrder == <<"agg_place_hourly", "agg_search_daily", "agg_funnel_daily">>
Tables == {"agg_search_daily", "agg_funnel_daily", "agg_place_hourly"}
Keyed == Tables \ {"agg_search_daily"}

\* Every event counts for its session, and a search for its place too.
Fills(t, e) == t = "agg_funnel_daily" \/ e.type = "search_select"
Key(t, e) == IF t = "agg_place_hourly" THEN <<e.local, e.hour>> ELSE <<e.local>>

\* The local days that may be those of an event received on UTC day d.
LocalDays(d) == (d - Age - West) .. (d + Age + East)
Event == [n : 1 .. MaxEvents, day : 0 .. MaxDay, type : Types, hour : Hours,
          local : UNION {LocalDays(d) : d \in 0 .. MaxDay}]

Days(es) == {e.local : e \in es}
Touched(t, es) == {Key(t, e) : e \in es}
Latest(es) == CHOOSE n \in {e.n : e \in es} : \A e \in es : e.n <= n
Pending == {e \in stored : e.n > watermark}
InTransaction(w) == at[w] \in {"find", "delete", "insert", "commit"}

-----------------------------------------------------------------------------
(* Events.                                                                 *)

\* prepare_rows: the event gets its stamp; what is too far from it is dropped.
Receive ==
    /\ received < MaxEvents /\ received' = received + 1
    /\ \E type \in Types, hour \in Hours, local \in LocalDays(today) :
          inflight' = inflight \cup {[n |-> received + 1, day |-> today, type |-> type,
                                      hour |-> hour, local |-> local]}
    /\ UNCHANGED <<today, raw, stored, watermark, tab, at, nth, readVars, txVars, crossed, failures>>

Store ==
    /\ \E e \in inflight :
          /\ InOrder => \A f \in inflight : e.n <= f.n
          /\ inflight' = inflight \ {e} /\ raw' = raw \cup {e} /\ stored' = stored \cup {e}
    /\ UNCHANGED <<today, received, watermark, tab, at, nth, readVars, txVars, crossed, failures>>

LoseBatch ==
    /\ failures < MaxFailures /\ failures' = failures + 1
    /\ \E e \in inflight : inflight' = inflight \ {e}
    /\ UNCHANGED <<today, received, raw, stored, watermark, tab, at, nth, readVars, txVars, crossed>>

\* With KeepsUp a day ends when what was received before it has been counted
\* and no request is under way.
Midnight ==
    /\ today < MaxDay /\ today' = today + 1
    /\ KeepsUp => /\ inflight = {} /\ \A w \in Rollups : at[w] = "idle"
                  /\ \A e \in Pending : e.day = today
    /\ UNCHANGED <<received, inflight, raw, stored, watermark, tab, at, nth, readVars, txVars, crossed, failures>>

\* Mutant: a day too many.
KeptShort(r) == {e \in raw : e.day > today - r}

Kept(r) == {e \in raw : e.day >= today - r}

\* drop_expired, once for every city.
Drop ==
    /\ \E r \in Retentions : raw' = Kept(r)
    /\ UNCHANGED <<today, received, inflight, stored, watermark, tab, at, nth, readVars, txVars, crossed, failures>>

-----------------------------------------------------------------------------
(* rollup.                                                                 *)

Begin(w) ==
    /\ at[w] = "idle"
    /\ mark' = [mark EXCEPT ![w] = watermark] /\ at' = [at EXCEPT ![w] = "new"]
    /\ UNCHANGED <<feedVars, watermark, tab, nth, new, scope, txVars, crossed, failures>>

\* Mutant: the first event after the mark is taken for the last one before it.
NewSkipping(w) == {e \in raw : e.n > mark[w] + 1}

New(w) == {e \in raw : e.n > mark[w]}

\* With nothing new only last_rollup_at is written.
ReadNew(w) ==
    /\ at[w] = "new"
    /\ new' = [new EXCEPT ![w] = New(w)]
    /\ at' = [at EXCEPT ![w] = IF New(w) = {} THEN "idle" ELSE "raw"]
    /\ UNCHANGED <<feedVars, watermark, tab, nth, mark, scope, txVars, crossed, failures>>

Scope(w) == {e \in raw : e.local \in Days(new[w])}

ReadRaw(w) ==
    /\ at[w] = "raw"
    /\ scope' = [scope EXCEPT ![w] = Scope(w)]
    /\ at' = [at EXCEPT ![w] = "find"] /\ nth' = [nth EXCEPT ![w] = 1]
    /\ crossed' = crossed \cup UNION {Days(new[w]) \cap Days(new[v]) :
                                        v \in {x \in Rollups \ {w} : InTransaction(x)}}
    /\ UNCHANGED <<feedVars, watermark, tab, mark, new, txVars, failures>>

\* The DELETE sees what is committed when it begins.
Find(w) ==
    /\ at[w] = "find"
    /\ LET t == DeleteOrder[nth[w]]
       IN  found' = [found EXCEPT ![w] = {r \in tab : r.table = t /\ r.key \in Touched(t, new[w])}]
    /\ at' = [at EXCEPT ![w] = "delete"]
    /\ UNCHANGED <<feedVars, watermark, tab, nth, readVars, dead, born, crossed, failures>>

Filling(t, key, es) == {e \in es : Fills(t, e) /\ Key(t, e) = key}

\* Of what was aggregated, the rows of the keys touched.
Fresh(w, t) == {r \in {[table |-> t, key |-> key, events |-> Filling(t, key, scope[w]), by |-> w] :
                       key \in Touched(t, new[w])} : r.events # {}}

\* v is deleting a row that w is to delete, or has deleted or inserted one with
\* a key that w is to insert.
Blocks(v, w) ==
    \/ at[w] = "delete" /\ found[w] \cap dead[v] # {}
    \/ /\ at[w] = "insert" /\ InsertOrder[nth[w]] \in Keyed
       /\ \E r \in Fresh(w, InsertOrder[nth[w]]), x \in dead[v] \cup born[v] :
             x.table = r.table /\ x.key = r.key

\* It waits for who deletes one of them, and leaves those that have gone.
Delete(w) ==
    /\ at[w] = "delete"
    /\ \A v \in Rollups \ {w} : ~Blocks(v, w)
    /\ dead' = [dead EXCEPT ![w] = @ \cup (found[w] \cap tab)]
    /\ found' = [found EXCEPT ![w] = {}]
    /\ IF nth[w] < Len(DeleteOrder)
       THEN nth' = [nth EXCEPT ![w] = @ + 1] /\ at' = [at EXCEPT ![w] = "find"]
       ELSE nth' = [nth EXCEPT ![w] = 1] /\ at' = [at EXCEPT ![w] = "insert"]
    /\ UNCHANGED <<feedVars, watermark, tab, readVars, born, crossed, failures>>

Clashes(w, t) ==
    t \in Keyed /\ \E r \in Fresh(w, t), x \in tab \ dead[w] : x.table = t /\ x.key = r.key

Rest(w) == /\ at' = [at EXCEPT ![w] = "idle"] /\ nth' = [nth EXCEPT ![w] = 1]
           /\ mark' = [mark EXCEPT ![w] = 0]
           /\ new' = [new EXCEPT ![w] = {}] /\ scope' = [scope EXCEPT ![w] = {}]
           /\ found' = [found EXCEPT ![w] = {}]
           /\ dead' = [dead EXCEPT ![w] = {}] /\ born' = [born EXCEPT ![w] = {}]

\* A primary key violated rolls the transaction back.
Insert(w) ==
    /\ at[w] = "insert"
    /\ LET t == InsertOrder[nth[w]]
       IN  /\ \A v \in Rollups \ {w} : ~Blocks(v, w)
           /\ \/ Clashes(w, t) /\ Rest(w)
              \/ /\ ~Clashes(w, t)
                 /\ born' = [born EXCEPT ![w] = @ \cup Fresh(w, t)]
                 /\ IF nth[w] < Len(InsertOrder)
                    THEN nth' = [nth EXCEPT ![w] = @ + 1] /\ UNCHANGED at
                    ELSE UNCHANGED nth /\ at' = [at EXCEPT ![w] = "commit"]
                 /\ UNCHANGED <<readVars, found, dead>>
    /\ UNCHANGED <<feedVars, watermark, tab, crossed, failures>>

Top(w) == Latest(new[w])

Commit(w) ==
    /\ at[w] = "commit"
    /\ tab' = (tab \ dead[w]) \cup born[w]
    /\ watermark' = Top(w)
    /\ Rest(w)
    /\ UNCHANGED <<feedVars, crossed, failures>>

\* Postgres ends one of two transactions that wait for each other.
Deadlock(w) ==
    /\ \E v \in Rollups \ {w} : Blocks(v, w) /\ Blocks(w, v)
    /\ Rest(w)
    /\ UNCHANGED <<feedVars, watermark, tab, crossed, failures>>

Fail(w) ==
    /\ at[w] # "idle" /\ failures < MaxFailures
    /\ failures' = failures + 1
    /\ Rest(w)
    /\ UNCHANGED <<feedVars, watermark, tab, crossed>>

-----------------------------------------------------------------------------
Init ==
    /\ today = 0 /\ received = 0 /\ inflight = {} /\ raw = {} /\ stored = {}
    /\ watermark = 0 /\ tab = {}
    /\ at = [w \in Rollups |-> "idle"] /\ nth = [w \in Rollups |-> 1]
    /\ mark = [w \in Rollups |-> 0] /\ new = [w \in Rollups |-> {}]
    /\ scope = [w \in Rollups |-> {}] /\ found = [w \in Rollups |-> {}]
    /\ dead = [w \in Rollups |-> {}] /\ born = [w \in Rollups |-> {}]
    /\ crossed = {} /\ failures = 0

Statement(w) == \/ Begin(w) \/ ReadNew(w) \/ ReadRaw(w) \/ Find(w) \/ Delete(w)
                \/ Insert(w) \/ Commit(w)

Next == \/ Receive \/ Store \/ LoseBatch \/ Midnight \/ Drop
        \/ \E w \in Rollups : Statement(w) \/ Deadlock(w) \/ Fail(w)

Spec == Init /\ [][Next]_vars
\* Each loop comes round, Postgres gives a row that is let go to who waits for
\* it before a later transaction asks, and it ends a deadlock.
FairSpec == /\ Spec
            /\ \A w \in Rollups : SF_vars(Statement(w))
            /\ WF_vars(\E w \in Rollups : Deadlock(w))

-----------------------------------------------------------------------------
(* Properties.                                                             *)

\* API.md:518, :477: an event that is not pending is counted in the row of its
\* day and in that of its hour, and stays counted when it has been dropped -
\* however rollups overlap, unless they are of its day.
Counted ==
    \A e \in stored \ Pending, t \in Tables :
        Fills(t, e) /\ e.local \notin crossed => \E r \in tab : r.table = t /\ r.key = Key(t, e) /\ e \in r.events

\* A row counts nothing but what is its key's, and a key has one row - unless,
\* in a table without primary key, two rollups of the day have overlapped.
CountedOnce ==
    \A r, s \in tab : r.table = s.table /\ r.key = s.key =>
        r = s \/ (r.table \notin Keyed /\ r.key[1] \in crossed)

\* Both: what is rolled up is in its rows, and once (analytics.py:591).
CountedExactly == Counted /\ CountedOnce

\* API.md:511: a stored event is counted in the end, whatever fails and overlaps
\* - though a slow rollup sets the watermark back.
Drained == \A n \in 1 .. MaxEvents : (\E e \in stored : e.n = n) ~> n <= watermark

=============================================================================
