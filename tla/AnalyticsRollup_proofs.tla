----------------------- MODULE AnalyticsRollup_proofs -----------------------
(***************************************************************************)
(* For any rollups at once, types, hours, retentions and zones: while      *)
(* events are stored in their order and rollups keep up with the days,     *)
(* what is rolled up is in its rows, and once.                             *)
(***************************************************************************)
EXTENDS AnalyticsRollup, HeatMap, FiniteSetTheorems, TLAPS

Stages == {"idle", "new", "raw", "find", "delete", "insert", "commit"}
HasRead(w) == at[w] = "raw" \/ InTransaction(w)
Received == [n : Nat \ {0}, day : Nat, type : Types, hour : Hours, local : Int]

\* The rollups' places and what they hold, of events that are stored.
RollupTyped ==
    /\ today \in Nat /\ received \in Nat /\ watermark \in Nat
    /\ at \in [Rollups -> Stages] /\ nth \in [Rollups -> 1 .. 3] /\ mark \in [Rollups -> Nat]
    /\ new \in [Rollups -> SUBSET stored] /\ scope \in [Rollups -> SUBSET stored]
    /\ DOMAIN found = Rollups /\ DOMAIN dead = Rollups /\ DOMAIN born = Rollups
EventsTyped ==
    /\ inflight \cup stored \subseteq Received /\ raw \subseteq stored
    /\ \A e \in inflight \cup stored : e.local \in LocalDays(e.day)

\* Events are stored in the order of their numbers, on the day they came in.
StoredInOrder ==
    /\ \A e \in inflight \cup stored : e.n <= received
    /\ \A e \in inflight : e.day = today
    /\ \A e, f \in inflight : e.n = f.n => e = f
    /\ \A e \in inflight, f \in stored : f.n < e.n
    /\ stored # {} => \E m \in stored : \A e \in stored : e.n <= m.n

\* What was dropped is older than what is yet to be counted by as much as one day's
\* events may touch another's.
DroppedLong == \A e \in stored \ raw : \E r \in Retentions : e.day < today - r
After(n) == {e \in stored : e.n > n}
PendingYoung ==
    /\ \A e \in After(watermark) : e.day >= today - 1
    /\ \A w \in Rollups : at[w] # "idle" => \A e \in After(mark[w]) : e.day >= today - 1

MarksBehind ==
    /\ watermark <= received /\ \A w \in Rollups : mark[w] <= received
    /\ \A e \in inflight : watermark < e.n /\ \A w \in Rollups : mark[w] < e.n

\* A rollup has read every event between its mark and its newest.
NewWhole(w) ==
    HasRead(w) =>
        /\ \A e \in new[w] : e.n > mark[w]
        /\ \E m \in new[w] : \A e \in new[w] : e.n <= m.n
        /\ \A e \in stored, m \in new[w] : mark[w] < e.n /\ e.n <= m.n => e \in new[w]
\* Of the days they touch it has read every event up to them, and all that rows count
\* of a day it has to itself.
ScopeWhole(w) ==
    InTransaction(w) =>
        /\ \A e \in stored, m \in new[w] : e.local \in Days(new[w]) /\ e.n <= m.n => e \in scope[w]
        /\ \A r \in tab : \A e \in r.events : e.local \in Days(new[w]) \ crossed => e \in scope[w]
DaysApart ==
    \A v, w \in Rollups :
        v # w /\ InTransaction(v) /\ InTransaction(w) => Days(new[v]) \cap Days(new[w]) \subseteq crossed

RowsKeyed == \A r \in tab : r.table \in Tables /\ \A e \in r.events : e \in stored /\ Key(r.table, e) = r.key
TouchedBy(w, r) == r.table \in Tables /\ r.key \in Touched(r.table, new[w])
\* The tables it has deleted from, and those it has inserted into.
Cleared(w) ==
    IF at[w] \in {"insert", "commit"} THEN Tables
    ELSE IF at[w] \in {"find", "delete"} THEN {DeleteOrder[i] : i \in 1 .. (nth[w] - 1)} ELSE {}
Filled(w) ==
    IF at[w] = "commit" THEN Tables
    ELSE IF at[w] = "insert" THEN {InsertOrder[i] : i \in 1 .. (nth[w] - 1)} ELSE {}

\* A transaction deletes what it touches, all of it on a day it has to itself, and
\* inserts what it has aggregated.
DeletesTouched(w) ==
    /\ \A r \in found[w] \cup dead[w] : TouchedBy(w, r)
    /\ \A r \in tab : TouchedBy(w, r) /\ r.key[1] \notin crossed =>
          /\ r.table \in Cleared(w) => r \in dead[w]
          /\ at[w] = "delete" /\ r.table = DeleteOrder[nth[w]] => r \in found[w]
InsertsFresh(w) ==
    /\ ~InTransaction(w) => found[w] = {} /\ dead[w] = {}
    /\ \A t \in Tables : {r \in born[w] : r.table = t} = IF t \in Filled(w) THEN Fresh(w, t) ELSE {}
    /\ \A r \in born[w] : r.table \in Tables
SameKey(r, s) == r.table = s.table /\ r.key = s.key
\* The primary keys.
KeysFree ==
    \A w \in Rollups : \A r \in born[w] : r.table \in Keyed =>
        /\ \A x \in tab \ dead[w] : ~SameKey(r, x)
        /\ \A v \in Rollups \ {w} : \A x \in born[v] : ~SameKey(r, x)

Has(e) == \A t \in Tables : Fills(t, e) => \E r \in tab : r.table = t /\ r.key = Key(t, e) /\ e \in r.events
CountedTo(n) == \A e \in stored : e.n <= n /\ e.local \notin crossed => Has(e)
MarksCounted == CountedTo(watermark) /\ \A w \in Rollups : at[w] # "idle" => CountedTo(mark[w])

RollupSound(w) == NewWhole(w) /\ ScopeWhole(w) /\ DeletesTouched(w) /\ InsertsFresh(w)
RollupInv ==
    /\ RollupTyped /\ EventsTyped /\ StoredInOrder /\ DroppedLong /\ PendingYoung /\ MarksBehind
    /\ \A w \in Rollups : RollupSound(w)
    /\ DaysApart /\ RowsKeyed /\ KeysFree /\ MarksCounted /\ CountedOnce

-----------------------------------------------------------------------------
(* What the helpers give.                                                  *)

LEMMA LatestIs ==
    ASSUME NEW es \in SUBSET Received, NEW m \in es, \A e \in es : e.n <= m.n
    PROVE  Latest(es) = m.n
  <1>1. Latest(es) \in {e.n : e \in es} /\ \A e \in es : e.n <= Latest(es)
    BY DEF Latest
  <1>2. PICK f \in es : Latest(es) = f.n BY <1>1
  <1>3. f.n \in Nat /\ m.n \in Nat /\ f.n <= m.n /\ m.n <= f.n BY <1>1, <1>2 DEF Received
  <1> QED BY <1>2, <1>3

\* An event of a day that an event still to be counted touches has not been dropped.
LEMMA NotDropped ==
    ASSUME RollupInv, NEW x \in stored, x.day >= today - 1, NEW e \in stored, e.local = x.local
    PROVE  e \in raw
  <1> SUFFICES ASSUME e \notin raw PROVE FALSE OBVIOUS
  <1>1. PICK r \in Retentions : e.day < today - r BY DEF RollupInv, DroppedLong
  <1>2. e \in Received /\ x \in Received /\ e.local \in LocalDays(e.day) /\ x.local \in LocalDays(x.day)
    BY DEF RollupInv, EventsTyped
  <1>3. e.day \in Nat /\ x.day \in Nat /\ e.local \in Int BY <1>2 DEF Received
  <1>4. Age \in Nat /\ West \in Nat /\ East \in Nat /\ r \in Nat /\ r > 2 * Age + West + East
    BY DaysAssumption, RetentionAssumption
  <1>5. e.local <= e.day + Age + East /\ x.day - Age - West <= e.local
    BY <1>2, <1>3, <1>4 DEF LocalDays
  <1>6. today \in Nat BY DEF RollupInv, RollupTyped
  <1> QED BY <1>1, <1>3, <1>4, <1>5, <1>6

\* What a rollup holds.
Held(w) == <<at[w], nth[w], mark[w], new[w], scope[w], found[w], dead[w], born[w]>>

LEMMA HeldAlike ==
    ASSUME NEW w, Held(w)' = Held(w)
    PROVE  /\ at'[w] = at[w] /\ nth'[w] = nth[w] /\ mark'[w] = mark[w] /\ new'[w] = new[w]
           /\ scope'[w] = scope[w] /\ found'[w] = found[w] /\ dead'[w] = dead[w] /\ born'[w] = born[w]
           /\ InTransaction(w)' = InTransaction(w) /\ HasRead(w)' = HasRead(w)
           /\ Cleared(w)' = Cleared(w) /\ Filled(w)' = Filled(w)
           /\ \A r : TouchedBy(w, r)' = TouchedBy(w, r)
           /\ \A t : Fresh(w, t)' = Fresh(w, t)
  <1>1. /\ at'[w] = at[w] /\ nth'[w] = nth[w] /\ mark'[w] = mark[w] /\ new'[w] = new[w]
        /\ scope'[w] = scope[w] /\ found'[w] = found[w] /\ dead'[w] = dead[w] /\ born'[w] = born[w]
    BY DEF Held
  <1>2. InTransaction(w)' = InTransaction(w) /\ HasRead(w)' = HasRead(w)
    BY <1>1 DEF InTransaction, HasRead
  <1>3. Cleared(w)' = Cleared(w) /\ Filled(w)' = Filled(w)
    BY <1>1 DEF Cleared, Filled
  <1>4. \A r : TouchedBy(w, r)' = TouchedBy(w, r)
    BY <1>1 DEF TouchedBy
  <1>5. \A t : Fresh(w, t)' = Fresh(w, t)
    BY <1>1 DEF Fresh, Filling
  <1> QED BY <1>1, <1>2, <1>3, <1>4, <1>5

\* A rollup that holds what it held stays sound while nothing is stored or committed.
LEMMA SoundStays ==
    ASSUME NEW w, RollupSound(w), Held(w)' = Held(w), tab' = tab, stored' = stored, crossed \subseteq crossed'
    PROVE  RollupSound(w)'
  <1> USE HeldAlike
  <1>1. NewWhole(w)' BY DEF RollupSound, NewWhole
  <1>2. ScopeWhole(w)' BY DEF RollupSound, ScopeWhole
  <1>3. DeletesTouched(w)' BY DEF RollupSound, DeletesTouched
  <1>4. InsertsFresh(w)' BY DEF RollupSound, InsertsFresh
  <1> QED BY <1>1, <1>2, <1>3, <1>4 DEF RollupSound

-----------------------------------------------------------------------------
(* Events come in, are stored and dropped, and days go by.                 *)

rollupVars == <<watermark, tab, at, nth, readVars, txVars, crossed>>

LEMMA RollupsStay ==
    ASSUME RollupInv, UNCHANGED rollupVars, stored' = stored
    PROVE  /\ (\A w \in Rollups : RollupSound(w))' /\ DaysApart' /\ RowsKeyed'
           /\ KeysFree' /\ MarksCounted' /\ CountedOnce'
  <1>1. \A w : Held(w)' = Held(w) BY DEF rollupVars, readVars, txVars, Held
  <1>2. tab' = tab /\ crossed' = crossed /\ watermark' = watermark /\ mark' = mark /\ at' = at /\ new' = new
        /\ born' = born /\ dead' = dead
    BY DEF rollupVars, readVars, txVars
  <1>3. (\A w \in Rollups : RollupSound(w))'
    BY <1>1, <1>2, SoundStays DEF RollupInv
  <1>4. DaysApart' BY <1>2 DEF RollupInv, DaysApart, InTransaction
  <1>5. RowsKeyed' BY <1>2 DEF RollupInv, RowsKeyed
  <1>6. KeysFree' BY <1>2 DEF RollupInv, KeysFree
  <1>7. \A e : Has(e)' = Has(e) BY <1>2 DEF Has
  <1>8. MarksCounted' BY <1>2, <1>7 DEF RollupInv, MarksCounted, CountedTo
  <1>9. CountedOnce' BY <1>2 DEF RollupInv, CountedOnce
  <1> QED BY <1>3, <1>4, <1>5, <1>6, <1>8, <1>9

LEMMA FeedTypes ==
    ASSUME RollupInv
    PROVE  /\ RollupTyped /\ EventsTyped /\ StoredInOrder /\ DroppedLong /\ PendingYoung /\ MarksBehind
           /\ \A e \in inflight \cup stored : e \in Received /\ e.n \in Nat /\ e.day \in Nat /\ e.local \in Int
           /\ Age \in Nat /\ West \in Nat /\ East \in Nat /\ Retentions \subseteq Nat
           /\ MaxFailures \in Nat
  BY DaysAssumption, BoundsAssumption DEF RollupInv, EventsTyped, Received

LEMMA ReceiveKeeps == ASSUME RollupInv, Receive PROVE RollupInv'
  <1> USE FeedTypes
  <1>1. PICK type \in Types, hour \in Hours, local \in LocalDays(today) :
           inflight' = inflight \cup {[n |-> received + 1, day |-> today, type |-> type, hour |-> hour, local |-> local]}
    BY DEF Receive
  <1>2. PICK x : x = [n |-> received + 1, day |-> today, type |-> type, hour |-> hour, local |-> local]
    OBVIOUS
  <1>3. inflight' = inflight \cup {x} BY <1>1, <1>2
  <1>4. /\ received' = received + 1 /\ UNCHANGED <<today, raw, stored, rollupVars>>
    BY DEF Receive, rollupVars
  <1>5. today \in Nat /\ received \in Nat BY DEF RollupTyped
  <1>6. x \in Received /\ x.n = received + 1 /\ x.day = today /\ x.local \in LocalDays(x.day)
    BY <1>2, <1>5 DEF Received, LocalDays
  <1>7. RollupTyped' BY <1>4, <1>5 DEF RollupTyped, rollupVars, readVars, txVars
  <1>8. EventsTyped' BY <1>3, <1>4, <1>6 DEF EventsTyped
  <1>9. StoredInOrder'
    <2>0. \A f \in stored : f.n < x.n
      <3> SUFFICES ASSUME NEW f \in stored PROVE f.n <= received BY <1>5, <1>6
      <3> QED BY <1>5 DEF StoredInOrder
    <2> QED BY <1>3, <1>4, <1>5, <1>6, <2>0 DEF StoredInOrder
  <1>10. DroppedLong' BY <1>4 DEF DroppedLong
  <1>11. PendingYoung' BY <1>4 DEF PendingYoung, After, rollupVars, readVars
  <1>12. MarksBehind'
    <2>1. watermark \in Nat /\ \A w \in Rollups : mark[w] \in Nat BY DEF RollupTyped
    <2> QED BY <1>3, <1>4, <1>5, <1>6, <2>1 DEF MarksBehind, rollupVars, readVars
  <1> QED BY <1>4, <1>7, <1>8, <1>9, <1>10, <1>11, <1>12, RollupsStay DEF RollupInv

LEMMA LoseBatchKeeps == ASSUME RollupInv, LoseBatch PROVE RollupInv'
  <1> USE FeedTypes
  <1>1. /\ UNCHANGED <<received, today, raw, stored, rollupVars>> /\ inflight' \subseteq inflight
    BY DEF LoseBatch, rollupVars
  <1>2. RollupTyped' BY <1>1 DEF RollupTyped, rollupVars, readVars, txVars
  <1>3. EventsTyped' BY <1>1 DEF EventsTyped
  <1>4. StoredInOrder' BY <1>1 DEF StoredInOrder
  <1>5. DroppedLong' BY <1>1 DEF DroppedLong
  <1>6. PendingYoung' BY <1>1 DEF PendingYoung, After, rollupVars, readVars
  <1>7. MarksBehind' BY <1>1 DEF MarksBehind, rollupVars, readVars
  <1> QED BY <1>1, <1>2, <1>3, <1>4, <1>5, <1>6, <1>7, RollupsStay DEF RollupInv

LEMMA DropKeeps == ASSUME RollupInv, Drop PROVE RollupInv'
  <1> USE FeedTypes
  <1>1. PICK r \in Retentions : raw' = Kept(r) BY DEF Drop
  <1>2. UNCHANGED <<received, today, inflight, stored, rollupVars>> BY DEF Drop, rollupVars
  <1>3. RollupTyped' BY <1>2 DEF RollupTyped, rollupVars, readVars, txVars
  <1>4. EventsTyped' BY <1>1, <1>2 DEF EventsTyped, Kept
  <1>5. StoredInOrder' BY <1>2 DEF StoredInOrder
  <1>6. DroppedLong'
    <2> SUFFICES ASSUME NEW e \in stored \ raw' PROVE \E q \in Retentions : e.day < today - q
      BY <1>2 DEF DroppedLong
    <2>1. CASE e \in raw
      <3>1. ~(e.day >= today - r) BY <1>1, <2>1 DEF Kept
      <3>2. today \in Nat /\ r \in Nat /\ e.day \in Nat BY DEF RollupTyped
      <3> QED BY <3>1, <3>2
    <2>2. CASE e \notin raw BY <2>2 DEF DroppedLong
    <2> QED BY <2>1, <2>2
  <1>7. PendingYoung' BY <1>2 DEF PendingYoung, After, rollupVars, readVars
  <1>8. MarksBehind' BY <1>2 DEF MarksBehind, rollupVars, readVars
  <1> QED BY <1>2, <1>3, <1>4, <1>5, <1>6, <1>7, <1>8, RollupsStay DEF RollupInv

LEMMA MidnightKeeps == ASSUME RollupInv, Midnight, KeepsUp PROVE RollupInv'
  <1> USE FeedTypes
  <1>1. /\ today' = today + 1 /\ UNCHANGED <<received, inflight, raw, stored, rollupVars>>
        /\ inflight = {} /\ \A w \in Rollups : at[w] = "idle"
        /\ \A e \in Pending : e.day = today
    BY DEF Midnight, rollupVars
  <1>2. today \in Nat BY DEF RollupTyped
  <1>3. RollupTyped' BY <1>1, <1>2 DEF RollupTyped, rollupVars, readVars, txVars
  <1>4. EventsTyped' BY <1>1 DEF EventsTyped
  <1>5. StoredInOrder' BY <1>1 DEF StoredInOrder
  <1>6. DroppedLong'
    <2> SUFFICES ASSUME NEW e \in stored \ raw PROVE \E q \in Retentions : e.day < today' - q
      BY <1>1 DEF DroppedLong
    <2>1. PICK q \in Retentions : e.day < today - q BY DEF DroppedLong
    <2>2. q \in Nat /\ e.day \in Nat OBVIOUS
    <2> QED BY <1>1, <1>2, <2>1, <2>2
  <1>7. PendingYoung'
    <2>1. \A w \in Rollups : at'[w] = "idle" BY <1>1 DEF rollupVars
    <2>2. \A e \in After(watermark)' : e \in Pending BY <1>1 DEF After, Pending, rollupVars
    <2>3. \A e \in After(watermark)' : e.day >= today' - 1 BY <1>1, <1>2, <2>2
    <2> QED BY <2>1, <2>3 DEF PendingYoung
  <1>8. MarksBehind' BY <1>1 DEF MarksBehind, rollupVars, readVars
  <1> QED BY <1>1, <1>3, <1>4, <1>5, <1>6, <1>7, <1>8, RollupsStay DEF RollupInv

LEMMA StoreKeeps == ASSUME RollupInv, Store, InOrder PROVE RollupInv'
  <1> USE FeedTypes
  <1>1. PICK x \in inflight : /\ \A f \in inflight : x.n <= f.n
                              /\ inflight' = inflight \ {x} /\ raw' = raw \cup {x} /\ stored' = stored \cup {x}
    BY DEF Store
  <1>2. UNCHANGED <<received, today, rollupVars>> BY DEF Store, rollupVars
  <1>3. watermark' = watermark /\ tab' = tab /\ at' = at /\ nth' = nth /\ mark' = mark /\ new' = new /\ scope' = scope
        /\ found' = found /\ dead' = dead /\ born' = born /\ crossed' = crossed
    BY <1>2 DEF rollupVars, readVars, txVars
  <1>4. today \in Nat /\ watermark \in Nat /\ \A w \in Rollups : mark[w] \in Nat /\ new[w] \subseteq stored
    BY DEF RollupTyped
  <1>5. x.n <= received /\ x.day = today /\ \A f \in stored : f.n < x.n
    BY DEF StoredInOrder
  <1>6. RollupTyped' BY <1>1, <1>2, <1>3 DEF RollupTyped
  <1>7. EventsTyped' BY <1>1 DEF EventsTyped
  <1>8. StoredInOrder'
    <2>1. \A f \in inflight' : x.n < f.n BY <1>1 DEF StoredInOrder
    <2>2. \A e \in inflight', f \in stored' : f.n < e.n BY <1>1, <2>1 DEF StoredInOrder
    <2>3. x \in stored' /\ \A f \in stored' : f.n <= x.n BY <1>1, <1>5
    <2> QED BY <1>1, <1>2, <2>2, <2>3 DEF StoredInOrder
  <1>9. DroppedLong' BY <1>1, <1>2 DEF DroppedLong
  <1>10. PendingYoung' BY <1>1, <1>2, <1>3, <1>4, <1>5 DEF PendingYoung, After
  <1>11. MarksBehind' BY <1>1, <1>2, <1>3 DEF MarksBehind
  <1>12. (\A w \in Rollups : RollupSound(w))'
    <2> SUFFICES ASSUME NEW w \in Rollups PROVE RollupSound(w)' OBVIOUS
    <2>0. RollupSound(w) BY DEF RollupInv
    <2>1. \A m \in new[w] : m.n < x.n BY <1>4, <1>5
    <2>2. Held(w)' = Held(w) BY <1>3 DEF Held
    <2>3. NewWhole(w)' BY <1>1, <1>3, <1>4, <2>0, <2>1, <2>2, HeldAlike DEF RollupSound, NewWhole
    <2>4. ScopeWhole(w)' BY <1>1, <1>3, <1>4, <2>0, <2>1, <2>2, HeldAlike DEF RollupSound, ScopeWhole
    <2>5. DeletesTouched(w)' BY <1>3, <2>0, <2>2, HeldAlike DEF RollupSound, DeletesTouched
    <2>6. InsertsFresh(w)' BY <1>3, <2>0, <2>2, HeldAlike DEF RollupSound, InsertsFresh
    <2> QED BY <2>3, <2>4, <2>5, <2>6 DEF RollupSound
  <1>13. DaysApart' BY <1>3 DEF RollupInv, DaysApart, InTransaction
  <1>14. RowsKeyed' BY <1>1, <1>3 DEF RollupInv, RowsKeyed
  <1>15. KeysFree' BY <1>3 DEF RollupInv, KeysFree
  <1>16. MarksCounted'
    <2>1. \A e : Has(e)' = Has(e) BY <1>3 DEF Has
    <2>3. CountedTo(watermark)'
      BY <1>1, <1>3, <1>4, <2>1 DEF RollupInv, MarksCounted, CountedTo, MarksBehind
    <2>4. \A w \in Rollups : at'[w] # "idle" => CountedTo(mark[w])'
      BY <1>1, <1>3, <1>4, <2>1 DEF RollupInv, MarksCounted, CountedTo, MarksBehind
    <2> QED BY <2>3, <2>4 DEF MarksCounted
  <1>17. CountedOnce' BY <1>3 DEF RollupInv, CountedOnce
  <1> QED BY <1>6, <1>7, <1>8, <1>9, <1>10, <1>11, <1>12, <1>13, <1>14, <1>15, <1>16, <1>17 DEF RollupInv

-----------------------------------------------------------------------------
(* A rollup takes a step by itself: what it must see to.                   *)

LEMMA OneMoves ==
    ASSUME RollupInv, NEW w \in Rollups, UNCHANGED <<feedVars, watermark, tab>>, crossed \subseteq crossed',
           \A v \in Rollups \ {w} : Held(v)' = Held(v), RollupTyped', RollupSound(w)',
           mark'[w] <= received /\ \A e \in inflight : mark'[w] < e.n,
           at'[w] # "idle" => CountedTo(mark'[w]) /\ \A e \in After(mark'[w]) : e.day >= today - 1,
           InTransaction(w)' => \A v \in Rollups \ {w} :
                                   InTransaction(v) => Days(new'[w]) \cap Days(new[v]) \subseteq crossed',
           \A r \in born'[w] : r.table \in Keyed =>
              /\ \A x \in tab \ dead'[w] : ~SameKey(r, x)
              /\ \A v \in Rollups \ {w} : \A x \in born[v] : ~SameKey(r, x)
    PROVE  RollupInv'
  <1> USE FeedTypes
  <1>1. UNCHANGED <<today, received, inflight, raw, stored, watermark, tab>> BY DEF feedVars
  <1>2. EventsTyped' /\ StoredInOrder' /\ DroppedLong' BY <1>1 DEF EventsTyped, StoredInOrder, DroppedLong
  <1>3. ASSUME NEW v \in Rollups, v # w
        PROVE  /\ at'[v] = at[v] /\ mark'[v] = mark[v] /\ new'[v] = new[v] /\ dead'[v] = dead[v] /\ born'[v] = born[v]
               /\ InTransaction(v)' = InTransaction(v)
    <2>1. Held(v)' = Held(v) BY <1>3
    <2> QED BY <2>1, HeldAlike
  <1>4. PendingYoung' BY <1>1, <1>3 DEF PendingYoung, After
  <1>5. MarksBehind' BY <1>1, <1>3 DEF MarksBehind
  <1>6. (\A v \in Rollups : RollupSound(v))'
    <2> SUFFICES ASSUME NEW v \in Rollups, v # w PROVE RollupSound(v)' OBVIOUS
    <2>1. RollupSound(v) BY DEF RollupInv
    <2>2. Held(v)' = Held(v) OBVIOUS
    <2> QED BY <1>1, <2>1, <2>2, SoundStays
  <1>7. DaysApart'
    <2> SUFFICES ASSUME NEW u \in Rollups, NEW v \in Rollups, u # v, InTransaction(u)', InTransaction(v)'
                 PROVE  Days(new'[u]) \cap Days(new'[v]) \subseteq crossed'
      BY DEF DaysApart, Days
    <2>1. CASE u = w BY <1>3, <2>1 DEF Days
    <2>2. CASE v = w BY <1>3, <2>2 DEF Days
    <2>3. CASE u # w /\ v # w BY <1>3, <2>3 DEF RollupInv, DaysApart, Days
    <2> QED BY <2>1, <2>2, <2>3
  <1>8. RowsKeyed' BY <1>1 DEF RollupInv, RowsKeyed
  <1>9. KeysFree'
    <2> SUFFICES ASSUME NEW u \in Rollups, NEW r \in born'[u], r.table \in Keyed
                 PROVE  /\ \A x \in tab \ dead'[u] : ~SameKey(r, x)
                        /\ \A v \in Rollups \ {u} : \A x \in born'[v] : ~SameKey(r, x)
      BY <1>1 DEF KeysFree
    <2>1. CASE u = w BY <1>3, <2>1
    <2>2. CASE u # w
      <3>1. r \in born[u] /\ dead'[u] = dead[u] BY <1>3, <2>2
      <3>2. \A v \in Rollups \ {u, w} : born'[v] = born[v] BY <1>3
      <3>3. \A x \in born'[w] : ~SameKey(r, x) BY <2>2, <3>1 DEF SameKey
      <3> QED BY <3>1, <3>2, <3>3 DEF RollupInv, KeysFree
    <2> QED BY <2>1, <2>2
  <1>10. \A e : Has(e)' = Has(e) BY <1>1 DEF Has
  <1>11. \A n : CountedTo(n) => CountedTo(n)' BY <1>1, <1>10 DEF CountedTo
  <1>12. MarksCounted'
    <2>1. CountedTo(watermark)' BY <1>1, <1>10 DEF RollupInv, MarksCounted, CountedTo
    <2>2. ASSUME NEW v \in Rollups, at'[v] # "idle" PROVE CountedTo(mark[v])'
      <3>1. CountedTo(mark'[v]) BY <1>3, <2>2 DEF RollupInv, MarksCounted
      <3> QED BY <1>1, <1>10, <3>1 DEF CountedTo
    <2> QED BY <2>1, <2>2 DEF MarksCounted
  <1>13. CountedOnce' BY <1>1 DEF RollupInv, CountedOnce
  <1> QED BY <1>2, <1>4, <1>5, <1>6, <1>7, <1>8, <1>9, <1>12, <1>13 DEF RollupInv

\* What a step finds of the rollup that takes it, and leaves of the others.
LEMMA OneIs ==
    ASSUME RollupInv, NEW w \in Rollups
    PROVE  /\ RollupSound(w) /\ NewWhole(w) /\ ScopeWhole(w) /\ DeletesTouched(w) /\ InsertsFresh(w)
           /\ at[w] \in Stages /\ nth[w] \in 1 .. 3 /\ mark[w] \in Nat /\ today \in Nat /\ watermark \in Nat
           /\ new[w] \subseteq stored /\ scope[w] \subseteq stored
           /\ mark[w] <= received /\ (\A e \in inflight : mark[w] < e.n /\ watermark < e.n) /\ watermark <= received
           /\ at[w] # "idle" => CountedTo(mark[w]) /\ \A e \in After(mark[w]) : e.day >= today - 1
           /\ CountedTo(watermark) /\ \A e \in After(watermark) : e.day >= today - 1
           /\ \A v \in Rollups \ {w} : InTransaction(v) /\ InTransaction(w) => Days(new[w]) \cap Days(new[v]) \subseteq crossed
           /\ \A r \in born[w] : r.table \in Keyed =>
                 /\ \A x \in tab \ dead[w] : ~SameKey(r, x)
                 /\ \A v \in Rollups \ {w} : \A x \in born[v] : ~SameKey(r, x)
  BY DEF RollupInv, RollupSound, RollupTyped, PendingYoung, MarksBehind, MarksCounted, DaysApart, KeysFree

LEMMA BornLate == ASSUME RollupInv, NEW w \in Rollups, at[w] \notin {"insert", "commit"} PROVE born[w] = {}
  <1>1. InsertsFresh(w) BY OneIs
  <1>2. Filled(w) = {} BY DEF Filled
  <1> QED BY <1>1, <1>2 DEF InsertsFresh

\* At rest a rollup holds nothing.
LEMMA RestKeeps ==
    ASSUME RollupInv, NEW w \in Rollups, Rest(w), UNCHANGED <<feedVars, watermark, tab, crossed>>
    PROVE  RollupInv'
  <1>1. /\ at' = [at EXCEPT ![w] = "idle"] /\ nth' = [nth EXCEPT ![w] = 1] /\ mark' = [mark EXCEPT ![w] = 0]
        /\ new' = [new EXCEPT ![w] = {}] /\ scope' = [scope EXCEPT ![w] = {}] /\ found' = [found EXCEPT ![w] = {}]
        /\ dead' = [dead EXCEPT ![w] = {}] /\ born' = [born EXCEPT ![w] = {}]
    BY DEF Rest
  <1>2. RollupTyped BY DEF RollupInv
  <1>3. /\ at'[w] = "idle" /\ mark'[w] = 0 /\ found'[w] = {} /\ dead'[w] = {} /\ born'[w] = {} /\ new'[w] = {}
        /\ \A v \in Rollups \ {w} : Held(v)' = Held(v)
    BY <1>1, <1>2 DEF RollupTyped, Held
  <1>4. UNCHANGED <<today, received, inflight, raw, stored, watermark, tab, crossed>> BY DEF feedVars
  <1>5. RollupTyped' BY <1>1, <1>2, <1>4 DEF RollupTyped, Stages
  <1>6. RollupSound(w)'
    <2>1. ~HasRead(w)' /\ ~InTransaction(w)' BY <1>3 DEF HasRead, InTransaction
    <2>2. Cleared(w)' = {} /\ Filled(w)' = {} BY <1>3 DEF Cleared, Filled
    <2>3. NewWhole(w)' /\ ScopeWhole(w)' BY <2>1 DEF NewWhole, ScopeWhole
    <2>4. DeletesTouched(w)' BY <1>3, <2>2 DEF DeletesTouched
    <2>5. InsertsFresh(w)' BY <1>3, <2>2 DEF InsertsFresh
    <2> QED BY <2>3, <2>4, <2>5 DEF RollupSound
  <1>7. 0 <= received /\ \A e \in inflight : 0 < e.n BY FeedTypes, <1>2 DEF RollupTyped, Received
  <1>8. ~InTransaction(w)' BY <1>3 DEF InTransaction
  <1> QED BY <1>3, <1>4, <1>5, <1>6, <1>7, <1>8, OneMoves

LEMMA BeginKeeps == ASSUME RollupInv, NEW w \in Rollups, Begin(w) PROVE RollupInv'
  <1>1. /\ at[w] = "idle" /\ mark' = [mark EXCEPT ![w] = watermark] /\ at' = [at EXCEPT ![w] = "new"]
        /\ UNCHANGED <<nth, new, scope, found, dead, born, crossed>> /\ UNCHANGED <<feedVars, watermark, tab>>
    BY DEF Begin, txVars
  <1>2. RollupTyped BY DEF RollupInv
  <1>3. at'[w] = "new" /\ mark'[w] = watermark /\ \A v \in Rollups \ {w} : Held(v)' = Held(v)
    BY <1>1, <1>2 DEF RollupTyped, Held
  <1>4. UNCHANGED <<today, received, inflight, raw, stored, watermark, tab>> BY <1>1 DEF feedVars
  <1>5. RollupTyped' BY <1>1, <1>2, <1>4 DEF RollupTyped, Stages
  <1>6. born[w] = {} BY <1>1, BornLate
  <1>7. ~InTransaction(w)' /\ ~InTransaction(w) BY <1>1, <1>3 DEF InTransaction
  <1>8. RollupSound(w)'
    <2>1. ~HasRead(w)' BY <1>3 DEF HasRead, InTransaction
    <2>2. Cleared(w)' = {} /\ Filled(w)' = {} BY <1>3 DEF Cleared, Filled
    <2>3. NewWhole(w)' /\ ScopeWhole(w)' BY <1>7, <2>1 DEF NewWhole, ScopeWhole
    <2>4. found[w] = {} /\ dead[w] = {} BY <1>7, OneIs DEF InsertsFresh
    <2>5. DeletesTouched(w)' BY <1>1, <1>3, <2>2, <2>4 DEF DeletesTouched
    <2>6. InsertsFresh(w)' BY <1>1, <1>6, <2>2, <2>4 DEF InsertsFresh
    <2> QED BY <2>3, <2>5, <2>6 DEF RollupSound
  <1>9. /\ mark'[w] <= received /\ (\A e \in inflight : mark'[w] < e.n) /\ CountedTo(mark'[w])
        /\ \A e \in After(mark'[w]) : e.day >= today - 1
    BY <1>3, OneIs
  <1>10. born'[w] = {} BY <1>1, <1>6
  <1> QED BY <1>1, <1>3, <1>5, <1>7, <1>8, <1>9, <1>10, OneMoves

LEMMA ReadNewKeeps == ASSUME RollupInv, NEW w \in Rollups, ReadNew(w) PROVE RollupInv'
  <1>1. /\ at[w] = "new" /\ new' = [new EXCEPT ![w] = New(w)]
        /\ at' = [at EXCEPT ![w] = IF New(w) = {} THEN "idle" ELSE "raw"]
        /\ UNCHANGED <<nth, mark, scope, found, dead, born, crossed>> /\ UNCHANGED <<feedVars, watermark, tab>>
    BY DEF ReadNew, txVars
  <1>2. RollupTyped /\ raw \subseteq stored BY DEF RollupInv, EventsTyped
  <1>3. /\ at'[w] = (IF New(w) = {} THEN "idle" ELSE "raw") /\ new'[w] = New(w) /\ mark'[w] = mark[w]
        /\ \A v \in Rollups \ {w} : Held(v)' = Held(v)
    BY <1>1, <1>2 DEF RollupTyped, Held
  <1>4. UNCHANGED <<today, received, inflight, raw, stored, watermark, tab>> BY <1>1 DEF feedVars
  <1>5. New(w) \subseteq stored BY <1>2 DEF New
  <1>6. RollupTyped' BY <1>1, <1>2, <1>4, <1>5 DEF RollupTyped, Stages
  <1>7. born[w] = {} BY <1>1, BornLate
  <1>8. ~InTransaction(w)' /\ ~InTransaction(w) BY <1>1, <1>3 DEF InTransaction
  <1>9. \A e \in stored : mark[w] < e.n => e \in New(w)
    <2> SUFFICES ASSUME NEW e \in stored, mark[w] < e.n PROVE e \in raw BY FeedTypes, OneIs DEF New
    <2>1. e \in After(mark[w]) BY FeedTypes, OneIs DEF After
    <2>2. e.day >= today - 1 BY <1>1, <2>1, OneIs
    <2> QED BY <2>2, NotDropped
  <1>10. RollupSound(w)'
    <2>1. NewWhole(w)'
      <3> SUFFICES ASSUME New(w) # {}
                   PROVE  /\ \A e \in New(w) : e.n > mark[w]
                          /\ \E m \in New(w) : \A e \in New(w) : e.n <= m.n
                          /\ \A e \in stored, m \in New(w) : mark[w] < e.n /\ e.n <= m.n => e \in New(w)
        BY <1>3, <1>4, <1>8 DEF NewWhole, HasRead
      <3>1. \A e \in New(w) : e.n > mark[w] BY DEF New
      <3>2. PICK m \in stored : \A e \in stored : e.n <= m.n BY <1>5, FeedTypes DEF StoredInOrder
      <3>3. PICK e \in New(w) : TRUE OBVIOUS
      <3>4. mark[w] < m.n
        <4>1. e.n <= m.n /\ e.n > mark[w] /\ e.n \in Nat /\ m.n \in Nat BY <1>5, <3>1, <3>2, <3>3, FeedTypes
        <4> QED BY <4>1, OneIs
      <3>5. m \in New(w) BY <1>9, <3>2, <3>4
      <3> QED BY <1>5, <1>9, <3>1, <3>2, <3>5
    <2>2. Cleared(w)' = {} /\ Filled(w)' = {} BY <1>3 DEF Cleared, Filled
    <2>3. ScopeWhole(w)' BY <1>8 DEF ScopeWhole
    <2>4. found[w] = {} /\ dead[w] = {} BY <1>8, OneIs DEF InsertsFresh
    <2>5. DeletesTouched(w)' BY <1>1, <1>3, <2>2, <2>4 DEF DeletesTouched
    <2>6. InsertsFresh(w)' BY <1>1, <1>7, <2>2, <2>4 DEF InsertsFresh
    <2> QED BY <2>1, <2>3, <2>5, <2>6 DEF RollupSound
  <1>11. /\ mark'[w] <= received /\ (\A e \in inflight : mark'[w] < e.n) /\ CountedTo(mark'[w])
         /\ \A e \in After(mark'[w]) : e.day >= today - 1
    BY <1>1, <1>3, OneIs
  <1>12. born'[w] = {} BY <1>1, <1>7
  <1> QED BY <1>1, <1>3, <1>6, <1>8, <1>10, <1>11, <1>12, OneMoves

\* Which tables a transaction has deleted from, as it goes.
LEMMA TablesInOrder ==
    /\ Len(DeleteOrder) = 3 /\ Len(InsertOrder) = 3
    /\ {DeleteOrder[i] : i \in 1 .. 3} = Tables /\ {InsertOrder[i] : i \in 1 .. 3} = Tables
    /\ \A i, j \in 1 .. 3 : InsertOrder[i] = InsertOrder[j] => i = j
  <1>1. /\ Len(DeleteOrder) = 3 /\ DeleteOrder[1] = "agg_search_daily" /\ DeleteOrder[2] = "agg_funnel_daily"
        /\ DeleteOrder[3] = "agg_place_hourly"
    BY DEF DeleteOrder
  <1>2. /\ Len(InsertOrder) = 3 /\ InsertOrder[1] = "agg_place_hourly" /\ InsertOrder[2] = "agg_search_daily"
        /\ InsertOrder[3] = "agg_funnel_daily"
    BY DEF InsertOrder
  <1>3. \A i \in 1 .. 3 : i = 1 \/ i = 2 \/ i = 3 OBVIOUS
  <1>4. {DeleteOrder[i] : i \in 1 .. 3} = Tables
    <2>1. {DeleteOrder[i] : i \in 1 .. 3} \subseteq Tables BY <1>1, <1>3 DEF Tables
    <2>2. Tables \subseteq {DeleteOrder[i] : i \in 1 .. 3} BY <1>1 DEF Tables
    <2> QED BY <2>1, <2>2
  <1>5. {InsertOrder[i] : i \in 1 .. 3} = Tables
    <2>1. {InsertOrder[i] : i \in 1 .. 3} \subseteq Tables BY <1>2, <1>3 DEF Tables
    <2>2. Tables \subseteq {InsertOrder[i] : i \in 1 .. 3} BY <1>2 DEF Tables
    <2> QED BY <2>1, <2>2
  <1>6. \A i, j \in 1 .. 3 : InsertOrder[i] = InsertOrder[j] => i = j BY <1>2, <1>3
  <1> QED BY <1>1, <1>2, <1>4, <1>5, <1>6

LEMMA ReadRawKeeps == ASSUME RollupInv, NEW w \in Rollups, ReadRaw(w) PROVE RollupInv'
  <1>1. /\ at[w] = "raw" /\ scope' = [scope EXCEPT ![w] = Scope(w)]
        /\ at' = [at EXCEPT ![w] = "find"] /\ nth' = [nth EXCEPT ![w] = 1]
        /\ crossed' = crossed \cup UNION {Days(new[w]) \cap Days(new[v]) : v \in {x \in Rollups \ {w} : InTransaction(x)}}
        /\ UNCHANGED <<mark, new, found, dead, born>> /\ UNCHANGED <<feedVars, watermark, tab>>
    BY DEF ReadRaw, txVars
  <1>2. RollupTyped /\ raw \subseteq stored BY DEF RollupInv, EventsTyped
  <1>3. /\ at'[w] = "find" /\ nth'[w] = 1 /\ scope'[w] = Scope(w)
        /\ \A v \in Rollups \ {w} : Held(v)' = Held(v)
    BY <1>1, <1>2 DEF RollupTyped, Held
  <1>4. UNCHANGED <<today, received, inflight, raw, stored, watermark, tab>> BY <1>1 DEF feedVars
  <1>5. Scope(w) \subseteq stored BY <1>2 DEF Scope
  <1>6. RollupTyped'
    <2>1. nth' \in [Rollups -> 1 .. 3] BY <1>1, <1>2 DEF RollupTyped
    <2>2. at' \in [Rollups -> Stages] BY <1>1, <1>2 DEF RollupTyped, Stages
    <2>3. scope' \in [Rollups -> SUBSET stored] BY <1>1, <1>2, <1>5 DEF RollupTyped
    <2> QED BY <1>1, <1>2, <1>4, <2>1, <2>2, <2>3 DEF RollupTyped
  <1>7. born[w] = {} BY <1>1, BornLate
  <1>8. InTransaction(w)' /\ ~InTransaction(w) /\ HasRead(w) BY <1>1, <1>3 DEF InTransaction, HasRead
  <1>9. crossed \subseteq crossed' BY <1>1
  <1>10. \A v \in Rollups \ {w} : InTransaction(v) => Days(new[w]) \cap Days(new[v]) \subseteq crossed'
    BY <1>1
  <1>11. \A e \in stored : e.local \in Days(new[w]) => e \in Scope(w)
    <2> SUFFICES ASSUME NEW e \in stored, e.local \in Days(new[w]) PROVE e \in raw BY DEF Scope
    <2>1. PICK x \in new[w] : x.local = e.local BY DEF Days
    <2>2. x \in stored /\ x.n > mark[w] BY <1>8, OneIs DEF NewWhole
    <2>3. x \in After(mark[w]) BY <2>2 DEF After
    <2>4. x.day >= today - 1 BY <1>1, <2>3, OneIs
    <2> QED BY <2>1, <2>2, <2>4, NotDropped
  <1>12. RollupSound(w)'
    <2>1. NewWhole(w)' BY <1>1, <1>4, <1>8, OneIs DEF NewWhole, HasRead
    <2>2. ScopeWhole(w)'
      <3>1. \A r \in tab : \A e \in r.events : e \in stored BY DEF RollupInv, RowsKeyed
      <3> QED BY <1>1, <1>3, <1>4, <1>11, <3>1 DEF ScopeWhole, Days
    <2>3. Cleared(w)' = {} /\ Filled(w)' = {} BY <1>3 DEF Cleared, Filled
    <2>4. found[w] = {} /\ dead[w] = {} BY <1>8, OneIs DEF InsertsFresh
    <2>5. DeletesTouched(w)' BY <1>1, <1>3, <2>3, <2>4 DEF DeletesTouched
    <2>6. InsertsFresh(w)' BY <1>1, <1>7, <2>3, <2>4 DEF InsertsFresh
    <2> QED BY <2>1, <2>2, <2>5, <2>6 DEF RollupSound
  <1>13. /\ mark'[w] <= received /\ (\A e \in inflight : mark'[w] < e.n) /\ CountedTo(mark'[w])
         /\ \A e \in After(mark'[w]) : e.day >= today - 1
    BY <1>1, OneIs
  <1>14. born'[w] = {} /\ new'[w] = new[w] BY <1>1, <1>7
  <1> QED BY <1>1, <1>3, <1>6, <1>9, <1>10, <1>12, <1>13, <1>14, OneMoves

LEMMA FindKeeps == ASSUME RollupInv, NEW w \in Rollups, Find(w) PROVE RollupInv'
  <1> DEFINE t == DeleteOrder[nth[w]]
             rows == {r \in tab : r.table = t /\ r.key \in Touched(t, new[w])}
  <1>1. /\ at[w] = "find" /\ found' = [found EXCEPT ![w] = rows]
        /\ at' = [at EXCEPT ![w] = "delete"]
        /\ UNCHANGED <<nth, mark, new, scope, dead, born, crossed>> /\ UNCHANGED <<feedVars, watermark, tab>>
    BY DEF Find, readVars
  <1>2. RollupTyped BY DEF RollupInv
  <1>3. /\ at'[w] = "delete" /\ nth'[w] = nth[w] /\ found'[w] = rows
        /\ \A v \in Rollups \ {w} : Held(v)' = Held(v)
    BY <1>1, <1>2 DEF RollupTyped, Held
  <1>4. UNCHANGED <<today, received, inflight, raw, stored, watermark, tab>> BY <1>1 DEF feedVars
  <1>5. RollupTyped' BY <1>1, <1>2, <1>4 DEF RollupTyped, Stages
  <1>6. born[w] = {} BY <1>1, BornLate
  <1>7. InTransaction(w)' /\ InTransaction(w) /\ HasRead(w) BY <1>1, <1>3 DEF InTransaction, HasRead
  <1>8. t \in Tables
    <2>1. nth[w] \in 1 .. 3 BY OneIs
    <2> QED BY <2>1, TablesInOrder
  <1>9. RollupSound(w)'
    <2>1. NewWhole(w)' BY <1>1, <1>4, <1>7, OneIs DEF NewWhole, HasRead
    <2>2. ScopeWhole(w)' BY <1>1, <1>4, <1>7, OneIs DEF ScopeWhole
    <2>3. Cleared(w)' = Cleared(w) /\ Filled(w)' = {} /\ Filled(w) = {} BY <1>1, <1>3 DEF Cleared, Filled
    <2>4. \A r : TouchedBy(w, r)' = TouchedBy(w, r) BY <1>1 DEF TouchedBy, Touched
    <2>5. \A r \in rows : TouchedBy(w, r) BY <1>8 DEF TouchedBy
    <2>6. \A r \in tab : TouchedBy(w, r) /\ r.table = t => r \in rows BY DEF TouchedBy
    <2>7. DeletesTouched(w) BY OneIs
    <2>8. \A r \in found'[w] \cup dead'[w] : TouchedBy(w, r)' BY <1>1, <1>3, <2>4, <2>5, <2>7 DEF DeletesTouched
    <2>9. \A r \in tab' : TouchedBy(w, r)' /\ r.key[1] \notin crossed' =>
             /\ r.table \in Cleared(w)' => r \in dead'[w]
             /\ at'[w] = "delete" /\ r.table = DeleteOrder[nth'[w]] => r \in found'[w]
      BY <1>1, <1>3, <1>4, <2>3, <2>4, <2>6, <2>7 DEF DeletesTouched
    <2>10. DeletesTouched(w)' BY <2>8, <2>9 DEF DeletesTouched
    <2>11. InsertsFresh(w)' BY <1>1, <1>6, <1>7, <2>3 DEF InsertsFresh
    <2> QED BY <2>1, <2>2, <2>10, <2>11 DEF RollupSound
  <1>10. /\ mark'[w] <= received /\ (\A e \in inflight : mark'[w] < e.n) /\ CountedTo(mark'[w])
         /\ \A e \in After(mark'[w]) : e.day >= today - 1
    BY <1>1, OneIs
  <1>11. born'[w] = {} /\ new'[w] = new[w] BY <1>1, <1>6
  <1>12. \A v \in Rollups \ {w} : InTransaction(v) => Days(new'[w]) \cap Days(new[v]) \subseteq crossed'
    BY <1>1, <1>7, OneIs
  <1> QED BY <1>1, <1>3, <1>5, <1>9, <1>10, <1>11, <1>12, OneMoves

LEMMA DeleteKeeps == ASSUME RollupInv, NEW w \in Rollups, Delete(w) PROVE RollupInv'
  <1>1. /\ at[w] = "delete" /\ dead' = [dead EXCEPT ![w] = @ \cup (found[w] \cap tab)]
        /\ found' = [found EXCEPT ![w] = {}]
        /\ \/ /\ nth[w] < Len(DeleteOrder)
              /\ nth' = [nth EXCEPT ![w] = @ + 1] /\ at' = [at EXCEPT ![w] = "find"]
           \/ /\ ~(nth[w] < Len(DeleteOrder))
              /\ nth' = [nth EXCEPT ![w] = 1] /\ at' = [at EXCEPT ![w] = "insert"]
        /\ UNCHANGED <<mark, new, scope, born, crossed>> /\ UNCHANGED <<feedVars, watermark, tab>>
    BY DEF Delete, readVars
  <1>2. RollupTyped BY DEF RollupInv
  <1>3. /\ dead'[w] = dead[w] \cup (found[w] \cap tab) /\ found'[w] = {}
        /\ \/ nth[w] < 3 /\ nth'[w] = nth[w] + 1 /\ at'[w] = "find"
           \/ nth[w] = 3 /\ nth'[w] = 1 /\ at'[w] = "insert"
        /\ \A v \in Rollups \ {w} : Held(v)' = Held(v)
    <2>1. \A v \in Rollups \ {w} : Held(v)' = Held(v) BY <1>1, <1>2 DEF RollupTyped, Held
    <2>2. Len(DeleteOrder) = 3 /\ nth[w] \in 1 .. 3 BY TablesInOrder, OneIs
    <2>3. dead'[w] = dead[w] \cup (found[w] \cap tab) /\ found'[w] = {} BY <1>1, <1>2 DEF RollupTyped
    <2> QED BY <1>1, <1>2, <2>1, <2>2, <2>3 DEF RollupTyped
  <1>4. UNCHANGED <<today, received, inflight, raw, stored, watermark, tab>> BY <1>1 DEF feedVars
  <1>5. RollupTyped'
    <2>1. nth' \in [Rollups -> 1 .. 3]
      <3>1. nth[w] \in 1 .. 3 /\ Len(DeleteOrder) = 3 BY OneIs, TablesInOrder
      <3> QED BY <1>1, <1>2, <3>1 DEF RollupTyped
    <2>2. at' \in [Rollups -> Stages] BY <1>1, <1>2 DEF RollupTyped, Stages
    <2>3. DOMAIN dead' = Rollups /\ DOMAIN found' = Rollups BY <1>1, <1>2 DEF RollupTyped
    <2> QED BY <1>1, <1>2, <1>4, <2>1, <2>2, <2>3 DEF RollupTyped
  <1>6. born[w] = {} BY <1>1, BornLate
  <1>7. InTransaction(w)' /\ InTransaction(w) /\ HasRead(w) BY <1>1, <1>3 DEF InTransaction, HasRead
  <1>8. Cleared(w)' \subseteq Cleared(w) \cup {DeleteOrder[nth[w]]}
    <2>1. nth[w] \in 1 .. 3 BY OneIs
    <2>2. Cleared(w) = {DeleteOrder[i] : i \in 1 .. (nth[w] - 1)} BY <1>1 DEF Cleared
    <2>3. CASE nth[w] < 3
      <3>1. Cleared(w)' = {DeleteOrder[i] : i \in 1 .. nth[w]} BY <1>3, <2>1, <2>3 DEF Cleared
      <3> QED BY <2>1, <2>2, <3>1
    <2>4. CASE nth[w] = 3
      <3>1. Cleared(w)' = {DeleteOrder[i] : i \in 1 .. 3} BY <1>3, <2>1, <2>4, TablesInOrder DEF Cleared
      <3> QED BY <2>2, <2>4, <3>1
    <2> QED BY <2>1, <2>3, <2>4
  <1>9. RollupSound(w)'
    <2>1. NewWhole(w)' BY <1>1, <1>4, <1>7, OneIs DEF NewWhole, HasRead
    <2>2. ScopeWhole(w)' BY <1>1, <1>4, <1>7, OneIs DEF ScopeWhole
    <2>3. Filled(w)' = {} /\ Filled(w) = {} BY <1>1, <1>3 DEF Filled
    <2>4. \A r : TouchedBy(w, r)' = TouchedBy(w, r) BY <1>1 DEF TouchedBy, Touched
    <2>5. DeletesTouched(w) BY OneIs
    <2>6. \A r \in found'[w] \cup dead'[w] : TouchedBy(w, r)' BY <1>3, <2>4, <2>5 DEF DeletesTouched
    <2>7. \A r \in tab' : TouchedBy(w, r)' /\ r.key[1] \notin crossed' =>
             /\ r.table \in Cleared(w)' => r \in dead'[w]
             /\ at'[w] = "delete" /\ r.table = DeleteOrder[nth'[w]] => r \in found'[w]
      <3> SUFFICES ASSUME NEW r \in tab, TouchedBy(w, r), r.key[1] \notin crossed, r.table \in Cleared(w)'
                   PROVE  r \in dead'[w]
        BY <1>1, <1>3, <1>4, <2>4
      <3>1. CASE r.table \in Cleared(w) BY <1>3, <2>5, <3>1 DEF DeletesTouched
      <3>2. CASE r.table = DeleteOrder[nth[w]] BY <1>1, <1>3, <2>5, <3>2 DEF DeletesTouched
      <3> QED BY <1>8, <3>1, <3>2
    <2>8. DeletesTouched(w)' BY <2>6, <2>7 DEF DeletesTouched
    <2>9. InsertsFresh(w)' BY <1>1, <1>6, <1>7, <2>3 DEF InsertsFresh
    <2> QED BY <2>1, <2>2, <2>8, <2>9 DEF RollupSound
  <1>10. /\ mark'[w] <= received /\ (\A e \in inflight : mark'[w] < e.n) /\ CountedTo(mark'[w])
         /\ \A e \in After(mark'[w]) : e.day >= today - 1
    BY <1>1, OneIs
  <1>11. born'[w] = {} /\ new'[w] = new[w] BY <1>1, <1>6
  <1>12. \A v \in Rollups \ {w} : InTransaction(v) => Days(new'[w]) \cap Days(new[v]) \subseteq crossed'
    BY <1>1, <1>7, OneIs
  <1> QED BY <1>1, <1>3, <1>5, <1>9, <1>10, <1>11, <1>12, OneMoves

LEMMA InsertKeeps == ASSUME RollupInv, NEW w \in Rollups, Insert(w) PROVE RollupInv'
  <1> DEFINE t == InsertOrder[nth[w]]
  <1>1. CASE Rest(w)
    <2>1. UNCHANGED <<feedVars, watermark, tab, crossed>> BY DEF Insert
    <2> QED BY <1>1, <2>1, RestKeeps
  <1>2. CASE ~Rest(w)
    <2>1. /\ at[w] = "insert" /\ ~Clashes(w, t) /\ \A v \in Rollups \ {w} : ~Blocks(v, w)
          /\ born' = [born EXCEPT ![w] = @ \cup Fresh(w, t)]
          /\ \/ nth[w] < Len(InsertOrder) /\ nth' = [nth EXCEPT ![w] = @ + 1] /\ at' = at
             \/ ~(nth[w] < Len(InsertOrder)) /\ nth' = nth /\ at' = [at EXCEPT ![w] = "commit"]
          /\ UNCHANGED <<mark, new, scope, found, dead, crossed>> /\ UNCHANGED <<feedVars, watermark, tab>>
      BY <1>2 DEF Insert, readVars
    <2>2. RollupTyped BY DEF RollupInv
    <2>3. nth[w] \in 1 .. 3 /\ Len(InsertOrder) = 3 BY OneIs, TablesInOrder
    <2>4. t \in Tables BY <2>3, TablesInOrder
    <2>5. /\ born'[w] = born[w] \cup Fresh(w, t)
          /\ \/ nth[w] < 3 /\ nth'[w] = nth[w] + 1 /\ at'[w] = "insert"
             \/ nth[w] = 3 /\ at'[w] = "commit"
          /\ \A v \in Rollups \ {w} : Held(v)' = Held(v)
      <3>1. \A v \in Rollups \ {w} : Held(v)' = Held(v) BY <2>1, <2>2 DEF RollupTyped, Held
      <3>2. born'[w] = born[w] \cup Fresh(w, t) BY <2>1, <2>2 DEF RollupTyped
      <3> QED BY <2>1, <2>2, <2>3, <3>1, <3>2 DEF RollupTyped
    <2>6. UNCHANGED <<today, received, inflight, raw, stored, watermark, tab>> BY <2>1 DEF feedVars
    <2>7. RollupTyped'
      <3>1. nth' \in [Rollups -> 1 .. 3] BY <2>1, <2>2, <2>3 DEF RollupTyped
      <3>2. at' \in [Rollups -> Stages] BY <2>1, <2>2 DEF RollupTyped, Stages
      <3>3. DOMAIN born' = Rollups BY <2>1, <2>2 DEF RollupTyped
      <3> QED BY <2>1, <2>2, <2>6, <3>1, <3>2, <3>3 DEF RollupTyped
    <2>8. InTransaction(w)' /\ InTransaction(w) /\ HasRead(w) BY <2>1, <2>5 DEF InTransaction, HasRead
    <2>9. Filled(w)' = Filled(w) \cup {t}
      <3>1. Filled(w) = {InsertOrder[i] : i \in 1 .. (nth[w] - 1)} BY <2>1 DEF Filled
      <3>2. CASE nth[w] < 3
        <4>1. Filled(w)' = {InsertOrder[i] : i \in 1 .. nth[w]} BY <2>3, <2>5, <3>2 DEF Filled
        <4> QED BY <2>3, <3>1, <4>1
      <3>3. CASE nth[w] = 3
        <4>1. Filled(w)' = {InsertOrder[i] : i \in 1 .. 3} BY <2>5, <3>3, TablesInOrder DEF Filled
        <4> QED BY <3>1, <3>3, <4>1
      <3> QED BY <2>3, <3>2, <3>3
    <2>10. \A r \in Fresh(w, t) : r.table = t BY DEF Fresh
    <2>11. \A u : Fresh(w, u)' = Fresh(w, u) BY <2>1 DEF Fresh, Filling, Touched
    <2>12. RollupSound(w)'
      <3>1. NewWhole(w)' BY <2>1, <2>6, <2>8, OneIs DEF NewWhole, HasRead
      <3>2. ScopeWhole(w)' BY <2>1, <2>6, <2>8, OneIs DEF ScopeWhole
      <3>3. Cleared(w)' = Tables /\ Cleared(w) = Tables BY <2>1, <2>5 DEF Cleared
      <3>4. \A r : TouchedBy(w, r)' = TouchedBy(w, r) BY <2>1 DEF TouchedBy, Touched
      <3>5. DeletesTouched(w)' BY <2>1, <2>5, <2>6, <3>3, <3>4, OneIs DEF DeletesTouched
      <3>6. \A u \in Tables : {r \in born'[w] : r.table = u} = IF u \in Filled(w)' THEN Fresh(w, u)' ELSE {}
        <4> SUFFICES ASSUME NEW u \in Tables
                     PROVE  {r \in born'[w] : r.table = u} = IF u \in Filled(w)' THEN Fresh(w, u) ELSE {}
          BY <2>11
        <4>1. {r \in born[w] : r.table = u} = IF u \in Filled(w) THEN Fresh(w, u) ELSE {} BY OneIs DEF InsertsFresh
        <4>2. CASE u = t
          <5>1. {r \in born'[w] : r.table = u} = {r \in born[w] : r.table = u} \cup Fresh(w, t) BY <2>5, <2>10, <4>2
          <5> QED BY <2>9, <4>1, <4>2, <5>1
        <4>3. CASE u # t
          <5>1. {r \in born'[w] : r.table = u} = {r \in born[w] : r.table = u} BY <2>5, <2>10, <4>3
          <5> QED BY <2>9, <4>1, <4>3, <5>1
        <4> QED BY <4>2, <4>3
      <3>7. \A r \in born'[w] : r.table \in Tables BY <2>4, <2>5, <2>10, OneIs DEF InsertsFresh
      <3>8. InsertsFresh(w)' BY <2>8, <3>6, <3>7 DEF InsertsFresh
      <3> QED BY <3>1, <3>2, <3>5, <3>8 DEF RollupSound
    <2>13. /\ mark'[w] <= received /\ (\A e \in inflight : mark'[w] < e.n) /\ CountedTo(mark'[w])
           /\ \A e \in After(mark'[w]) : e.day >= today - 1
      BY <2>1, OneIs
    <2>14. \A v \in Rollups \ {w} : InTransaction(v) => Days(new'[w]) \cap Days(new[v]) \subseteq crossed'
      BY <2>1, <2>8, OneIs
    <2>15. ASSUME NEW r \in born'[w], r.table \in Keyed
           PROVE  /\ \A x \in tab \ dead'[w] : ~SameKey(r, x)
                  /\ \A v \in Rollups \ {w} : \A x \in born[v] : ~SameKey(r, x)
      <3>1. CASE r \in born[w] BY <2>1, <2>15, <3>1, OneIs
      <3>2. CASE r \in Fresh(w, t)
        <4>1. t \in Keyed BY <2>10, <2>15, <3>2
        <4>2. \A x \in tab \ dead[w] : ~SameKey(r, x) BY <2>1, <2>10, <3>2, <4>1 DEF Clashes, SameKey
        <4>3. \A v \in Rollups \ {w} : \A x \in born[v] : ~SameKey(r, x)
          BY <2>1, <3>2, <4>1 DEF Blocks, SameKey
        <4> QED BY <2>1, <4>2, <4>3
      <3> QED BY <2>5, <3>1, <3>2
    <2> QED BY <2>1, <2>5, <2>7, <2>12, <2>13, <2>14, <2>15, OneMoves
  <1> QED BY <1>1, <1>2

LEMMA DeadlockKeeps == ASSUME RollupInv, NEW w \in Rollups, Deadlock(w) PROVE RollupInv'
  BY RestKeeps DEF Deadlock

LEMMA FailKeeps == ASSUME RollupInv, NEW w \in Rollups, Fail(w) PROVE RollupInv'
  BY RestKeeps DEF Fail

-----------------------------------------------------------------------------
(* A transaction commits.                                                  *)

LEMMA KeysOfDays ==
    ASSUME NEW t, NEW es
    PROVE  /\ \A e : Key(t, e)[1] = e.local
           /\ \A key \in Touched(t, es) : key[1] \in Days(es)
           /\ \A e \in es : Key(t, e) \in Touched(t, es)
  BY DEF Key, Touched, Days

\* What it has inserted: of every key it touches, the events it has aggregated.
LEMMA BornRows ==
    ASSUME RollupInv, NEW w \in Rollups, at[w] = "commit"
    PROVE  /\ \A r \in born[w] : /\ TouchedBy(w, r) /\ r.key[1] \in Days(new[w])
                                 /\ \A e \in r.events : e \in scope[w] /\ e \in stored /\ Key(r.table, e) = r.key
           /\ \A t \in Tables : \A e \in scope[w] : Fills(t, e) /\ Key(t, e) \in Touched(t, new[w]) =>
                 \E r \in born[w] : r.table = t /\ r.key = Key(t, e) /\ e \in r.events
           /\ \A r, s \in born[w] : SameKey(r, s) => r = s
  <1>1. Filled(w) = Tables BY DEF Filled
  <1>2. InsertsFresh(w) /\ scope[w] \subseteq stored BY OneIs
  <1>3. \A t \in Tables : {r \in born[w] : r.table = t} = Fresh(w, t) BY <1>1, <1>2 DEF InsertsFresh
  <1>4. \A r \in born[w] : r.table \in Tables BY <1>2 DEF InsertsFresh
  <1>5. ASSUME NEW r \in born[w]
        PROVE  r.key \in Touched(r.table, new[w])
               /\ r = [table |-> r.table, key |-> r.key, events |-> Filling(r.table, r.key, scope[w]), by |-> w]
    <2>1. r \in Fresh(w, r.table) BY <1>3, <1>4
    <2> QED BY <2>1 DEF Fresh
  <1>6. ASSUME NEW r \in born[w]
        PROVE  /\ TouchedBy(w, r) /\ r.key[1] \in Days(new[w])
               /\ \A e \in r.events : e \in scope[w] /\ e \in stored /\ Key(r.table, e) = r.key
    <2>1. TouchedBy(w, r) BY <1>4, <1>5 DEF TouchedBy
    <2>2. r.key[1] \in Days(new[w]) BY <1>5, KeysOfDays
    <2>3. r.events = Filling(r.table, r.key, scope[w]) BY <1>5
    <2>4. \A e \in r.events : e \in scope[w] /\ Key(r.table, e) = r.key BY <2>3 DEF Filling
    <2> QED BY <1>2, <2>1, <2>2, <2>4
  <1>7. ASSUME NEW t \in Tables, NEW e \in scope[w], Fills(t, e), Key(t, e) \in Touched(t, new[w])
        PROVE  \E r \in born[w] : r.table = t /\ r.key = Key(t, e) /\ e \in r.events
    <2>1. e \in Filling(t, Key(t, e), scope[w]) BY <1>7 DEF Filling
    <2>2. PICK r : r = [table |-> t, key |-> Key(t, e), events |-> Filling(t, Key(t, e), scope[w]), by |-> w] OBVIOUS
    <2>3. r \in Fresh(w, t) BY <1>7, <2>1, <2>2 DEF Fresh
    <2>4. r \in born[w] BY <1>3, <2>3
    <2> QED BY <2>1, <2>2, <2>4
  <1>8. \A r, s \in born[w] : SameKey(r, s) => r = s BY <1>5 DEF SameKey
  <1> QED BY <1>6, <1>7, <1>8

LEMMA TopIs ==
    ASSUME RollupInv, NEW w \in Rollups, HasRead(w)
    PROVE  \E m \in new[w] : /\ \A e \in new[w] : e.n <= m.n
                             /\ Top(w) = m.n /\ m \in stored /\ m.n \in Nat /\ m.n > mark[w]
  <1>1. PICK m \in new[w] : \A e \in new[w] : e.n <= m.n BY OneIs DEF NewWhole
  <1>2. new[w] \in SUBSET Received /\ m \in stored
    <2>1. stored \subseteq Received BY DEF RollupInv, EventsTyped
    <2> QED BY <2>1, OneIs
  <1>3. Top(w) = m.n BY <1>1, <1>2, LatestIs DEF Top
  <1>4. m.n > mark[w] BY OneIs DEF NewWhole
  <1> QED BY <1>1, <1>2, <1>3, <1>4 DEF Received

\* What counts an event goes only for what counts it again.
LEMMA CountedStays ==
    ASSUME RollupInv, NEW w \in Rollups, Commit(w), NEW e \in stored, e.local \notin crossed, Has(e)
    PROVE  Has(e)'
  <1>1. at[w] = "commit" /\ tab' = (tab \ dead[w]) \cup born[w] BY DEF Commit
  <1>2. SUFFICES ASSUME NEW t \in Tables, Fills(t, e)
                 PROVE  \E r \in tab' : r.table = t /\ r.key = Key(t, e) /\ e \in r.events
    BY DEF Has
  <1>3. PICK r \in tab : r.table = t /\ r.key = Key(t, e) /\ e \in r.events BY <1>2 DEF Has
  <1>4. CASE r \notin dead[w] BY <1>1, <1>3, <1>4
  <1>5. CASE r \in dead[w]
    <2>1. TouchedBy(w, r) BY <1>5, OneIs DEF DeletesTouched
    <2>2. Key(t, e) \in Touched(t, new[w]) BY <1>3, <2>1 DEF TouchedBy
    <2>3. e.local \in Days(new[w]) BY <2>2, KeysOfDays
    <2>4. InTransaction(w) BY <1>1 DEF InTransaction
    <2>5. e \in scope[w] BY <1>3, <2>3, <2>4, OneIs DEF ScopeWhole
    <2>6. PICK s \in born[w] : s.table = t /\ s.key = Key(t, e) /\ e \in s.events
      BY <1>1, <1>2, <2>2, <2>5, BornRows
    <2> QED BY <1>1, <2>6
  <1> QED BY <1>4, <1>5

\* Up to its newest every event is counted, by the transaction or since before its mark.
LEMMA TopCounted ==
    ASSUME RollupInv, NEW w \in Rollups, Commit(w), NEW e \in stored, e.n <= Top(w), e.local \notin crossed
    PROVE  Has(e)'
  <1>1. at[w] = "commit" /\ tab' = (tab \ dead[w]) \cup born[w] BY DEF Commit
  <1>2. InTransaction(w) /\ HasRead(w) BY <1>1 DEF InTransaction, HasRead
  <1>3. PICK m \in new[w] : Top(w) = m.n BY <1>2, TopIs
  <1>4. CASE e.n <= mark[w]
    <2>1. Has(e) BY <1>1, <1>4, OneIs DEF CountedTo
    <2> QED BY <2>1, CountedStays
  <1>5. CASE mark[w] < e.n
    <2>1. e \in new[w] BY <1>2, <1>3, <1>5, OneIs DEF NewWhole
    <2>2. e.local \in Days(new[w]) BY <2>1 DEF Days
    <2>3. e \in scope[w] BY <1>2, <1>3, <2>2, OneIs DEF ScopeWhole
    <2>4. \A t \in Tables : Key(t, e) \in Touched(t, new[w]) BY <2>1, KeysOfDays
    <2>5. \A t \in Tables : Fills(t, e) => \E r \in born[w] : r.table = t /\ r.key = Key(t, e) /\ e \in r.events
      BY <1>1, <2>3, <2>4, BornRows
    <2> QED BY <1>1, <2>5 DEF Has
  <1>6. e.n \in Nat /\ mark[w] \in Nat BY OneIs, FeedTypes
  <1> QED BY <1>4, <1>5, <1>6

\* The rows a transaction has inserted lie beside none that count the same.
LEMMA OnceStays == ASSUME RollupInv, NEW w \in Rollups, Commit(w), crossed' = crossed PROVE CountedOnce'
  <1>1. at[w] = "commit" /\ tab' = (tab \ dead[w]) \cup born[w] BY DEF Commit
  <1>2. \A r \in born[w] : TouchedBy(w, r) /\ r.table \in Tables /\ (\A s \in born[w] : SameKey(r, s) => r = s)
    BY <1>1, BornRows DEF TouchedBy
  <1>3. Cleared(w) = Tables BY <1>1 DEF Cleared
  <1>4. ASSUME NEW r \in tab \ dead[w], NEW s \in born[w], SameKey(r, s)
        PROVE  r.table \notin Keyed /\ r.key[1] \in crossed
    <2>1. r.table \notin Keyed
      <3>1. \A x \in tab \ dead[w] : s.table \in Keyed => ~SameKey(s, x) BY OneIs
      <3> QED BY <1>4, <3>1 DEF SameKey
    <2>2. TouchedBy(w, r) /\ r.table \in Tables BY <1>2, <1>4 DEF SameKey, TouchedBy
    <2>3. r.key[1] \in crossed BY <1>3, <2>2, OneIs DEF DeletesTouched
    <2> QED BY <2>1, <2>3
  <1>5. \A r, s \in tab \ dead[w] : SameKey(r, s) => r = s \/ (r.table \notin Keyed /\ r.key[1] \in crossed)
    BY DEF RollupInv, CountedOnce, SameKey
  <1>6. \A r, s \in born[w] : SameKey(r, s) => r = s BY <1>2
  <1>7. \A r \in born[w], s \in tab \ dead[w] : SameKey(r, s) => r.table \notin Keyed /\ r.key[1] \in crossed
    BY <1>4 DEF SameKey
  <1>8. \A r, s \in tab' : SameKey(r, s) => r = s \/ (r.table \notin Keyed /\ r.key[1] \in crossed)
    BY <1>1, <1>4, <1>5, <1>6, <1>7
  <1> QED BY <1>8 DEF CountedOnce, SameKey

LEMMA CommitKeeps == ASSUME RollupInv, NEW w \in Rollups, Commit(w) PROVE RollupInv'
  <1> USE FeedTypes
  <1>1. /\ at[w] = "commit" /\ tab' = (tab \ dead[w]) \cup born[w] /\ watermark' = Top(w)
        /\ UNCHANGED <<today, received, inflight, raw, stored, crossed>>
        /\ at' = [at EXCEPT ![w] = "idle"] /\ nth' = [nth EXCEPT ![w] = 1] /\ mark' = [mark EXCEPT ![w] = 0]
        /\ new' = [new EXCEPT ![w] = {}] /\ scope' = [scope EXCEPT ![w] = {}] /\ found' = [found EXCEPT ![w] = {}]
        /\ dead' = [dead EXCEPT ![w] = {}] /\ born' = [born EXCEPT ![w] = {}]
    BY DEF Commit, Rest, feedVars
  <1>2. /\ at'[w] = "idle" /\ mark'[w] = 0 /\ found'[w] = {} /\ dead'[w] = {} /\ born'[w] = {} /\ new'[w] = {}
        /\ \A v \in Rollups \ {w} : Held(v)' = Held(v)
    BY <1>1 DEF RollupTyped, Held
  <1>3. InTransaction(w) /\ HasRead(w) BY <1>1 DEF InTransaction, HasRead
  <1>4. PICK m \in new[w] : Top(w) = m.n /\ m \in stored /\ m.n \in Nat /\ m.n > mark[w] BY <1>3, TopIs
  <1>5. RollupTyped' BY <1>1, <1>4 DEF RollupTyped, Stages
  <1>6. EventsTyped' /\ StoredInOrder' /\ DroppedLong' BY <1>1 DEF EventsTyped, StoredInOrder, DroppedLong
  <1>7. ASSUME NEW v \in Rollups, v # w
        PROVE  /\ at'[v] = at[v] /\ mark'[v] = mark[v] /\ new'[v] = new[v] /\ dead'[v] = dead[v] /\ born'[v] = born[v]
               /\ InTransaction(v)' = InTransaction(v)
    <2>1. Held(v)' = Held(v) BY <1>2, <1>7
    <2> QED BY <2>1, HeldAlike
  <1>8. PendingYoung'
    <2>1. \A e \in After(watermark)' : e.day >= today - 1
      <3> SUFFICES ASSUME NEW e \in stored, e.n > m.n PROVE e.day >= today - 1 BY <1>1, <1>4 DEF After
      <3>1. mark[w] \in Nat BY OneIs
      <3>2. e.n > mark[w] BY <1>4, <3>1
      <3>3. e \in After(mark[w]) BY <3>2 DEF After
      <3> QED BY <1>1, <3>3, OneIs
    <2>2. \A v \in Rollups : at'[v] # "idle" => \A e \in After(mark[v])' : e.day >= today - 1
      BY <1>1, <1>2, <1>7 DEF PendingYoung, After
    <2> QED BY <1>1, <2>1, <2>2 DEF PendingYoung
  <1>9. MarksBehind'
    <2>1. m.n <= received /\ \A e \in inflight : m.n < e.n BY <1>4 DEF StoredInOrder
    <2>2. 0 <= received /\ \A e \in inflight : 0 < e.n BY DEF RollupTyped, Received
    <2> QED BY <1>1, <1>2, <1>4, <1>7, <2>1, <2>2 DEF MarksBehind
  <1>10. ASSUME NEW r \in born[w] PROVE r.key[1] \in Days(new[w]) /\ \A e \in r.events : e.local = r.key[1]
    <2>1. \A e \in r.events : Key(r.table, e) = r.key BY <1>1, <1>10, BornRows
    <2>2. \A e : Key(r.table, e)[1] = e.local BY KeysOfDays
    <2>3. r.key[1] \in Days(new[w]) BY <1>1, <1>10, BornRows
    <2> QED BY <2>1, <2>2, <2>3
  <1>11. \A v \in Rollups \ {w} : InTransaction(v) => Days(new[v]) \cap Days(new[w]) \subseteq crossed
    BY <1>3, OneIs
  <1>12. RollupSound(w)'
    <2>1. ~HasRead(w)' /\ ~InTransaction(w)' BY <1>2 DEF HasRead, InTransaction
    <2>2. Cleared(w)' = {} /\ Filled(w)' = {} BY <1>2 DEF Cleared, Filled
    <2>3. NewWhole(w)' /\ ScopeWhole(w)' BY <2>1 DEF NewWhole, ScopeWhole
    <2>4. DeletesTouched(w)' BY <1>2, <2>2 DEF DeletesTouched
    <2>5. InsertsFresh(w)' BY <1>2, <2>2 DEF InsertsFresh
    <2> QED BY <2>3, <2>4, <2>5 DEF RollupSound
  <1>13. ASSUME NEW v \in Rollups, v # w PROVE RollupSound(v)'
    <2>1. Held(v)' = Held(v) BY <1>2, <1>13
    <2>2. NewWhole(v) /\ ScopeWhole(v) /\ DeletesTouched(v) /\ InsertsFresh(v) BY OneIs
    <2>3. NewWhole(v)' BY <1>1, <2>1, <2>2, HeldAlike DEF NewWhole
    <2>4. ScopeWhole(v)'
      <3>1. ASSUME InTransaction(v), NEW r \in born[w], NEW e \in r.events, e.local \in Days(new[v]) \ crossed PROVE FALSE
        BY <1>10, <1>11, <1>13, <3>1
      <3>2. InTransaction(v) => \A r \in tab' : \A e \in r.events : e.local \in Days(new[v]) \ crossed => e \in scope[v]
        BY <1>1, <2>2, <3>1 DEF ScopeWhole
      <3>3. new'[v] = new[v] /\ scope'[v] = scope[v] /\ InTransaction(v)' = InTransaction(v) BY <2>1, HeldAlike
      <3> QED BY <1>1, <2>2, <3>2, <3>3 DEF ScopeWhole, Days
    <2>5. DeletesTouched(v)'
      <3>1. CASE InTransaction(v)
        <4>1. \A r \in born[w] : ~(TouchedBy(v, r) /\ r.key[1] \notin crossed)
          BY <1>10, <1>11, <1>13, <3>1, KeysOfDays DEF TouchedBy
        <4> QED BY <1>1, <2>1, <2>2, <4>1, HeldAlike DEF DeletesTouched
      <3>2. CASE ~InTransaction(v)
        <4>1. Cleared(v) = {} /\ at[v] # "delete" BY <3>2 DEF InTransaction, Cleared
        <4> QED BY <1>1, <2>1, <2>2, <4>1, HeldAlike DEF DeletesTouched
      <3> QED BY <3>1, <3>2
    <2>6. InsertsFresh(v)' BY <2>1, <2>2, HeldAlike DEF InsertsFresh
    <2> QED BY <2>3, <2>4, <2>5, <2>6 DEF RollupSound
  <1>14. DaysApart'
    <2>1. ~InTransaction(w)' BY <1>2 DEF InTransaction
    <2> QED BY <1>1, <1>7, <2>1 DEF RollupInv, DaysApart, Days
  <1>15. RowsKeyed'
    <2>1. \A r \in born[w] : r.table \in Tables BY <1>1, BornRows DEF TouchedBy
    <2> QED BY <1>1, <2>1, BornRows DEF RollupInv, RowsKeyed
  <1>16. KeysFree'
    <2> SUFFICES ASSUME NEW u \in Rollups, NEW r \in born'[u], r.table \in Keyed
                 PROVE  /\ \A x \in tab' \ dead'[u] : ~SameKey(r, x)
                        /\ \A v \in Rollups \ {u} : \A x \in born'[v] : ~SameKey(r, x)
      BY DEF KeysFree
    <2>1. u # w BY <1>2
    <2>2. r \in born[u] /\ dead'[u] = dead[u] BY <1>7, <2>1
    <2>3. \A x \in tab \ dead[u] : ~SameKey(r, x) BY <2>2, OneIs
    <2>4. \A v \in Rollups \ {u} : \A x \in born[v] : ~SameKey(r, x) BY <2>2, OneIs
    <2> QED BY <1>1, <1>2, <1>7, <2>1, <2>2, <2>3, <2>4
  <1>17. MarksCounted'
    <2>1. CountedTo(watermark)' BY <1>1, TopCounted DEF CountedTo
    <2>2. ASSUME NEW v \in Rollups, at'[v] # "idle" PROVE CountedTo(mark[v])'
      <3>1. v # w BY <1>2, <2>2
      <3>2. CountedTo(mark[v]) /\ mark'[v] = mark[v] BY <1>7, <2>2, <3>1, OneIs
      <3> QED BY <1>1, <3>2, CountedStays DEF CountedTo
    <2> QED BY <2>1, <2>2 DEF MarksCounted
  <1>18. CountedOnce' BY <1>1, OnceStays
  <1> QED BY <1>5, <1>6, <1>8, <1>9, <1>12, <1>13, <1>14, <1>15, <1>16, <1>17, <1>18 DEF RollupInv

-----------------------------------------------------------------------------
LEMMA RollupInit == Init => RollupInv
  <1> SUFFICES ASSUME Init PROVE RollupInv OBVIOUS
  <1>1. /\ today = 0 /\ received = 0 /\ inflight = {} /\ raw = {} /\ stored = {} /\ watermark = 0 /\ tab = {}
        /\ at = [w \in Rollups |-> "idle"] /\ nth = [w \in Rollups |-> 1] /\ mark = [w \in Rollups |-> 0]
        /\ new = [w \in Rollups |-> {}] /\ scope = [w \in Rollups |-> {}] /\ found = [w \in Rollups |-> {}]
        /\ dead = [w \in Rollups |-> {}] /\ born = [w \in Rollups |-> {}]
    BY DEF Init
  <1>2. RollupTyped BY <1>1 DEF RollupTyped, Stages
  <1>3. EventsTyped /\ StoredInOrder /\ DroppedLong BY <1>1 DEF EventsTyped, StoredInOrder, DroppedLong
  <1>4. PendingYoung /\ MarksBehind BY <1>1 DEF PendingYoung, MarksBehind, After
  <1>5. ASSUME NEW w \in Rollups PROVE RollupSound(w) /\ ~InTransaction(w)
    <2>1. ~InTransaction(w) /\ ~HasRead(w) BY <1>1 DEF InTransaction, HasRead
    <2>2. Cleared(w) = {} /\ Filled(w) = {} BY <1>1 DEF Cleared, Filled
    <2>3. NewWhole(w) /\ ScopeWhole(w) BY <2>1 DEF NewWhole, ScopeWhole
    <2>4. DeletesTouched(w) BY <1>1 DEF DeletesTouched
    <2>5. InsertsFresh(w) BY <1>1, <2>2 DEF InsertsFresh
    <2> QED BY <2>1, <2>3, <2>4, <2>5 DEF RollupSound
  <1>6. DaysApart BY <1>5 DEF DaysApart
  <1>7. RowsKeyed /\ KeysFree /\ CountedOnce BY <1>1 DEF RowsKeyed, KeysFree, CountedOnce
  <1>8. MarksCounted BY <1>1 DEF MarksCounted, CountedTo
  <1> QED BY <1>2, <1>3, <1>4, <1>5, <1>6, <1>7, <1>8 DEF RollupInv

LEMMA RollupStep == ASSUME InOrder, KeepsUp PROVE RollupInv /\ [Next]_vars => RollupInv'
  <1> SUFFICES ASSUME RollupInv, [Next]_vars PROVE RollupInv' OBVIOUS
  <1>1. CASE UNCHANGED vars
    <2>1. UNCHANGED <<today, received, inflight, raw, stored, rollupVars>> BY <1>1 DEF vars, feedVars, rollupVars
    <2>2. RollupTyped' /\ EventsTyped' BY <2>1, FeedTypes DEF RollupTyped, EventsTyped, rollupVars, readVars, txVars
    <2>3. StoredInOrder' /\ DroppedLong' BY <2>1, FeedTypes DEF StoredInOrder, DroppedLong
    <2>4. PendingYoung' /\ MarksBehind' BY <2>1, FeedTypes DEF PendingYoung, MarksBehind, After, rollupVars, readVars
    <2> QED BY <2>1, <2>2, <2>3, <2>4, RollupsStay DEF RollupInv
  <1>2. CASE Receive BY <1>2, ReceiveKeeps
  <1>3. CASE Store BY <1>3, StoreKeeps
  <1>4. CASE LoseBatch BY <1>4, LoseBatchKeeps
  <1>5. CASE Midnight BY <1>5, MidnightKeeps
  <1>6. CASE Drop BY <1>6, DropKeeps
  <1>7. ASSUME NEW w \in Rollups, Statement(w) \/ Deadlock(w) \/ Fail(w) PROVE RollupInv'
    <2>1. CASE Begin(w) BY <2>1, BeginKeeps
    <2>2. CASE ReadNew(w) BY <2>2, ReadNewKeeps
    <2>3. CASE ReadRaw(w) BY <2>3, ReadRawKeeps
    <2>4. CASE Find(w) BY <2>4, FindKeeps
    <2>5. CASE Delete(w) BY <2>5, DeleteKeeps
    <2>6. CASE Insert(w) BY <2>6, InsertKeeps
    <2>7. CASE Commit(w) BY <2>7, CommitKeeps
    <2>8. CASE Deadlock(w) BY <2>8, DeadlockKeeps
    <2>9. CASE Fail(w) BY <2>9, FailKeeps
    <2> QED BY <1>7, <2>1, <2>2, <2>3, <2>4, <2>5, <2>6, <2>7, <2>8, <2>9 DEF Statement
  <1> QED BY <1>1, <1>2, <1>3, <1>4, <1>5, <1>6, <1>7 DEF Next

\* Where events are stored in the order they were received and rollups follow within
\* the day, what is rolled up is in its rows and counted once (analytics.py:591),
\* however many rollups overlap, wait for each other, fail and set the watermark back,
\* and whatever the retention drops - but on a day of which two transactions were
\* under way at once.
THEOREM CountedExactlyCorrect == ASSUME InOrder, KeepsUp PROVE Spec => []CountedExactly
  <1>1. RollupInv => CountedExactly
    <2>1. ASSUME RollupInv, NEW e \in stored \ Pending, e.local \notin crossed PROVE Has(e)
      <3>1. e.n \in Nat /\ watermark \in Nat /\ ~(e.n > watermark) BY <2>1, FeedTypes DEF Pending, RollupTyped
      <3> QED BY <2>1, <3>1 DEF RollupInv, MarksCounted, CountedTo
    <2>2. RollupInv => Counted BY <2>1 DEF Counted, Has
    <2> QED BY <2>2 DEF CountedExactly, RollupInv
  <1> QED BY <1>1, RollupInit, RollupStep, PTL DEF Spec


-----------------------------------------------------------------------------
(***************************************************************************)
(* The map. What an instance remembers of a day is the salt of the table,  *)
(* and no two days share one.                                              *)
(***************************************************************************)

BatchTypes ==
    {NoBatch} \cup [stage : {"salt", "select", "insert", "read"}, on : Instances, phone : Phones, at : 0 .. LastTick,
                    visits : Visits, day : Int]
HeatTyped ==
    /\ tick \in Nat /\ salted \in Nat /\ IsFiniteSet(seenAt)
    /\ batches \in [Batches -> BatchTypes]
    /\ DOMAIN saltsKnown = Instances

\* The table has one salt for a day and no salt for two; what an instance
\* remembers, and what a row was hashed with, is the salt of the table.
SaltsDistinct ==
    /\ \A d \in DOMAIN salts : salts[d] \in 0 .. salted
    /\ \A d, e \in DOMAIN salts : salts[d] = salts[e] => d = e
SaltsAgreed ==
    /\ \A i \in Instances : \A d \in DOMAIN saltsKnown[i] : d \in DOMAIN salts /\ saltsKnown[i][d] = salts[d]
    /\ \A b \in Batches : batches[b].stage = "read" => batches[b].day \in DOMAIN salts
RowsHashed == \A r \in seenAt : r.day \in DOMAIN salts /\ r.hash = <<salts[r.day], r.phone>>
HeatInv == HeatTyped /\ SaltsDistinct /\ SaltsAgreed /\ RowsHashed

LEMMA HeatFirst == HeatInit => HeatInv
  <1> SUFFICES ASSUME HeatInit PROVE HeatInv OBVIOUS
  <1>1. HeatTyped BY FS_EmptySet DEF HeatInit, HeatTyped, BatchTypes
  <1>2. SaltsDistinct BY DEF HeatInit, SaltsDistinct
  <1>3. SaltsAgreed BY DEF HeatInit, SaltsAgreed, NoBatch
  <1>4. RowsHashed BY DEF HeatInit, RowsHashed
  <1> QED BY <1>1, <1>2, <1>3, <1>4 DEF HeatInv

\* A row stored with the salt of the table.
LEMMA StoredRowHashed ==
    ASSUME HeatInv, NEW b \in Batches, NEW salt, batches[b] # NoBatch,
           batches[b].day \in DOMAIN salts, salt = salts[batches[b].day], StoreRow(b, salt), UNCHANGED <<tick, salts, salted>>
    PROVE  /\ RowsHashed' /\ IsFiniteSet(seenAt') /\ batches' \in [Batches -> BatchTypes]
           /\ \A c \in Batches : batches'[c].stage = "read" => batches'[c].day \in DOMAIN salts
  <1> USE DEF HeatInv
  <1>1. seenAt' = seenAt \cup {EventRow(b, salt)} /\ batches' = [batches EXCEPT ![b] = NoBatch] BY DEF StoreRow
  <1>2. IsFiniteSet(seenAt') BY <1>1, FS_AddElement DEF HeatTyped
  <1>3. EventRow(b, salt).day = batches[b].day /\ EventRow(b, salt).hash = <<salt, batches[b].phone>>
        /\ EventRow(b, salt).phone = batches[b].phone
    BY DEF EventRow
  <1>4. RowsHashed' BY <1>1, <1>3 DEF RowsHashed
  <1>5. batches' \in [Batches -> BatchTypes] BY <1>1 DEF HeatTyped, BatchTypes
  <1>6. \A c \in Batches : batches'[c].stage = "read" => batches'[c].day \in DOMAIN salts
    BY <1>1 DEF HeatTyped, SaltsAgreed, NoBatch
  <1> QED BY <1>2, <1>4, <1>5, <1>6

LEMMA HashWithKeeps ==
    ASSUME HeatInv, NEW b \in Batches, batches[b] # NoBatch,
           batches[b].day \in DOMAIN salts, HashWith(b, salts[batches[b].day]), UNCHANGED <<tick, salts, salted>>
    PROVE  HeatInv'
  <1> USE DEF HeatInv
  <1>1. StoreRow(b, salts[batches[b].day]) BY DEF HashWith
  <1>2. /\ RowsHashed' /\ IsFiniteSet(seenAt') /\ batches' \in [Batches -> BatchTypes]
        /\ \A c \in Batches : batches'[c].stage = "read" => batches'[c].day \in DOMAIN salts
    BY <1>1, StoredRowHashed
  <1>3. PICK i \in Instances : i = batches[b].on BY DEF HeatTyped, BatchTypes
  <1>4. PICK day : day = batches[b].day OBVIOUS
  <1>5. saltsKnown' = [saltsKnown EXCEPT ![i] = Remembering(saltsKnown[i], day, salts[day])]
    BY <1>3, <1>4 DEF HashWith
  <1>6. \A d \in DOMAIN Remembering(saltsKnown[i], day, salts[day]) :
           d \in DOMAIN salts /\ Remembering(saltsKnown[i], day, salts[day])[d] = salts[d]
    BY <1>4 DEF Remembering, With, SaltsAgreed
  <1>7. \A j \in Instances : \A d \in DOMAIN saltsKnown'[j] : d \in DOMAIN salts /\ saltsKnown'[j][d] = salts[d]
    BY <1>5, <1>6 DEF SaltsAgreed, HeatTyped
  <1>8. HeatTyped' BY <1>2, <1>5 DEF HeatTyped
  <1>9. SaltsAgreed' BY <1>2, <1>7 DEF SaltsAgreed
  <1>10. SaltsDistinct' BY DEF SaltsDistinct
  <1> QED BY <1>2, <1>8, <1>9, <1>10

LEMMA ReceiveBatchKeeps == ASSUME HeatInv, NEW b \in Batches, ReceiveBatch(b) PROVE HeatInv'
  <1> USE DEF HeatInv
  <1>1. UNCHANGED <<salts, salted, saltsKnown, seenAt>> BY DEF ReceiveBatch
  <1>2. PICK i \in Instances, p \in Phones, t \in 0 .. LastTick, v \in Visits :
          batches' = [batches EXCEPT ![b] = [stage |-> "salt", on |-> i, phone |-> p, at |-> t, visits |-> v,
                                                 day |-> UtcDay(tick)]]
    BY DEF ReceiveBatch
  <1>3. tick' = tick /\ UtcDay(tick) \in Int
    BY HeatAssumption DEF ReceiveBatch, HeatTyped, UtcDay
  <1>4. batches' \in [Batches -> BatchTypes] BY <1>2, <1>3 DEF HeatTyped, BatchTypes
  <1>5. \A c \in Batches : batches'[c].stage = "read" => batches'[c].day \in DOMAIN salts
    BY <1>2 DEF HeatTyped, SaltsAgreed
  <1> QED BY <1>1, <1>3, <1>4, <1>5 DEF HeatTyped, SaltsDistinct, SaltsAgreed, RowsHashed

LEMMA AskMemoryKeeps == ASSUME HeatInv, NEW b \in Batches, AskMemory(b) PROVE HeatInv'
  <1> USE DEF HeatInv
  <1>1. UNCHANGED <<tick, salts, salted, saltsKnown>> /\ batches[b].stage = "salt" BY DEF AskMemory
  <1>2. batches[b].on \in Instances /\ batches[b] # NoBatch BY <1>1 DEF HeatTyped, BatchTypes, NoBatch
  <1>3. CASE batches[b].day \in DOMAIN saltsKnown[batches[b].on]
    <2>1. batches[b].day \in DOMAIN salts /\ saltsKnown[batches[b].on][batches[b].day] = salts[batches[b].day]
      BY <1>2, <1>3 DEF SaltsAgreed
    <2>2. StoreRow(b, salts[batches[b].day]) BY <1>3, <2>1 DEF AskMemory
    <2>3. /\ RowsHashed' /\ IsFiniteSet(seenAt') /\ batches' \in [Batches -> BatchTypes]
          /\ \A c \in Batches : batches'[c].stage = "read" => batches'[c].day \in DOMAIN salts
      BY <1>1, <1>2, <2>1, <2>2, StoredRowHashed
    <2> QED BY <1>1, <2>3 DEF HeatTyped, SaltsDistinct, SaltsAgreed
  <1>4. CASE batches[b].day \notin DOMAIN saltsKnown[batches[b].on]
    <2>1. seenAt' = seenAt /\ batches' = [batches EXCEPT ![b] = [batches[b] EXCEPT !.stage = "select"]]
      BY <1>4 DEF AskMemory, To
    <2>2. batches' \in [Batches -> BatchTypes] BY <1>2, <2>1 DEF HeatTyped, BatchTypes
    <2>3. \A c \in Batches : batches'[c].stage = "read" => batches'[c].day \in DOMAIN salts
      BY <1>2, <2>1 DEF HeatTyped, SaltsAgreed, BatchTypes
    <2> QED BY <1>1, <2>1, <2>2, <2>3 DEF HeatTyped, SaltsDistinct, SaltsAgreed, RowsHashed
  <1> QED BY <1>3, <1>4

LEMMA SelectKeeps == ASSUME HeatInv, NEW b \in Batches, Select(b) PROVE HeatInv'
  <1> USE DEF HeatInv
  <1>1. UNCHANGED <<tick, salts, salted>> /\ batches[b].stage = "select" BY DEF Select
  <1>2. batches[b] # NoBatch BY <1>1 DEF NoBatch
  <1>3. CASE batches[b].day \in DOMAIN salts
    BY <1>1, <1>2, <1>3, HashWithKeeps DEF Select
  <1>4. CASE batches[b].day \notin DOMAIN salts
    <2>1. /\ seenAt' = seenAt /\ saltsKnown' = saltsKnown
          /\ batches' = [batches EXCEPT ![b] = [batches[b] EXCEPT !.stage = "insert"]]
      BY <1>4 DEF Select, To
    <2>2. batches' \in [Batches -> BatchTypes] BY <1>2, <2>1 DEF HeatTyped, BatchTypes
    <2>3. \A c \in Batches : batches'[c].stage = "read" => batches'[c].day \in DOMAIN salts
      BY <1>2, <2>1 DEF HeatTyped, SaltsAgreed, BatchTypes
    <2> QED BY <1>1, <2>1, <2>2, <2>3 DEF HeatTyped, SaltsDistinct, SaltsAgreed, RowsHashed
  <1> QED BY <1>3, <1>4

\* The first salt of a day stays.
LEMMA InsertedSalt ==
    ASSUME HeatInv, NEW day
    PROVE  LET grown == Inserted(day, salted + 1)
           IN  /\ DOMAIN grown = DOMAIN salts \cup {day}
               /\ \A d \in DOMAIN salts : grown[d] = salts[d]
               /\ day \notin DOMAIN salts => grown[day] = salted + 1
  BY DEF Inserted, With

LEMMA InsertSaltKeeps == ASSUME HeatInv, NEW b \in Batches, InsertSalt(b) PROVE HeatInv'
  <1> USE DEF HeatInv
  <1>1. UNCHANGED <<tick, saltsKnown, seenAt>> /\ batches[b].stage = "insert" /\ salted' = salted + 1 BY DEF InsertSalt
  <1>2. PICK day : day = batches[b].day OBVIOUS
  <1>3. /\ DOMAIN salts' = DOMAIN salts \cup {day}
        /\ \A d \in DOMAIN salts : salts'[d] = salts[d]
        /\ day \notin DOMAIN salts => salts'[day] = salted + 1
    BY <1>2, InsertedSalt DEF InsertSalt
  <1>4. batches[b] # NoBatch BY <1>1 DEF NoBatch
  <1>5. batches' = [batches EXCEPT ![b] = [batches[b] EXCEPT !.stage = "read"]] BY DEF InsertSalt, To
  <1>6. HeatTyped' BY <1>1, <1>4, <1>5 DEF HeatTyped, BatchTypes
  <1>7. \A c \in Batches : batches'[c].stage = "read" => batches'[c].day \in DOMAIN salts'
    BY <1>2, <1>3, <1>4, <1>5 DEF HeatTyped, SaltsAgreed, BatchTypes
  <1>8. SaltsAgreed' BY <1>1, <1>3, <1>7 DEF SaltsAgreed
  <1>9. SaltsDistinct'
    <2>1. \A d \in DOMAIN salts' : salts'[d] \in 0 .. salted'
      BY <1>1, <1>3 DEF SaltsDistinct, HeatTyped
    <2>2. ASSUME NEW d \in DOMAIN salts', NEW e \in DOMAIN salts', salts'[d] = salts'[e] PROVE d = e
      <3>1. CASE d \in DOMAIN salts /\ e \in DOMAIN salts BY <1>3, <2>2, <3>1 DEF SaltsDistinct
      <3>2. CASE d \notin DOMAIN salts /\ e \in DOMAIN salts
        BY <1>3, <2>2, <3>2 DEF SaltsDistinct, HeatTyped
      <3>3. CASE d \in DOMAIN salts /\ e \notin DOMAIN salts
        BY <1>3, <2>2, <3>3 DEF SaltsDistinct, HeatTyped
      <3>4. CASE d \notin DOMAIN salts /\ e \notin DOMAIN salts BY <1>3, <3>4
      <3> QED BY <3>1, <3>2, <3>3, <3>4
    <2> QED BY <2>1, <2>2 DEF SaltsDistinct
  <1>10. RowsHashed' BY <1>1, <1>3 DEF RowsHashed
  <1> QED BY <1>6, <1>8, <1>9, <1>10

LEMMA ReadSaltKeeps == ASSUME HeatInv, NEW b \in Batches, ReadSalt(b) PROVE HeatInv'
  <1>1. UNCHANGED <<tick, salts, salted>> /\ batches[b].stage = "read" BY DEF ReadSalt
  <1>2. batches[b] # NoBatch BY <1>1 DEF NoBatch
  <1>3. batches[b].day \in DOMAIN salts BY <1>1 DEF HeatInv, SaltsAgreed
  <1> QED BY <1>1, <1>2, <1>3, HashWithKeeps DEF ReadSalt

LEMMA StartAnewKeeps == ASSUME HeatInv, NEW i \in Instances, StartAnew(i) PROVE HeatInv'
  <1> USE DEF HeatInv
  <1>1. UNCHANGED <<tick, salts, salted, seenAt>> BY DEF StartAnew
  <1>2. \A b \in Batches : batches'[b] = batches[b] \/ batches'[b] = NoBatch BY DEF StartAnew
  <1>3. batches' \in [Batches -> BatchTypes] BY DEF StartAnew, HeatTyped, BatchTypes
  <1>4. saltsKnown' = [saltsKnown EXCEPT ![i] = <<>>] BY DEF StartAnew
  <1>5. SaltsAgreed'
    <2>1. \A j \in Instances : \A d \in DOMAIN saltsKnown'[j] : d \in DOMAIN saltsKnown[j] /\ saltsKnown'[j] = saltsKnown[j]
      BY <1>4 DEF HeatTyped
    <2>2. \A b \in Batches : batches'[b].stage = "read" => batches'[b].day \in DOMAIN salts
      BY <1>2 DEF SaltsAgreed, NoBatch
    <2> QED BY <1>1, <2>1, <2>2 DEF SaltsAgreed
  <1>6. HeatTyped' BY <1>1, <1>3, <1>4 DEF HeatTyped
  <1> QED BY <1>1, <1>5, <1>6 DEF SaltsDistinct, RowsHashed

LEMMA HeatStep == ASSUME HeatInv, [HeatNext]_heat PROVE HeatInv'
  <1>1. CASE UNCHANGED heat
    BY <1>1 DEF heat, HeatInv, HeatTyped, SaltsDistinct, SaltsAgreed, RowsHashed
  <1>2. CASE TimeGoesOn
    BY <1>2 DEF TimeGoesOn, HeatInv, HeatTyped, SaltsDistinct, SaltsAgreed, RowsHashed
  <1> QED
    BY <1>1, <1>2, ReceiveBatchKeeps, AskMemoryKeeps, SelectKeeps, InsertSaltKeeps, ReadSaltKeeps, StartAnewKeeps
    DEF HeatNext

\* A phone and a day of receipt have one hash, and a hash is of one phone and day.
LEMMA HashesCountPhones ==
    ASSUME HeatInv, NEW seen \in SUBSET seenAt
    PROVE  Cardinality({r.hash : r \in seen}) = Cardinality({<<r.phone, r.day>> : r \in seen})
  <1> DEFINE Pairs == {<<r.phone, r.day>> : r \in seen}
             Hashes == {r.hash : r \in seen}
             pairOf == [r \in seen |-> <<r.phone, r.day>>]
             hashOf == [q \in Pairs |-> <<salts[q[2]], q[1]>>]
  <1>1. IsFiniteSet(seen) BY FS_Subset DEF HeatInv, HeatTyped
  <1>2. IsFiniteSet(Pairs)
    <2>1. pairOf \in Surjection(seen, Pairs) BY DEF Surjection
    <2> QED BY <1>1, <2>1, FS_Surjection
  <1>3. \A r \in seen : r.day \in DOMAIN salts /\ r.hash = <<salts[r.day], r.phone>> BY DEF HeatInv, RowsHashed
  <1>4. hashOf \in [Pairs -> Hashes] BY <1>3
  <1>5. ASSUME NEW p \in Pairs, NEW q \in Pairs, hashOf[p] = hashOf[q] PROVE p = q
    <2>1. PICK r \in seen : p = <<r.phone, r.day>> OBVIOUS
    <2>2. PICK s \in seen : q = <<s.phone, s.day>> OBVIOUS
    <2>3. salts[r.day] = salts[s.day] /\ r.phone = s.phone BY <1>5, <2>1, <2>2
    <2>4. r.day = s.day BY <1>3, <2>3 DEF HeatInv, SaltsDistinct
    <2> QED BY <2>1, <2>2, <2>3, <2>4
  <1>6. ASSUME NEW h \in Hashes PROVE \E q \in Pairs : hashOf[q] = h
    <2>1. PICK r \in seen : h = r.hash OBVIOUS
    <2>2. hashOf[<<r.phone, r.day>>] = h BY <1>3, <2>1
    <2> QED BY <2>2
  <1>7. hashOf \in Bijection(Pairs, Hashes)
    BY <1>4, <1>5, <1>6 DEF Bijection, Injection, Surjection, IsInjective
  <1>8. ExistsBijection(Pairs, Hashes) BY <1>7 DEF ExistsBijection
  <1> QED BY <1>2, <1>8, FS_Bijection

\* However the batches of several instances interleave around midnight, where
\* each may offer a salt of its own and only the first is stored
\* (analytics.py:221), and whatever instances start anew, the devices counted
\* at a place on a day are the phones that were there, each once for every UTC
\* day.
THEOREM DevicesAreCounted == HeatSpec => []DevicesCounted
  <1>1. ASSUME HeatInv PROVE DevicesCounted
    <2> SUFFICES ASSUME NEW d \in LocalDates, NEW p \in Places
                 PROVE  Devices(d, p) = Cardinality({<<r.phone, r.day>> : r \in There(d, p)})
      BY DEF DevicesCounted
    <2>1. There(d, p) \in SUBSET seenAt BY DEF There
    <2> QED BY <1>1, <2>1, HashesCountPhones DEF Devices
  <1> QED BY HeatFirst, HeatStep, <1>1, PTL DEF HeatSpec
=============================================================================
