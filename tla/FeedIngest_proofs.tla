-------------------------- MODULE FeedIngest_proofs --------------------------
(***************************************************************************)
(* For any feeds, calls, failures and restarts, while calls take turns:    *)
(* the statements of an ingest come to one step of VersionRegister, and    *)
(* what riders are answered from is the version in force.                  *)
(***************************************************************************)
EXTENDS FeedIngest, FiniteSetTheorems, TLAPS

Row == [id : Nat, at : Nat, active : BOOLEAN, stamp : Nat]
Zip == [feed : Feeds \cup {None}, stamp : Nat]
Memory == [routes : Feeds \cup {None}, schedule : Feeds \cup {None}, services : Feeds \cup {None}]

Writing == {"deactivate", "switch", "prune", "commit"}
Opened == {"insert"} \cup Writing
Places == {"idle", "head", "get", "check", "begin", "load", "routes", "schedule", "trips",
           "services", "windows"} \cup Opened

Table(db) == DOMAIN db \subseteq Feeds /\ \A f \in DOMAIN db : db[f] \in Row

TypeInv ==
    /\ url \in [feed : Feeds, stamp : Nat]
    /\ Table(versions)
    /\ DOMAIN dirty = Workers /\ \A w \in Workers : Table(dirty[w])
    /\ serial \in Nat /\ pubs \in Nat
    /\ pc \in [Workers -> Places]
    /\ got \in [Workers -> Zip]
    /\ \A w \in Workers : pc[w] \in {"check", "begin"} \cup Opened => got[w].feed \in Feeds
    /\ at \in [Workers -> Nat]
    /\ DOMAIN target = Workers
    /\ pick \in [Workers -> Feeds \cup {None}]
    /\ loaded \in [Workers -> Feeds \cup {None}]
    /\ mem \in Memory

\* One call at a time, and no rows are held outside a transaction.
Alone == \A w, o \in Workers : w # o => Idle(w) \/ Idle(o)
Clean == \A w \in Workers : pc[w] \notin Writing => dirty[w] = Nothing

\* The version in force was fetched last, and at most one other is kept.
Ranked ==
    /\ \A f, g \in DOMAIN versions : f # g /\ f \in ActiveIn(versions) =>
          g \notin ActiveIn(versions) /\ versions[g].at < versions[f].at
    /\ \A f, g \in DOMAIN versions \ ActiveIn(versions) : f = g
    /\ versions # Nothing => ActiveIn(versions) # {}
    /\ \A f \in DOMAIN versions : versions[f].at < serial

\* What an open transaction has written so far.
Progress(w) ==
    LET f == got[w].feed
    IN  /\ pc[w] \in Opened =>
              at[w] < serial /\ \A g \in DOMAIN versions : versions[g].at < at[w]
        /\ pc[w] \in Writing => f \in DOMAIN dirty[w] /\ dirty[w][f].at = at[w]
        /\ pc[w] \in {"deactivate", "switch"} =>
              /\ DOMAIN dirty[w] = {f}
              /\ f \in ActiveIn(dirty[w]) => f \in ActiveIn(versions)
        /\ pc[w] = "switch" => target[w] = ActiveIn(View(w))
        /\ pc[w] \in {"prune", "commit"} =>
              /\ DOMAIN dirty[w] = {f} \cup ActiveIn(versions)
              /\ ActiveIn(dirty[w]) = {f}
              /\ \A g \in ActiveIn(versions) \ {f} : dirty[w][g].at = versions[g].at
        /\ pc[w] = "commit" => target[w] = Prunable(View(w))

FeedInv == TypeInv /\ Alone /\ Clean /\ Ranked /\ \A w \in Workers : Progress(w)

-----------------------------------------------------------------------------
LEMMA FeedInitial == Init => FeedInv
<1> SUFFICES ASSUME Init PROVE FeedInv
  OBVIOUS
<1> USE DEF Init, Nothing
<1>1. TypeInv
  <2>1. url \in [feed : Feeds, stamp : Nat]
    BY DEF NoStamp
  <2>2. pc \in [Workers -> {"idle", "head", "load"}]
    OBVIOUS
  <2> QED BY <2>1, <2>2 DEF TypeInv, Table, Places, Opened, Writing, Zip, Memory, NoStamp
<1>2. Alone
  BY DEF Alone, Idle
<1>3. Clean /\ Ranked
  BY DEF Clean, Ranked, ActiveIn
<1>4. \A w \in Workers : Progress(w)
  BY DEF Progress, Opened, Writing
<1> QED BY <1>1, <1>2, <1>3, <1>4 DEF FeedInv

\* What a transaction sees, row by row.
LEMMA Sees ==
    ASSUME TypeInv, NEW w \in Workers
    PROVE  /\ DOMAIN View(w) = DOMAIN versions \cup DOMAIN dirty[w]
           /\ \A g \in DOMAIN dirty[w] : View(w)[g] = dirty[w][g]
           /\ \A g \in DOMAIN versions \ DOMAIN dirty[w] : View(w)[g] = versions[g]
           /\ Table(View(w))
  BY DEF View, TypeInv, Table

\* Writing rows adds them to those written before.
LEMMA Writes ==
    ASSUME TypeInv, NEW w \in Workers, NEW rows, Table(rows), Write(w, rows)
    PROVE  /\ DOMAIN dirty' = Workers /\ \A o \in Workers : Table(dirty'[o])
           /\ \A o \in Workers \ {w} : dirty'[o] = dirty[o]
           /\ DOMAIN dirty'[w] = DOMAIN dirty[w] \cup DOMAIN rows
           /\ \A g \in DOMAIN rows : dirty'[w][g] = rows[g]
           /\ \A g \in DOMAIN dirty[w] \ DOMAIN rows : dirty'[w][g] = dirty[w][g]
  BY DEF Write, TypeInv, Table

LEMMA TypeStep == TypeInv /\ (\A w \in Workers : Progress(w)) /\ [Next]_vars => TypeInv'
<1> SUFFICES ASSUME TypeInv, \A w \in Workers : Progress(w), [Next]_vars PROVE TypeInv'
  OBVIOUS
<1> USE DEF TypeInv
<1>1. CASE UNCHANGED vars
  BY <1>1 DEF vars, dbVars, callVars, memVars, boundVars, Table
<1>2. CASE Publish
  <2>1. url' \in [feed : Feeds, stamp : Nat]
    BY <1>2 DEF Publish, NoStamp
  <2> QED BY <1>2, <2>1 DEF Publish, dbVars, callVars, memVars, Table
<1>3. CASE Restart
  <2>1. pc' \in [Workers -> {"idle", "head", "load"}]
    BY <1>3 DEF Restart
  <2>2. \A w \in Workers : Table(dirty'[w])
    BY <1>3 DEF Restart, Table, Nothing
  <2> QED BY <1>3, <2>1, <2>2 DEF Restart, Table, Places, Opened, Writing, Memory
<1>4. ASSUME NEW w \in Workers, Start(w) PROVE TypeInv'
  <2>1. \E l \in {"get", "head"} : pc' = [pc EXCEPT ![w] = l]
    BY <1>4 DEF Start, Goto
  <2> QED BY <1>4, <2>1 DEF Start, dbVars, memVars, Table, Places, Opened, Writing
<1>5. ASSUME NEW w \in Workers, Head(w) PROVE TypeInv'
  <2>1. \E l \in {"get", "load"} : pc' = [pc EXCEPT ![w] = l]
    BY <1>5 DEF Head, Goto
  <2> QED BY <1>5, <2>1 DEF Head, dbVars, memVars, boundVars, Table, Places, Opened, Writing
<1>6. ASSUME NEW w \in Workers, Get(w) PROVE TypeInv'
  <2>1. got' \in [Workers -> Zip] /\ got'[w].feed \in Feeds
    BY <1>6 DEF Get, Zip
  <2> QED BY <1>6, <2>1 DEF Get, Goto, dbVars, memVars, boundVars, Table, Places, Opened, Writing
<1>7. ASSUME NEW w \in Workers, Check(w) PROVE TypeInv'
  <2>1. \E l \in {"begin", "load"} : pc' = [pc EXCEPT ![w] = l]
    BY <1>7 DEF Check, Goto
  <2> QED BY <1>7, <2>1 DEF Check, dbVars, memVars, boundVars, Table, Places, Opened, Writing
<1>8. ASSUME NEW w \in Workers, Begin(w) PROVE TypeInv'
  BY <1>8 DEF Begin, Goto, memVars, boundVars, Table, Places, Opened, Writing
<1>9. ASSUME NEW w \in Workers, Insert(w) PROVE TypeInv'
  <2> DEFINE f == got[w].feed
  <2>1. f \in Feeds /\ got[w].stamp \in Nat
    BY <1>9 DEF Insert, Opened, Zip
  <2>2. Stored(w, f) \in Row
    BY <2>1 DEF Stored, Row, Table
  <2>3. Table([g \in {f} |-> Stored(w, f)])
    BY <2>1, <2>2 DEF Table
  <2>4. DOMAIN dirty' = Workers /\ \A o \in Workers : Table(dirty'[o])
    BY <1>9, <2>3, Writes DEF Insert
  <2> QED BY <1>9, <2>1, <2>4 DEF Insert, Goto, memVars, boundVars, Table, Places, Opened, Writing
<1>10. ASSUME NEW w \in Workers, Deactivate(w) PROVE TypeInv'
  BY <1>10 DEF Deactivate, Goto, dbVars, memVars, boundVars, Table, Places, Opened, Writing
<1>11. ASSUME NEW w \in Workers, Switch(w) PROVE TypeInv'
  <2> DEFINE f == got[w].feed
  <2>1. f \in Feeds /\ f \in DOMAIN dirty[w]
    BY <1>11 DEF Switch, Opened, Writing, Progress
  <2>2. Table(OnlyActive(w))
    <3>0. DOMAIN dirty[w] \subseteq DOMAIN View(w) /\ Table(View(w))
      BY Sees
    <3>1. ActiveIn(View(w)) \cup {f} \subseteq DOMAIN View(w)
      BY <2>1, <3>0 DEF ActiveIn
    <3>2. \A g \in ActiveIn(View(w)) \cup {f} :
            g \in Feeds /\ [View(w)[g] EXCEPT !.active = (g = f)] \in Row
      BY <3>0, <3>1 DEF Table, Row
    <3> QED BY <3>2 DEF OnlyActive, Table
  <2>3. DOMAIN dirty' = Workers /\ \A o \in Workers : Table(dirty'[o])
    BY <1>11, <2>2, Writes DEF Switch
  <2> QED BY <1>11, <2>1, <2>3 DEF Switch, Goto, memVars, boundVars, Table, Places, Opened, Writing
<1>12. ASSUME NEW w \in Workers, Prune(w) PROVE TypeInv'
  BY <1>12 DEF Prune, Goto, dbVars, memVars, boundVars, Table, Places, Opened, Writing
<1>13. ASSUME NEW w \in Workers, Commit(w) PROVE TypeInv'
  <2>1. Table(versions')
    BY <1>13, Sees DEF Commit, Table
  <2>2. DOMAIN dirty' = Workers /\ \A o \in Workers : Table(dirty'[o])
    BY <1>13 DEF Commit, Nothing, Table
  <2> QED BY <1>13, <2>1, <2>2 DEF Commit, Goto, memVars, boundVars, Places, Opened, Writing
<1>14. ASSUME NEW w \in Workers, NEW from, NEW to \in {"routes", "trips", "windows"}, Choose(w, from, to)
       PROVE  TypeInv'
  <2>1. Candidates \subseteq Feeds \cup {None}
    BY DEF Candidates, ActiveIn, Table
  <2> QED BY <1>14, <2>1 DEF Choose, Goto, dbVars, memVars, boundVars, Table, Places, Opened, Writing
<1>15. ASSUME NEW w \in Workers, ReadRoutes(w) PROVE TypeInv'
  <2>1. Rows(w) \in Feeds \cup {None}
    BY DEF Rows
  <2>2. /\ \E l \in {"schedule", "services"} : pc' = [pc EXCEPT ![w] = l]
        /\ mem' \in Memory /\ loaded' \in [Workers -> Feeds \cup {None}]
    BY <1>15, <2>1 DEF ReadRoutes, Goto, Memory
  <2> QED BY <1>15, <2>2 DEF ReadRoutes, dbVars, boundVars, Table, Places, Opened, Writing
<1>16. ASSUME NEW w \in Workers, ReadSchedule(w) PROVE TypeInv'
  <2>1. mem' \in Memory
    BY <1>16 DEF ReadSchedule, Rows, Memory
  <2> QED BY <1>16, <2>1 DEF ReadSchedule, Goto, dbVars, boundVars, Table, Places, Opened, Writing
<1>17. ASSUME NEW w \in Workers, ReadServices(w) PROVE TypeInv'
  <2>1. mem' \in Memory
    BY <1>17 DEF ReadServices, Rows, Memory
  <2> QED BY <1>17, <2>1 DEF ReadServices, Goto, dbVars, boundVars, Table, Places, Opened, Writing
<1>18. ASSUME NEW w \in Workers, Fail(w) PROVE TypeInv'
  <2>1. DOMAIN dirty' = Workers /\ \A o \in Workers : Table(dirty'[o])
    BY <1>18 DEF Fail, Rollback, Nothing, Table
  <2> QED BY <1>18, <2>1 DEF Fail, Goto, Table, Places, Opened, Writing
<1> QED
  BY <1>1, <1>2, <1>3, <1>4, <1>5, <1>6, <1>7, <1>8, <1>9, <1>10, <1>11, <1>12, <1>13, <1>14, <1>15,
     <1>16, <1>17, <1>18 DEF Next, Step, ChooseRoutes, ChooseSchedule, ChooseServices

-----------------------------------------------------------------------------
\* Where a call's step takes it, and what becomes of what it has written.
LEMMA Moves ==
    ASSUME TypeInv, Clean, NEW w \in Workers, Step(w) \/ Fail(w)
    PROVE  /\ pc[w] # "idle" /\ \E l \in Places : pc' = [pc EXCEPT ![w] = l]
           /\ \A o \in Workers \ {w} : dirty'[o] = dirty[o]
           /\ pc'[w] \notin Writing => dirty'[w] = Nothing
<1> USE DEF Goto, Places, Opened, Writing
<1>1. CASE Head(w)
  <2>1. \E l \in {"get", "load"} : pc' = [pc EXCEPT ![w] = l]
    BY <1>1 DEF Head
  <2> QED BY <1>1, <2>1 DEF Head, dbVars, TypeInv, Clean
<1>2. CASE Check(w)
  <2>1. \E l \in {"begin", "load"} : pc' = [pc EXCEPT ![w] = l]
    BY <1>2 DEF Check
  <2> QED BY <1>2, <2>1 DEF Check, dbVars, TypeInv, Clean
<1>3. CASE Get(w) \/ Begin(w) \/ Deactivate(w) \/ Prune(w) \/ ReadSchedule(w) \/ ReadServices(w)
  BY <1>3 DEF Get, Begin, Deactivate, Prune, ReadSchedule, ReadServices, dbVars, TypeInv, Clean
<1>4. CASE Insert(w) \/ Switch(w)
  <2>1. \A o \in Workers \ {w} : dirty'[o] = dirty[o]
    BY <1>4 DEF Insert, Switch, Write, TypeInv
  <2> QED BY <1>4, <2>1 DEF Insert, Switch, TypeInv
<1>5. CASE Commit(w)
  BY <1>5 DEF Commit, TypeInv
<1>6. ASSUME NEW from \in {"load", "schedule", "services"}, NEW to \in {"routes", "trips", "windows"},
             Choose(w, from, to)
      PROVE  /\ pc[w] # "idle" /\ pc' = [pc EXCEPT ![w] = to]
             /\ \A o \in Workers \ {w} : dirty'[o] = dirty[o]
             /\ pc'[w] \notin Writing => dirty'[w] = Nothing
  BY <1>6 DEF Choose, dbVars, TypeInv, Clean
<1>7. CASE ReadRoutes(w)
  <2>1. \E l \in {"schedule", "services"} : pc' = [pc EXCEPT ![w] = l]
    BY <1>7 DEF ReadRoutes
  <2> QED BY <1>7, <2>1 DEF ReadRoutes, dbVars, TypeInv, Clean
<1>8. CASE Fail(w)
  BY <1>8 DEF Fail, Rollback, Idle, TypeInv
<1> QED BY <1>1, <1>2, <1>3, <1>4, <1>5, <1>6, <1>7, <1>8 DEF Step, ChooseRoutes, ChooseSchedule, ChooseServices

LEMMA TurnsStep ==
    ~Overlap /\ TypeInv /\ Alone /\ Clean /\ [Next]_vars => Alone' /\ Clean'
<1> SUFFICES ASSUME ~Overlap, TypeInv, Alone, Clean, [Next]_vars PROVE Alone' /\ Clean'
  OBVIOUS
<1> USE DEF Alone, Clean, Idle
<1>1. CASE UNCHANGED vars \/ Publish
  BY <1>1 DEF vars, Publish, dbVars, callVars
<1>2. CASE Restart
  BY <1>2 DEF Restart
<1>3. ASSUME NEW w \in Workers, Start(w) PROVE Alone' /\ Clean'
  <2>1. \E l \in {"get", "head"} : pc' = [pc EXCEPT ![w] = l]
    BY <1>3 DEF Start, Goto
  <2> QED BY <1>3, <2>1 DEF Start, Resting, dbVars, Writing, TypeInv
<1>4. ASSUME NEW w \in Workers, Step(w) \/ Fail(w) PROVE Alone' /\ Clean'
  BY <1>4, Moves DEF TypeInv
<1> QED BY <1>1, <1>2, <1>3, <1>4 DEF Next

-----------------------------------------------------------------------------
\* Of one version nothing is pruned, nor of two, and of three the one fetched first.
LEMMA TwoAreKept ==
    ASSUME NEW db, NEW f, NEW a, DOMAIN db \subseteq {f, a}, f \in DOMAIN db,
           \A g \in DOMAIN db : db[g].at \in Nat /\ db[g].at <= db[f].at
    PROVE  Prunable(db) = {}
<1> SUFFICES ASSUME NEW x \in DOMAIN db
             PROVE  ~(Cardinality({g \in DOMAIN db : db[g].at > db[x].at}) >= 2)
  BY DEF Prunable
<1> DEFINE newer == {g \in DOMAIN db : db[g].at > db[x].at}
<1>1. newer = {} \/ newer = {f}
  <2>1. f \notin newer => newer = {}
    OBVIOUS
  <2>2. a \in newer => x = f \/ x = a
    OBVIOUS
  <2> QED BY <2>1, <2>2
<1>2. Cardinality(newer) \in {0, 1}
  BY <1>1, FS_EmptySet, FS_Singleton
<1> QED BY <1>2

LEMMA ThirdIsPruned ==
    ASSUME NEW db, NEW f, NEW a, NEW r, DOMAIN db = {f, a, r}, f # a,
           \A g \in DOMAIN db : db[g].at \in Nat,
           db[r].at < db[a].at, db[a].at < db[f].at
    PROVE  Prunable(db) = {r}
<1> DEFINE newer(x) == {g \in DOMAIN db : db[g].at > db[x].at}
<1>1. newer(f) = {} /\ newer(a) = {f} /\ newer(r) = {f} \cup {a}
  OBVIOUS
<1>2. Cardinality(newer(f)) = 0 /\ Cardinality(newer(a)) = 1
  BY <1>1, FS_EmptySet, FS_Singleton
<1>3. Cardinality(newer(r)) = 2
  <2>1. Cardinality({f} \cup {a}) = Cardinality({f}) + 1
    BY FS_Singleton, FS_AddElement
  <2>2. Cardinality({f}) = 1
    BY FS_Singleton
  <2> QED BY <1>1, <2>1, <2>2
<1>4. Prunable(db) = {x \in DOMAIN db : Cardinality(newer(x)) >= 2}
  BY DEF Prunable
<1>5. r # a /\ r # f
  OBVIOUS
<1> HIDE DEF newer
<1> QED BY <1>2, <1>3, <1>4, <1>5

-----------------------------------------------------------------------------
\* The transaction's end: the feed that was got is in force, and of the others
\* the one it replaces is kept, or the one that was kept before.
LEMMA CommitAdopts ==
    ASSUME FeedInv, NEW w \in Workers, Commit(w)
    PROVE  LET f == got[w].feed IN
           /\ f \in Feeds
           /\ ActiveIn(versions') = {f}
           /\ DOMAIN versions' \ {f} = IF f \in ActiveIn(versions) THEN DOMAIN versions \ {f}
                                       ELSE ActiveIn(versions)
           /\ versions'[f].at = at[w]
           /\ \A g \in DOMAIN versions' \ {f} : g \in DOMAIN versions /\ versions'[g].at = versions[g].at
<1> DEFINE f == got[w].feed
           db == View(w)
<1>1. /\ versions' = [g \in DOMAIN db \ Prunable(db) |-> db[g]]
      /\ f \in Feeds /\ at[w] \in Nat
      /\ f \in DOMAIN dirty[w] /\ dirty[w][f].at = at[w]
      /\ DOMAIN dirty[w] = {f} \cup ActiveIn(versions) /\ ActiveIn(dirty[w]) = {f}
      /\ \A g \in ActiveIn(versions) \ {f} : dirty[w][g].at = versions[g].at
      /\ \A g \in DOMAIN versions : versions[g].at \in Nat /\ versions[g].at < at[w]
  BY DEF Commit, FeedInv, Progress, Opened, Writing, TypeInv, Table, Row
<1>2. /\ DOMAIN db = DOMAIN versions \cup {f}
      /\ \A g \in DOMAIN dirty[w] : db[g] = dirty[w][g]
      /\ \A g \in DOMAIN versions \ DOMAIN dirty[w] : db[g] = versions[g]
  <2>1. ActiveIn(versions) \subseteq DOMAIN versions
    BY DEF ActiveIn
  <2> QED BY <1>1, <2>1, Sees DEF FeedInv
<1>3. /\ f \in DOMAIN db /\ db[f].at = at[w]
      /\ \A g \in DOMAIN db \ {f} : g \in DOMAIN versions /\ db[g].at = versions[g].at
  BY <1>1, <1>2
<1>4. ActiveIn(db) = {f}
  <2>1. f \in ActiveIn(db)
    BY <1>1, <1>2 DEF ActiveIn
  <2>2. \A g \in DOMAIN db \ {f} : g \notin ActiveIn(db)
    BY <1>1, <1>2 DEF ActiveIn
  <2> QED BY <2>1, <2>2 DEF ActiveIn
<1>5. Ranked
  BY DEF FeedInv
<1> HIDE DEF db, f
<1>6. /\ f \notin Prunable(db)
      /\ (DOMAIN db \ Prunable(db)) \ {f} = IF f \in ActiveIn(versions) THEN DOMAIN versions \ {f}
                                            ELSE ActiveIn(versions)
  <2>1. \A g \in DOMAIN db : db[g].at \in Nat /\ db[g].at <= db[f].at
    BY <1>1, <1>3
  <2>2. CASE ActiveIn(versions) = {}
    <3>1. DOMAIN versions = {}
      BY <1>5, <2>2 DEF Ranked, Nothing
    <3>2. Prunable(db) = {}
      BY <1>2, <1>3, <2>1, <3>1, TwoAreKept
    <3> QED BY <1>2, <2>2, <3>1, <3>2
  <2>3. ASSUME NEW a \in ActiveIn(versions)
        PROVE  /\ f \notin Prunable(db)
               /\ (DOMAIN db \ Prunable(db)) \ {f} = IF f \in ActiveIn(versions) THEN DOMAIN versions \ {f}
                                                     ELSE ActiveIn(versions)
    <3>0. a \in DOMAIN versions /\ ActiveIn(versions) = {a}
      BY <1>5, <2>3 DEF Ranked, ActiveIn
    <3>1. CASE DOMAIN versions \subseteq {f, a}
      <4>1. Prunable(db) = {}
        BY <1>2, <1>3, <2>1, <3>1, TwoAreKept
      <4> QED BY <1>2, <3>0, <3>1, <4>1
    <3>2. ASSUME NEW r \in DOMAIN versions, r # f, r # a
          PROVE  /\ f \notin Prunable(db)
                 /\ (DOMAIN db \ Prunable(db)) \ {f} = IF f \in ActiveIn(versions) THEN DOMAIN versions \ {f}
                                                       ELSE ActiveIn(versions)
      <4>1. DOMAIN versions = {a, r} \cup (DOMAIN versions \cap {f})
        BY <1>5, <3>0, <3>2 DEF Ranked
      <4>2. f \in DOMAIN versions => f = a
        BY <1>5, <3>0, <3>2 DEF Ranked
      <4>3. CASE f = a
        <5>1. DOMAIN db \subseteq {f, r}
          BY <1>2, <4>1, <4>3
        <5>2. Prunable(db) = {}
          BY <1>3, <2>1, <5>1, TwoAreKept
        <5> QED BY <1>2, <3>0, <4>1, <4>3, <5>2
      <4>4. CASE f # a
        <5>1. DOMAIN db = {f, a, r}
          BY <1>2, <4>1, <4>2, <4>4
        <5>2. db[r].at < db[a].at /\ db[a].at < db[f].at
          BY <1>1, <1>3, <1>5, <3>0, <3>2, <4>4, <5>1 DEF Ranked
        <5>3. Prunable(db) = {r}
          BY <2>1, <4>4, <5>1, <5>2, ThirdIsPruned
        <5> QED BY <3>0, <3>2, <4>4, <5>1, <5>3
      <4> QED BY <4>3, <4>4
    <3> QED BY <3>1, <3>2
  <2> QED BY <2>2, <2>3
<1>7. ActiveIn(versions') = {f}
  BY <1>1, <1>3, <1>4, <1>6 DEF ActiveIn
<1> QED BY <1>1, <1>3, <1>6, <1>7 DEF f

\* A row that is marked keeps the rest.
LEMMA Marked ==
    ASSUME NEW row \in Row, NEW mark \in BOOLEAN
    PROVE  LET marked == [row EXCEPT !.active = mark]
           IN  (marked.active <=> mark) /\ marked.at = row.at
  BY DEF Row

-----------------------------------------------------------------------------
\* Of all calls only the one that takes a step has written anything after it.
LEMMA OthersRest ==
    ASSUME TypeInv, Alone, NEW w \in Workers, ~Idle(w), \E l : pc' = [pc EXCEPT ![w] = l],
           NEW o \in Workers \ {w}
    PROVE  Progress(o)'
<1>1. pc'[o] = "idle"
  BY DEF TypeInv, Alone, Idle
<1> QED BY <1>1 DEF Progress, Opened, Writing

LEMMA ProgressStep ==
    ~Overlap /\ FeedInv /\ [Next]_vars => Ranked' /\ \A w \in Workers : Progress(w)'
<1> SUFFICES ASSUME ~Overlap, FeedInv, [Next]_vars
             PROVE  Ranked' /\ \A w \in Workers : Progress(w)'
  OBVIOUS
<1> DEFINE Goal == Ranked' /\ \A w \in Workers : Progress(w)'
<1>0. TypeInv /\ Alone /\ Clean /\ Ranked /\ \A w \in Workers : Progress(w)
  BY DEF FeedInv
<1>r. ASSUME UNCHANGED <<versions, serial>> PROVE Ranked'
  BY <1>0, <1>r DEF Ranked, ActiveIn
<1>q. ASSUME UNCHANGED <<versions, serial>>, \A w \in Workers : pc'[w] \notin Opened PROVE Goal
  BY <1>r, <1>q DEF Progress, Opened, Writing
\* A step that touches nothing of what Progress speaks of.
<1>s. ASSUME NEW w \in Workers, ~Idle(w), UNCHANGED <<versions, serial>>,
             NEW l \in Places \ Opened, pc' = [pc EXCEPT ![w] = l]
      PROVE  Goal
  <2>1. \A o \in Workers : pc'[o] \notin Opened
    BY <1>0, <1>s DEF TypeInv, Alone, Idle, Opened, Writing
  <2> QED BY <1>q, <1>s, <2>1
<1>1. CASE UNCHANGED vars \/ Publish
  <2>1. UNCHANGED <<versions, dirty, serial, pc, got, at, target>>
    BY <1>1 DEF vars, Publish, dbVars, callVars
  <2>2. \A w \in Workers : View(w)' = View(w)
    BY <2>1 DEF View
  <2>3. \A w \in Workers : Prunable(View(w))' = Prunable(View(w))
    BY <2>2
  <2>4. \A w \in Workers : Progress(w)'
    BY <1>0, <2>1, <2>2, <2>3 DEF Progress, ActiveIn
  <2> QED BY <1>r, <2>1, <2>4
<1>2. CASE Restart
  <2>1. \A w \in Workers : pc'[w] \notin Opened
    BY <1>2 DEF Restart, Opened, Writing
  <2> QED BY <1>q, <1>2, <2>1 DEF Restart
<1>3. ASSUME NEW w \in Workers, Start(w) PROVE Goal
  <2>1. \E l \in {"get", "head"} : pc' = [pc EXCEPT ![w] = l]
    BY <1>3 DEF Start, Goto
  <2>2. \A o \in Workers : pc'[o] \notin Opened
    BY <1>0, <1>3, <2>1 DEF Start, Resting, Idle, Opened, Writing, TypeInv
  <2> QED BY <1>q, <1>3, <2>2 DEF Start, dbVars
<1>4. ASSUME NEW w \in Workers, Head(w) \/ Check(w) \/ Get(w) PROVE Goal
  <2>1. \E l \in Places \ Opened : pc' = [pc EXCEPT ![w] = l]
    BY <1>4 DEF Head, Check, Get, Goto, Places, Opened, Writing
  <2> QED BY <1>s, <1>4, <2>1 DEF Head, Check, Get, Idle, dbVars
<1>5. ASSUME NEW w \in Workers, Begin(w) PROVE Goal
  <2>1. /\ ~Idle(w) /\ pc' = [pc EXCEPT ![w] = "insert"]
        /\ at'[w] = serial /\ serial' = serial + 1 /\ versions' = versions
    BY <1>0, <1>5 DEF Begin, Goto, Idle, TypeInv
  <2>2. Ranked'
    BY <1>0, <2>1 DEF Ranked, ActiveIn, TypeInv, Table, Row
  <2>3. Progress(w)'
    BY <1>0, <2>1 DEF Progress, Ranked, TypeInv, Opened, Writing
  <2> QED BY <1>0, <2>1, <2>2, <2>3, OthersRest
<1>6. ASSUME NEW w \in Workers, Insert(w) PROVE Goal
  <2> DEFINE f == got[w].feed
  <2>1. /\ ~Idle(w) /\ pc' = [pc EXCEPT ![w] = "deactivate"]
        /\ pc[w] = "insert" /\ UNCHANGED <<versions, serial, at, got>>
        /\ f \in Feeds /\ got[w].stamp \in Nat
    BY <1>0, <1>6 DEF Insert, Goto, Idle, Opened, TypeInv, Zip
  <2>2. /\ Stored(w, f).at = at[w] /\ Stored(w, f) \in Row
        /\ Stored(w, f).active => f \in ActiveIn(versions)
    BY <1>0, <2>1 DEF Stored, ActiveIn, TypeInv, Table, Row
  <2>3. dirty' = [dirty EXCEPT ![w] = [g \in {f} |-> Stored(w, f)]]
    <3>1. dirty[w] = Nothing
      BY <1>0, <2>1 DEF Clean, Writing
    <3> QED BY <1>6, <3>1 DEF Insert, Write, Nothing
  <2>4. Progress(w)'
    <3>1. dirty'[w] = [g \in {f} |-> Stored(w, f)]
      BY <1>0, <2>3 DEF TypeInv
    <3>2. f \in ActiveIn(dirty'[w]) => f \in ActiveIn(versions)
      BY <2>2, <3>1 DEF ActiveIn
    <3>3. at'[w] < serial' /\ \A g \in DOMAIN versions' : versions'[g].at < at'[w]
      BY <1>0, <2>1 DEF Progress, Opened
    <3>4. pc'[w] = "deactivate"
      BY <1>0, <2>1 DEF TypeInv
    <3> QED BY <2>1, <2>2, <3>1, <3>2, <3>3, <3>4 DEF Progress, Opened, Writing
  <2> QED BY <1>0, <1>r, <2>1, <2>4, OthersRest
<1>7. ASSUME NEW w \in Workers, Deactivate(w) PROVE Goal
  <2>1. /\ ~Idle(w) /\ pc' = [pc EXCEPT ![w] = "switch"] /\ pc[w] = "deactivate"
        /\ UNCHANGED <<versions, dirty, serial, at, got>>
        /\ target'[w] = ActiveIn(View(w))
    BY <1>0, <1>7 DEF Deactivate, Goto, Idle, dbVars, TypeInv
  <2>2. Progress(w)'
    BY <1>0, <2>1 DEF Progress, Opened, Writing, View, ActiveIn, TypeInv
  <2> QED BY <1>0, <1>r, <2>1, <2>2, OthersRest
<1>8. ASSUME NEW w \in Workers, Switch(w) PROVE Goal
  <2> DEFINE f == got[w].feed
             rows == OnlyActive(w)
  <2>1. /\ ~Idle(w) /\ pc' = [pc EXCEPT ![w] = "prune"] /\ pc[w] = "switch"
        /\ UNCHANGED <<versions, serial, at, got>> /\ Write(w, rows)
        /\ target[w] = ActiveIn(View(w))
        /\ DOMAIN dirty[w] = {f} /\ dirty[w][f].at = at[w]
        /\ f \in ActiveIn(dirty[w]) => f \in ActiveIn(versions)
        /\ f \in Feeds
    BY <1>0, <1>8 DEF Switch, Goto, Idle, Opened, Writing, Progress, TypeInv
  <2>2. /\ DOMAIN View(w) = DOMAIN versions \cup {f} /\ Table(View(w))
        /\ View(w)[f] = dirty[w][f]
        /\ \A g \in DOMAIN versions \ {f} : View(w)[g] = versions[g]
    BY <1>0, <2>1, Sees
  <2>3. ActiveIn(View(w)) \cup {f} = ActiveIn(versions) \cup {f}
    BY <2>1, <2>2 DEF ActiveIn
  <2>4. rows = [g \in ActiveIn(versions) \cup {f} |-> [View(w)[g] EXCEPT !.active = (g = f)]]
    BY <2>1, <2>3 DEF OnlyActive
  <2>5. \A g \in ActiveIn(versions) \cup {f} :
           /\ rows[g].active <=> g = f
           /\ rows[g].at = View(w)[g].at
    <3> SUFFICES ASSUME NEW g \in ActiveIn(versions) \cup {f}
                 PROVE  (rows[g].active <=> g = f) /\ rows[g].at = View(w)[g].at
      OBVIOUS
    <3>1. View(w)[g] \in Row
      BY <2>2 DEF ActiveIn, Table
    <3>2. rows[g] = [View(w)[g] EXCEPT !.active = (g = f)]
      BY <2>4
    <3> QED BY <3>1, <3>2, Marked
  <2>6. dirty'[w] = rows
    BY <1>0, <2>1, <2>4 DEF Write, TypeInv
  <2> HIDE DEF rows
  <2>7. ActiveIn(rows) = {f}
    BY <2>4, <2>5 DEF ActiveIn
  <2>8. \A g \in ActiveIn(versions) \ {f} : rows[g].at = versions[g].at
    BY <2>2, <2>5 DEF ActiveIn
  <2>9. at'[w] < serial' /\ \A g \in DOMAIN versions' : versions'[g].at < at'[w]
    BY <1>0, <2>1 DEF Progress, Opened, Writing
  <2>10. Progress(w)'
    <3>1. pc'[w] = "prune" /\ got'[w].feed = f /\ ActiveIn(versions)' = ActiveIn(versions)
      BY <1>0, <2>1 DEF TypeInv, ActiveIn
    <3>2. DOMAIN rows = {f} \cup ActiveIn(versions) /\ rows[f].at = at[w]
      BY <2>1, <2>2, <2>4, <2>5
    <3> HIDE DEF f
    <3>3. f \in DOMAIN dirty'[w] /\ dirty'[w][f].at = at'[w]
      BY <2>1, <2>6, <3>2
    <3>4. /\ DOMAIN dirty'[w] = {f} \cup ActiveIn(versions)'
          /\ ActiveIn(dirty'[w]) = {f}
          /\ \A g \in ActiveIn(versions)' \ {f} : dirty'[w][g].at = versions'[g].at
      BY <2>1, <2>6, <2>7, <2>8, <3>1, <3>2
    <3> QED BY <2>9, <3>1, <3>3, <3>4 DEF Progress, Opened, Writing, ActiveIn
  <2> QED BY <1>0, <1>r, <2>1, <2>10, OthersRest
<1>9. ASSUME NEW w \in Workers, Prune(w) PROVE Goal
  <2>1. /\ ~Idle(w) /\ pc' = [pc EXCEPT ![w] = "commit"] /\ pc[w] = "prune"
        /\ UNCHANGED <<versions, dirty, serial, at, got>>
        /\ target'[w] = Prunable(View(w))
    BY <1>0, <1>9 DEF Prune, Goto, Idle, dbVars, TypeInv
  <2>2. View(w)' = View(w)
    BY <2>1 DEF View
  <2>3. Prunable(View(w))' = Prunable(View(w))
    BY <2>2
  <2>4. pc'[w] = "commit"
    BY <1>0, <2>1 DEF TypeInv
  <2>5. Progress(w)'
    BY <1>0, <2>1, <2>3, <2>4 DEF Progress, Opened, Writing, ActiveIn
  <2> QED BY <1>0, <1>r, <2>1, <2>5, OthersRest
<1>10. ASSUME NEW w \in Workers, Commit(w) PROVE Goal
  <2> DEFINE f == got[w].feed
  <2>1. /\ ~Idle(w) /\ pc' = [pc EXCEPT ![w] = "load"] /\ pc[w] = "commit" /\ serial' = serial
        /\ at[w] < serial /\ at[w] \in Nat /\ serial \in Nat
        /\ \A g \in DOMAIN versions : versions[g].at < at[w] /\ versions[g].at \in Nat
    BY <1>0, <1>10 DEF Commit, Goto, Idle, Progress, Opened, Writing, TypeInv, Table, Row
  <2>2. /\ ActiveIn(versions') = {f}
        /\ DOMAIN versions' \ {f} = IF f \in ActiveIn(versions) THEN DOMAIN versions \ {f}
                                    ELSE ActiveIn(versions)
        /\ versions'[f].at = at[w]
        /\ \A g \in DOMAIN versions' \ {f} : g \in DOMAIN versions /\ versions'[g].at = versions[g].at
    BY <1>10, CommitAdopts
  <2> HIDE DEF f
  <2>3. \A g, h \in DOMAIN versions' \ {f} : g = h
    BY <1>0, <2>2 DEF Ranked, ActiveIn
  <2>4. ActiveIn(versions)' = {f}
    BY <2>2 DEF ActiveIn
  <2>5. Ranked'
    BY <2>1, <2>2, <2>3, <2>4 DEF Ranked
  <2>6. \A o \in Workers : pc'[o] \notin Opened
    BY <1>0, <2>1 DEF TypeInv, Alone, Idle, Opened, Writing
  <2> QED BY <2>5, <2>6 DEF Progress, Opened, Writing
<1>11. ASSUME NEW w \in Workers, ReadRoutes(w) \/ ReadSchedule(w) \/ ReadServices(w) PROVE Goal
  <2>1. \E l \in Places \ Opened : pc' = [pc EXCEPT ![w] = l]
    BY <1>11 DEF ReadRoutes, ReadSchedule, ReadServices, Goto, Places, Opened, Writing
  <2> QED BY <1>s, <1>11, <2>1 DEF ReadRoutes, ReadSchedule, ReadServices, Idle, dbVars
<1>12. ASSUME NEW w \in Workers, NEW from \in {"load", "schedule", "services"},
              NEW to \in {"routes", "trips", "windows"}, Choose(w, from, to)
       PROVE  Goal
  <2>1. to \in Places \ Opened
    BY DEF Places, Opened, Writing
  <2> QED BY <1>s, <1>12, <2>1 DEF Choose, Goto, Idle, dbVars
<1>13. ASSUME NEW w \in Workers, Fail(w) PROVE Goal
  <2>1. "idle" \in Places \ Opened
    BY DEF Places, Opened, Writing
  <2> QED BY <1>s, <1>13, <2>1 DEF Fail, Goto
<1> QED
  BY <1>1, <1>2, <1>3, <1>4, <1>5, <1>6, <1>7, <1>8, <1>9, <1>10, <1>11, <1>12, <1>13
     DEF Next, Step, ChooseRoutes, ChooseSchedule, ChooseServices

LEMMA FeedStep == ~Overlap /\ FeedInv /\ [Next]_vars => FeedInv'
  BY TypeStep, TurnsStep, ProgressStep DEF FeedInv

-----------------------------------------------------------------------------
\* While ingests take turns, for any feeds, calls, failures and restarts: of the
\* statements of each only the transaction's end is seen, and then one version is
\* in force and the one it replaced is kept (gtfs_static.py:333).
THEOREM RegistersCorrect == ASSUME ~Overlap PROVE Spec => Registers
<1> DEFINE serving == ActiveIn(versions)
           replaced == DOMAIN versions \ ActiveIn(versions)
<1>1. Init => Kept!RegisterInit
  BY DEF Init, Kept!RegisterInit, ActiveIn, Nothing
<1>2. FeedInv /\ [Next]_vars => [Kept!RegisterNext]_<<serving, replaced>>
  <2> SUFFICES ASSUME FeedInv, [Next]_vars, versions' # versions
               PROVE  [Kept!RegisterNext]_<<serving, replaced>>
    BY DEF ActiveIn
  <2>1. PICK w \in Workers : Commit(w)
    BY DEF Next, Step, vars, dbVars, Publish, Restart, Start, Head, Get, Check, Begin, Insert, Deactivate,
           Switch, Prune, ChooseRoutes, ChooseSchedule, ChooseServices, Choose, ReadRoutes, ReadSchedule,
           ReadServices, Fail
  <2>2. PICK f \in Feeds :
           /\ ActiveIn(versions') = {f}
           /\ DOMAIN versions' \ {f} = IF f \in ActiveIn(versions) THEN DOMAIN versions \ {f}
                                       ELSE ActiveIn(versions)
    BY <2>1, CommitAdopts
  <2>3. serving' = {f} /\ replaced' = DOMAIN versions' \ {f}
    BY <2>2 DEF ActiveIn
  <2>4. CASE f \in serving
    <3>1. serving = {f}
      BY <2>4 DEF FeedInv, Ranked, ActiveIn
    <3> QED BY <2>2, <2>3, <2>4, <3>1
  <2>5. CASE f \notin serving
    <3>1. replaced' = serving
      BY <2>2, <2>3, <2>5
    <3> HIDE DEF serving, replaced
    <3>2. Kept!Adopt(f)
      BY <2>3, <2>5, <3>1 DEF Kept!Adopt, serving, replaced
    <3> QED BY <3>2 DEF Kept!RegisterNext
  <2> QED BY <2>4, <2>5
<1> QED BY <1>1, <1>2, FeedInitial, FeedStep, PTL DEF Spec, Registers, Kept!Register

-----------------------------------------------------------------------------
Serves(f) == \A g \in ActiveIn(versions) : f = g

\* What a loader has chosen or set is the version in force, as far as it has come.
Loading(w) ==
    /\ pc[w] \in {"routes", "trips", "windows"} => Serves(pick[w])
    /\ pc[w] \in {"schedule", "trips"} => Serves(loaded[w])
    /\ pc[w] \in {"services", "windows"} => Serves(mem.routes)

MemoryInv ==
    /\ FeedInv
    /\ \A w \in Workers : Loading(w)
    /\ settled => Resting /\ Serves(mem.routes) /\ Serves(mem.services)

\* One version at most is in force, so whichever the query returns, it is that one,
\* and its rows are there.
LEMMA OneCandidate ==
    ASSUME FeedInv PROVE \A f \in Candidates : Serves(f)
  BY DEF FeedInv, Ranked, Candidates, Serves, ActiveIn

LEMMA RowsServe ==
    ASSUME NEW w \in Workers, Serves(pick[w]) PROVE Serves(Rows(w))
  BY DEF Rows, Serves, ActiveIn

LEMMA MemoryStep == ~Overlap /\ MemoryInv /\ [Next]_vars => MemoryInv'
<1> SUFFICES ASSUME ~Overlap, MemoryInv, [Next]_vars PROVE MemoryInv'
  OBVIOUS
<1>0. /\ FeedInv' /\ TypeInv /\ Alone
      /\ \A w \in Workers : Loading(w)
      /\ settled => Resting /\ Serves(mem.routes) /\ Serves(mem.services)
  BY FeedStep DEF MemoryInv, FeedInv
<1> DEFINE Goal == /\ \A w \in Workers : Loading(w)'
                   /\ settled' => Resting' /\ Serves(mem.routes)' /\ Serves(mem.services)'
<1> SUFFICES Goal
  BY <1>0 DEF MemoryInv
<1>v. ASSUME UNCHANGED versions PROVE ActiveIn(versions)' = ActiveIn(versions)
  BY <1>v DEF ActiveIn
\* While a call is under way nothing is settled, and the others have chosen nothing.
<1>w. ASSUME NEW w \in Workers, ~Idle(w), NEW l, pc' = [pc EXCEPT ![w] = l]
      PROVE  /\ ~settled /\ pc'[w] = l
             /\ \A o \in Workers \ {w} : Idle(o) /\ Loading(o)'
  <2>1. \A o \in Workers \ {w} : pc'[o] = "idle" /\ Idle(o)
    BY <1>0, <1>w DEF TypeInv, Alone, Idle
  <2> QED BY <1>0, <1>w, <2>1 DEF Resting, Loading, TypeInv
<1>1. CASE UNCHANGED vars \/ Publish
  <2>1. UNCHANGED <<versions, pc, pick, loaded, mem, settled>>
    BY <1>1 DEF vars, Publish, dbVars, callVars, memVars
  <2> QED BY <1>0, <1>v, <2>1 DEF Loading, Serves, Resting, Idle
<1>2. CASE Restart
  <2>1. \A w \in Workers : pc'[w] \in {"head", "load", "idle"}
    BY <1>2 DEF Restart
  <2> QED BY <1>2, <2>1 DEF Restart, Loading
<1>3. ASSUME NEW w \in Workers, Start(w) PROVE Goal
  <2>1. \E l \in {"get", "head"} : pc' = [pc EXCEPT ![w] = l]
    BY <1>3 DEF Start, Goto
  <2>2. \A o \in Workers : pc'[o] \in {"get", "head", "idle"}
    BY <1>0, <1>3, <2>1 DEF Start, Resting, Idle, TypeInv
  <2> QED BY <1>3, <2>2 DEF Start, Loading
\* The steps before the loaders.
<1>4. ASSUME NEW w \in Workers, ~Idle(w), UNCHANGED settled,
             NEW l \in {"get", "check", "begin", "load", "idle"} \cup Opened, pc' = [pc EXCEPT ![w] = l]
      PROVE  Goal
  <2>1. Loading(w)'
    BY <1>4, <1>w DEF Loading, Opened, Writing
  <2> QED BY <1>4, <1>w, <2>1
<1>5. ASSUME NEW w \in Workers,
             \/ Head(w) \/ Get(w) \/ Check(w) \/ Begin(w) \/ Insert(w) \/ Deactivate(w) \/ Switch(w)
             \/ Prune(w) \/ Commit(w) \/ Fail(w)
      PROVE  Goal
  <2>1. ~Idle(w) /\ UNCHANGED settled
    BY <1>5 DEF Head, Get, Check, Begin, Insert, Deactivate, Switch, Prune, Commit, Fail, Idle
  <2>2. \E l \in {"get", "check", "begin", "load", "idle"} \cup Opened : pc' = [pc EXCEPT ![w] = l]
    BY <1>5 DEF Head, Get, Check, Begin, Insert, Deactivate, Switch, Prune, Commit, Fail, Goto, Opened, Writing
  <2> QED BY <1>4, <2>1, <2>2
<1>6. ASSUME NEW w \in Workers, ChooseRoutes(w) \/ ChooseSchedule(w) \/ ChooseServices(w) PROVE Goal
  <2>1. PICK from \in {"load", "schedule", "services"}, to \in {"routes", "trips", "windows"} :
           /\ Choose(w, from, to)
           /\ from = "load" => to = "routes"
           /\ from = "schedule" => to = "trips"
           /\ from = "services" => to = "windows"
    BY <1>6 DEF ChooseRoutes, ChooseSchedule, ChooseServices
  <2>2. /\ ~Idle(w) /\ pc[w] = from /\ pc' = [pc EXCEPT ![w] = to]
        /\ UNCHANGED <<versions, loaded, mem, settled>>
        /\ pick'[w] \in Candidates
    BY <1>0, <2>1 DEF Choose, Goto, Idle, dbVars, memVars, TypeInv
  <2>3. Serves(pick'[w])
    BY <2>2, OneCandidate DEF MemoryInv
  <2>4. Loading(w)'
    BY <1>0, <1>v, <1>w, <2>1, <2>2, <2>3 DEF Loading, Serves
  <2> QED BY <1>w, <2>2, <2>4
<1>7. ASSUME NEW w \in Workers, ReadRoutes(w) PROVE Goal
  <2>1. /\ ~Idle(w) /\ UNCHANGED <<versions, settled>> /\ Serves(Rows(w))
        /\ \/ pc' = [pc EXCEPT ![w] = "schedule"] /\ loaded'[w] = Rows(w)
           \/ pc' = [pc EXCEPT ![w] = "services"] /\ mem'.routes = Rows(w)
    BY <1>0, <1>7, RowsServe DEF ReadRoutes, Goto, Idle, dbVars, Loading, TypeInv, Memory
  <2>2. /\ \/ pc'[w] = "schedule" /\ loaded'[w] = Rows(w)
           \/ pc'[w] = "services" /\ mem'.routes = Rows(w)
        /\ \A g \in ActiveIn(versions)' : Rows(w) = g
    BY <1>v, <1>w, <2>1 DEF Serves
  <2>3. Loading(w)'
    BY <2>2 DEF Loading, Serves
  <2> QED BY <1>w, <2>1, <2>3
<1>8. ASSUME NEW w \in Workers, ReadSchedule(w) PROVE Goal
  <2>1. /\ ~Idle(w) /\ UNCHANGED <<versions, settled>> /\ Serves(loaded[w])
        /\ pc' = [pc EXCEPT ![w] = "services"] /\ mem'.routes = loaded[w]
    BY <1>0, <1>8 DEF ReadSchedule, Goto, Idle, dbVars, Loading, TypeInv, Memory
  <2>2. pc'[w] = "services" /\ \A g \in ActiveIn(versions)' : mem'.routes = g
    BY <1>v, <1>w, <2>1 DEF Serves
  <2>3. Loading(w)'
    BY <2>2 DEF Loading, Serves
  <2> QED BY <1>w, <2>1, <2>3
<1>9. ASSUME NEW w \in Workers, ReadServices(w) PROVE Goal
  <2>1. /\ ~Idle(w) /\ UNCHANGED versions /\ pc' = [pc EXCEPT ![w] = "idle"]
        /\ Serves(mem.routes) /\ Serves(Rows(w))
        /\ mem'.routes = mem.routes /\ mem'.services = Rows(w)
    BY <1>0, <1>9, RowsServe DEF ReadServices, Goto, Idle, dbVars, Loading, TypeInv, Memory
  <2>2. Resting'
    BY <1>0, <2>1 DEF Resting, Idle, Alone, TypeInv
  <2>3. pc'[w] = "idle" /\ \A g \in ActiveIn(versions)' : mem'.routes = g /\ mem'.services = g
    BY <1>v, <1>w, <2>1 DEF Serves
  <2>4. Loading(w)'
    BY <2>3 DEF Loading
  <2>5. Serves(mem.routes)' /\ Serves(mem.services)'
    BY <2>3 DEF Serves
  <2> QED BY <1>w, <2>1, <2>2, <2>4, <2>5
<1> QED BY <1>1, <1>2, <1>3, <1>5, <1>6, <1>7, <1>8, <1>9 DEF Next, Step

\* While calls take turns, once one has ended well riders are answered from the
\* version in force, for routes and for service days, whoever called and whatever
\* was published, failed or restarted before (main.py:110, routers/admin.py:363).
THEOREM MemoryFollowsCorrect == ASSUME ~Overlap PROVE Spec => []MemoryFollows
<1>1. MemoryInv => MemoryFollows
  BY DEF MemoryInv, MemoryFollows, Serves
<1>2. Init => MemoryInv
  BY FeedInitial DEF Init, MemoryInv, Loading
<1> QED BY <1>1, <1>2, MemoryStep, PTL DEF Spec
=============================================================================
