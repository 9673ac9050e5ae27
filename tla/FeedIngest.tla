----------------------------- MODULE FeedIngest -----------------------------
(***************************************************************************)
(* The static feed of one city: the ingest of app/gtfs_static.py as it     *)
(* runs against Postgres, and the copy of the active version that          *)
(* _bootstrap_static (app/main.py) and the admin's ingest-static           *)
(* (app/routers/admin.py) put in the process's memory.                     *)
(*                                                                         *)
(* A worker is one call of either: "boot" stands for the start-up task and *)
(* the refresh loop, any other worker for a call of the admin endpoint.    *)
(* The transaction runs at READ COMMITTED, one step per statement: a       *)
(* statement sees what was committed when it began, and waits for the rows *)
(* another transaction has written.                                        *)
(***************************************************************************)
EXTENDS Integers, FiniteSets

CONSTANTS
    Workers,        \* "boot" and the admin's calls
    Feeds,          \* the zips the agency may publish: one per sha256
    Whole,          \* the feeds that leave trips, stops and start times stored
    None,           \* no feed
    Overlap,        \* TRUE: an ingest may start while another one runs
    Stamped,        \* TRUE: the server sends Last-Modified
    MaxPublish, MaxTx, MaxForced, MaxFaults   \* bounds on a behaviour

ASSUME FeedsAssumption ==
    /\ IsFiniteSet(Feeds) /\ Whole \subseteq Feeds /\ None \notin Feeds
    /\ "boot" \in Workers
    /\ Overlap \in BOOLEAN /\ Stamped \in BOOLEAN
ASSUME BoundsAssumption ==
    {MaxPublish, MaxTx, MaxForced, MaxFaults} \subseteq Nat

VARIABLES
    url,        \* what the agency serves: [feed, stamp]
    versions,   \* feed_version, committed: sha -> [id, at, active, stamp]
    dirty,      \* worker -> the rows its open transaction has written
    serial,     \* the next id, and the next transaction's now()
    pc,         \* worker -> where its call is
    got,        \* worker -> [feed, stamp] downloaded
    force,      \* worker -> its `force` argument
    at,         \* worker -> now() of its transaction
    target,     \* worker -> the rows its current statement will write
    pick,       \* worker -> the version a loader has chosen
    loaded,     \* worker -> the route index loaded and not yet set
    mem,        \* the runtime: [routes, schedule, services]
    ready, error,   \* static_ready, ingest_error
    \* what a reader of the history knows:
    settled,    \* the last call ended well, and none has started since
    pubs, forced, faults    \* used of the bounds

dbVars == <<versions, dirty, serial>>
callVars == <<pc, got, force, at, target, pick, loaded>>
memVars == <<mem, ready, error>>
boundVars == <<pubs, forced, faults>>
vars == <<url, dbVars, callVars, memVars, settled, boundVars>>

NoStamp == 0
Nothing == [f \in {} |-> 0]
Idle(w) == pc[w] = "idle"
Resting == \A w \in Workers : Idle(w)
Goto(w, l) == pc' = [pc EXCEPT ![w] = l]

ActiveIn(db) == {f \in DOMAIN db : db[f].active}

\* What worker w's transaction sees: what is committed, under its own writes.
View(w) == [f \in DOMAIN versions \cup DOMAIN dirty[w] |->
              IF f \in DOMAIN dirty[w] THEN dirty[w][f] ELSE versions[f]]

\* A transaction waits for the rows the others have written.
Locked(w, S) == \E o \in Workers \ {w} : DOMAIN dirty[o] \cap S # {}

Write(w, rows) ==
    dirty' = [dirty EXCEPT ![w] = [f \in DOMAIN @ \cup DOMAIN rows |->
                                     IF f \in DOMAIN rows THEN rows[f] ELSE @[f]]]

Init ==
    /\ \E f \in Feeds : url = [feed |-> f, stamp |-> IF Stamped THEN 1 ELSE NoStamp]
    /\ versions = Nothing /\ dirty = [w \in Workers |-> Nothing] /\ serial = 1
    /\ \E l \in {"head", "load"} : pc = [w \in Workers |-> IF w = "boot" THEN l ELSE "idle"]
    /\ got = [w \in Workers |-> [feed |-> None, stamp |-> NoStamp]]
    /\ force = [w \in Workers |-> FALSE] /\ at = [w \in Workers |-> 0]
    /\ target = [w \in Workers |-> {}] /\ pick = [w \in Workers |-> None]
    /\ loaded = [w \in Workers |-> None]
    /\ mem = [routes |-> None, schedule |-> None, services |-> None]
    /\ ready = FALSE /\ error = FALSE
    /\ settled = FALSE
    /\ pubs = 0 /\ forced = 0 /\ faults = 0

-----------------------------------------------------------------------------
(* The agency publishes, or uploads again, any feed.                       *)
Publish ==
    /\ pubs < MaxPublish
    /\ \E f \in Feeds :
          url' = [feed |-> f, stamp |-> IF Stamped THEN pubs + 2 ELSE NoStamp]
    /\ pubs' = pubs + 1
    /\ UNCHANGED <<dbVars, callVars, memVars, settled, forced, faults>>

\* The refresh timer of _static_loop, or an admin's POST.  A forced ingest
\* does not look at Last-Modified.
Start(w) ==
    /\ Idle(w)
    /\ Overlap \/ Resting
    /\ \E b \in BOOLEAN :
          /\ b => w # "boot" /\ forced < MaxForced
          /\ force' = [force EXCEPT ![w] = b]
          /\ forced' = IF b THEN forced + 1 ELSE forced
          /\ Goto(w, IF b THEN "get" ELSE "head")
    /\ settled' = FALSE
    /\ UNCHANGED <<url, dbVars, got, at, target, pick, loaded, memVars, pubs, faults>>

\* Mutant: a server that does not say when has nothing new.
UnchangedIfUnsaid(stamp) ==
    stamp = NoStamp \/ \E f \in ActiveIn(versions) : versions[f].stamp = stamp /\ f \in Whole

\* _unchanged_upstream: the HEAD, which may fail or lack the header, and the
\* active version that carries the same Last-Modified.
Unchanged(stamp) ==
    stamp # NoStamp /\ \E f \in ActiveIn(versions) : versions[f].stamp = stamp /\ f \in Whole

Head(w) ==
    /\ pc[w] = "head"
    /\ \E h \in {url.stamp, NoStamp} : Goto(w, IF Unchanged(h) THEN "load" ELSE "get")
    /\ UNCHANGED <<url, dbVars, got, force, at, target, pick, loaded, memVars, settled,
                   boundVars>>

Get(w) ==
    /\ pc[w] = "get"
    /\ got' = [got EXCEPT ![w] = url]
    /\ Goto(w, "check")
    /\ UNCHANGED <<url, dbVars, force, at, target, pick, loaded, memVars, settled,
                   boundVars>>

\* The same zip is the active version already, and nothing it should hold is missing.
AlreadyServed(w) ==
    LET f == got[w].feed
    IN  ~force[w] /\ f \in ActiveIn(versions) /\ f \in Whole

Check(w) ==
    /\ pc[w] = "check"
    /\ Goto(w, IF AlreadyServed(w) THEN "load" ELSE "begin")
    /\ UNCHANGED <<url, dbVars, got, force, at, target, pick, loaded, memVars, settled,
                   boundVars>>

-----------------------------------------------------------------------------
(* The transaction that stores and activates the version.                  *)

\* BEGIN: now() is fixed for the whole transaction.
Begin(w) ==
    /\ pc[w] = "begin" /\ serial <= MaxTx
    /\ at' = [at EXCEPT ![w] = serial]
    /\ serial' = serial + 1
    /\ Goto(w, "insert")
    /\ UNCHANGED <<url, versions, dirty, got, force, target, pick, loaded, memVars, settled,
                   boundVars>>

\* INSERT ... ON CONFLICT DO UPDATE, and the rows of the version written anew.
\* A version stored before keeps its id, its Last-Modified and its is_active.
Stored(w, f) ==
    IF f \in DOMAIN versions THEN [versions[f] EXCEPT !.at = at[w]]
    ELSE [id |-> at[w], at |-> at[w], active |-> FALSE, stamp |-> got[w].stamp]

Insert(w) ==
    LET f == got[w].feed
    IN  /\ pc[w] = "insert" /\ ~Locked(w, {f})
        /\ Write(w, [g \in {f} |-> Stored(w, f)])
        /\ Goto(w, "deactivate")
        /\ UNCHANGED <<url, versions, serial, got, force, at, target, pick, loaded, memVars, settled, boundVars>>

\* UPDATE ... SET is_active=FALSE begins: the rows it has found.
Deactivate(w) ==
    /\ pc[w] = "deactivate"
    /\ target' = [target EXCEPT ![w] = ActiveIn(View(w))]
    /\ Goto(w, "switch")
    /\ UNCHANGED <<url, dbVars, got, force, at, pick, loaded, memVars, settled, boundVars>>

\* The rows the two UPDATEs write: those still active, and the new version.
OnlyActive(w) ==
    LET f == got[w].feed
        off == target[w] \cap ActiveIn(View(w))
    IN  [g \in off \cup {f} |-> [View(w)[g] EXCEPT !.active = (g = f)]]

\* The UPDATE ends once the locks of its rows are free, and the new version's
\* own follows.
Switch(w) ==
    /\ pc[w] = "switch" /\ ~Locked(w, target[w])
    /\ Write(w, OnlyActive(w))
    /\ target' = [target EXCEPT ![w] = {}]
    /\ Goto(w, "prune")
    /\ UNCHANGED <<url, versions, serial, got, force, at, pick, loaded, memVars, settled,
                   boundVars>>

\* Mutant: all but the one fetched last.
AllButOne(db) ==
    {f \in DOMAIN db : Cardinality({g \in DOMAIN db : db[g].at > db[f].at}) >= 1}

\* All but the two fetched last.
Prunable(db) ==
    {f \in DOMAIN db : Cardinality({g \in DOMAIN db : db[g].at > db[f].at}) >= 2}

Prune(w) ==
    /\ pc[w] = "prune"
    /\ target' = [target EXCEPT ![w] = Prunable(View(w))]
    /\ Goto(w, "commit")
    /\ UNCHANGED <<url, dbVars, got, force, at, pick, loaded, memVars, settled, boundVars>>

\* The DELETE ends and the transaction commits.
Commit(w) ==
    LET db == View(w)
    IN  /\ pc[w] = "commit" /\ ~Locked(w, target[w])
        /\ versions' = [f \in DOMAIN db \ target[w] |-> db[f]]
        /\ dirty' = [dirty EXCEPT ![w] = Nothing]
        /\ target' = [target EXCEPT ![w] = {}]
        /\ Goto(w, "load")
        /\ UNCHANGED <<url, serial, got, force, at, pick, loaded, memVars, settled, boundVars>>

-----------------------------------------------------------------------------
(* The loaders.  Each asks for an active version, LIMIT 1, then for its    *)
(* rows: a version deleted in between has none.                            *)

\* Mutant: the query forgets is_active.
AnyStored == IF versions = Nothing THEN {None} ELSE DOMAIN versions

\* WHERE is_active LIMIT 1: the versions the query may return.
Candidates == IF ActiveIn(versions) = {} THEN {None} ELSE ActiveIn(versions)

Choose(w, from, to) ==
    /\ pc[w] = from
    /\ \E f \in Candidates : pick' = [pick EXCEPT ![w] = f]
    /\ Goto(w, to)
    /\ UNCHANGED <<url, dbVars, got, force, at, target, loaded, memVars, settled, boundVars>>

Rows(w) == IF pick[w] \in DOMAIN versions THEN pick[w] ELSE None

ChooseRoutes(w) == Choose(w, "load", "routes")
ChooseSchedule(w) == Choose(w, "schedule", "trips")
ChooseServices(w) == Choose(w, "services", "windows")

\* The admin's call sets the routes and trips at once, and no schedule.
ReadRoutes(w) ==
    /\ pc[w] = "routes"
    /\ IF w = "boot"
       THEN /\ loaded' = [loaded EXCEPT ![w] = Rows(w)]
            /\ Goto(w, "schedule") /\ UNCHANGED mem
       ELSE /\ mem' = [mem EXCEPT !.routes = Rows(w)]
            /\ Goto(w, "services") /\ UNCHANGED loaded
    /\ UNCHANGED <<url, dbVars, got, force, at, target, pick, ready, error, settled,
                   boundVars>>

ReadSchedule(w) ==
    /\ pc[w] = "trips"
    /\ mem' = [mem EXCEPT !.routes = loaded[w], !.schedule = Rows(w)]
    /\ loaded' = [loaded EXCEPT ![w] = None]
    /\ Goto(w, "services")
    /\ UNCHANGED <<url, dbVars, got, force, at, target, pick, ready, error, settled, boundVars>>

ReadServices(w) ==
    /\ pc[w] = "windows"
    /\ mem' = [mem EXCEPT !.services = Rows(w)]
    /\ IF w = "boot" THEN ready' = (mem.routes # None) /\ error' = FALSE
                     ELSE ready' = TRUE /\ UNCHANGED error
    /\ settled' = (\A o \in Workers \ {w} : Idle(o))
    /\ pick' = [pick EXCEPT ![w] = None]
    /\ Goto(w, "idle")
    /\ UNCHANGED <<url, dbVars, got, force, at, target, loaded, boundVars>>

-----------------------------------------------------------------------------
(* Failures: a download, a zip without its files, a query, or the abort    *)
(* Postgres resolves a deadlock with.  The transaction rolls back; the     *)
(* start-up task and the loop keep the error, the endpoint answers 500.    *)

Rollback(w) == dirty' = [dirty EXCEPT ![w] = Nothing]

Fail(w) ==
    /\ ~Idle(w) /\ faults < MaxFaults
    /\ faults' = faults + 1
    /\ Rollback(w)
    /\ target' = [target EXCEPT ![w] = {}]
    /\ pick' = [pick EXCEPT ![w] = None]
    /\ loaded' = [loaded EXCEPT ![w] = None]
    /\ error' = (IF w = "boot" THEN TRUE ELSE error)
    /\ Goto(w, "idle")
    /\ UNCHANGED <<url, versions, serial, got, force, at, mem, ready, settled, pubs, forced>>

\* The process stops, wherever it is, and starts again.
Restart ==
    /\ faults < MaxFaults
    /\ faults' = faults + 1
    /\ dirty' = [w \in Workers |-> Nothing]
    /\ target' = [w \in Workers |-> {}] /\ pick' = [w \in Workers |-> None]
    /\ loaded' = [w \in Workers |-> None] /\ force' = [w \in Workers |-> FALSE]
    /\ \E l \in {"head", "load"} : pc' = [w \in Workers |-> IF w = "boot" THEN l ELSE "idle"]
    /\ mem' = [routes |-> None, schedule |-> None, services |-> None]
    /\ ready' = FALSE /\ error' = FALSE /\ settled' = FALSE
    /\ UNCHANGED <<url, versions, serial, got, at, pubs, forced>>

Step(w) ==
    \/ Head(w) \/ Get(w) \/ Check(w)
    \/ Begin(w) \/ Insert(w) \/ Deactivate(w) \/ Switch(w) \/ Prune(w) \/ Commit(w)
    \/ ChooseRoutes(w) \/ ReadRoutes(w) \/ ChooseSchedule(w) \/ ReadSchedule(w)
    \/ ChooseServices(w) \/ ReadServices(w)

Next ==
    \/ Publish \/ Restart
    \/ \E w \in Workers : Start(w) \/ Step(w) \/ Fail(w)

Spec == Init /\ [][Next]_vars

\* The loop's timer goes off again and again, and a call that has begun goes
\* on; when the agency publishes and when anything fails is left open.
FairSpec == Spec /\ \A w \in Workers : WF_vars(Step(w)) /\ SF_vars(w = "boot" /\ Start(w))

-----------------------------------------------------------------------------
\* ingest: while ingests do not overlap, the many statements of each, whatever
\* fails, restarts or is published again, come to one step of a register that
\* keeps one version active, and of the others the one it replaced.
Kept == INSTANCE VersionRegister WITH
            serving <- ActiveIn(versions), replaced <- DOMAIN versions \ ActiveIn(versions)
Registers == Kept!Register

\* _bootstrap_static and ingest_static: when a call has ended well, with none
\* since, riders are answered from the version the database holds active,
\* from the same one for routes and for service days.
MemoryFollows ==
    settled => \A f \in Feeds : (f \in ActiveIn(versions)) =>
                  mem.routes = f /\ mem.services = f

\* _static_loop: what the agency goes on publishing is in the end what the
\* process answers from - while there are transactions left to store it.
Adopts == \A f \in Feeds :
    <>[](url.feed = f) => <>(serial > MaxTx) \/ <>[](mem.routes = f /\ mem.services = f)

=============================================================================
