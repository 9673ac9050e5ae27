---------------------------- MODULE PushDelivery ----------------------------
(***************************************************************************)
(* Pushes for scheduled trips of one city (app/push.py, app/routers/       *)
(* push.py, and _push_loop of app/main.py): the device table, the pass     *)
(* that sends the due wake-ups and then the new alerts, the phones that    *)
(* register and unregister while a pass is under way, and the restarts     *)
(* that lose what the loop keeps in memory.                                *)
(*                                                                         *)
(* Every await of the pass is the boundary of a step.  Time is counted in  *)
(* minutes.  The order of a pass over its rows is left open: the queries   *)
(* it reads them with name none.                                           *)
(***************************************************************************)
EXTENDS Integers, FiniteSets

CONSTANTS
    Tokens,         \* device tokens
    Reachable,      \* those whose platform has a transport
    Alerts,         \* alert ids, as integers: their order is the ids' order
    AlertRoutes,    \* alert id -> the route ids parse_alerts gives it
    PhoneRoutes,    \* the sets of route ids a phone may register
    Bare,           \* route id -> the feed's own id: "bogota:G30" is "G30"
    MaxWakes,       \* MAX_WAKES: how many of the instants asked for are kept
    Window,         \* WAKE_WINDOW
    Period,         \* the loop's wait between passes
    DayLength,
    MaxPerDay,      \* MAX_ALERT_PUSHES_PER_DAY
    Keep,           \* how many alert ids a row remembers
    MaxTime, MaxRegistrations, MaxRestarts   \* bounds on a behaviour

ASSUME TokensAssumption == Reachable \subseteq Tokens
ASSUME AlertsAssumption ==
    /\ Alerts \subseteq Nat /\ IsFiniteSet(Alerts)
    /\ DOMAIN AlertRoutes = Alerts
ASSUME NumbersAssumption ==
    /\ {MaxWakes, Window, MaxPerDay, MaxTime, MaxRegistrations, MaxRestarts} \subseteq Nat
    /\ {Period, DayLength, Keep} \subseteq Nat \ {0}
\* A pass looks further back than the loop waits: two minutes against one.
ASSUME WindowAssumption == Period <= Window

VARIABLES
    clock,      \* minutes since the epoch
    device,     \* push_device: token -> [wake, routes, alerts]
    active,     \* ids of the city's active alerts
    pc,         \* where the loop is
    now,        \* the pass's `now`
    rows,       \* rows of the current query still to visit: token -> row
    cur,        \* the device, reason and ok of the send being recorded
    todo,       \* alerts_to_push still to fan out
    alert,      \* the alert being fanned out
    seen,       \* alert ids this process has fanned out
    counts,     \* today_counts
    day,        \* the day `counts` belongs to
    wakeup,     \* when the loop's wait ends
    \* what the outside world has seen:
    woke,       \* <<token, instant>> -> wake-ups sent
    granted,    \* <<token, instant>> -> times the phone asked for that instant
    pushed,     \* <<token, alert>> -> pushes of that alert sent
    forgotten,  \* token -> times the service deleted its row
    cut,        \* token -> sends to it the service failed to write down
    timely,     \* <<token, instant>> asked for before the instant came
    late,       \* a pass has failed, taken time or started late
    today,      \* token -> alert pushes acknowledged since midnight
    regs, restarts, \* used of the two bounds
    spans       \* counters the current day has been through

dbVars == <<device>>
loopVars == <<pc, now, rows, cur, todo, alert, seen, counts, day, wakeup>>
logVars == <<woke, granted, pushed, forgotten, cut, timely, late, today, spans>>
boundVars == <<regs, restarts>>
vars == <<clock, dbVars, active, loopVars, logVars, boundVars>>

Instants == 0 .. MaxTime
Row == [wake: SUBSET Instants, routes: SUBSET UNION PhoneRoutes, alerts: SUBSET Alerts]
NoRows == [t \in {} |-> 0]
Outcomes == {"ok", "failed", "lost", "dead"}
NoAlert == -1
NoSend == [token |-> "none", out |-> "none"]
Today == clock \div DayLength
Bump(f, k) == [f EXCEPT ![k] = @ + 1]
Without(f, k) == [t \in DOMAIN f \ {k} |-> f[t]]

-----------------------------------------------------------------------------
(* The phones (PUT and DELETE .../push/devices) and the alert feed.        *)

\* normalize_registration: of the instants asked for, the earliest MaxWakes
\* that are not more than Window past.
WakesKept(asked) ==
    LET sane == {i \in asked : i >= clock - Window}
    IN  {i \in sane : Cardinality({j \in sane : j < i}) < MaxWakes}

\* upsert: the row's lists are replaced, the alerts it remembers are not.
Upserted(t, W, R) ==
    [d \in DOMAIN device \cup {t} |->
        IF d # t THEN device[d]
        ELSE [wake |-> W, routes |-> R, alerts |-> IF t \in DOMAIN device THEN device[t].alerts ELSE {}]]

\* A token that no transport reaches is answered the same, and not stored.
Register(t) ==
    /\ t \in Reachable /\ regs < MaxRegistrations
    /\ \E asked \in {A \in SUBSET Instants : Cardinality(A) <= MaxWakes + 1}, R \in PhoneRoutes :
          LET W == WakesKept(asked)
          IN  /\ device' = Upserted(t, W, R)
              /\ granted' = [k \in DOMAIN granted |->
                               IF k[1] = t /\ k[2] \in W THEN granted[k] + 1 ELSE granted[k]]
              /\ timely' = {k \in timely : k[1] # t}
                               \cup {<<t, i>> : i \in {j \in W : j >= clock}}
    /\ regs' = regs + 1
    /\ UNCHANGED <<clock, active, loopVars, woke, pushed, forgotten, cut, late, today, spans,
                   restarts>>

Unregister(t) ==
    /\ t \in DOMAIN device
    /\ device' = Without(device, t)
    /\ forgotten' = Bump(forgotten, t)
    /\ UNCHANGED <<clock, active, loopVars, woke, granted, pushed, cut, timely, late, today, spans,
                   boundVars>>

ChangeAlerts ==
    /\ \E A \in SUBSET Alerts : A # active /\ active' = A
    /\ UNCHANGED <<clock, dbVars, loopVars, logVars, boundVars>>

-----------------------------------------------------------------------------
(* One pass of the loop.                                                   *)

\* Mutant: an instant is due only in the minute it names.
DueThatMinute(n) == {t \in DOMAIN device : n \in device[t].wake}

Due(n) == {t \in DOMAIN device : \E i \in device[t].wake : n - Window <= i /\ i <= n}

RowsOf(S) == [t \in S |-> device[t]]

\* The loop wakes up, rolls the day over and reads the devices due.
StartPass ==
    /\ pc = "idle" /\ clock >= wakeup
    /\ IF Today # day THEN counts' = [t \in Tokens |-> 0] /\ day' = Today
                           /\ spans' = spans + 1
                      ELSE UNCHANGED <<counts, day, spans>>
    /\ now' = clock
    /\ rows' = RowsOf(Due(clock))
    /\ pc' = "wakes"
    /\ UNCHANGED <<clock, dbVars, active, cur, todo, alert, seen, wakeup,
                   woke, granted, pushed, forgotten, cut, timely, late, today, boundVars>>

Visit(t) ==
    /\ t \in DOMAIN rows
    /\ rows' = Without(rows, t)

\* No transport for the platform: the row is passed over.
SkipUnreachable(t) ==
    /\ pc \in {"wakes", "fan"} /\ t \notin Reachable
    /\ Visit(t)
    /\ UNCHANGED <<clock, dbVars, active, pc, now, cur, todo, alert, seen, counts, day,
                   wakeup, logVars, boundVars>>

Arrives(o) == o \in {"ok", "lost"}

SendWake(t) ==
    /\ pc = "wakes" /\ t \in Reachable
    /\ Visit(t)
    /\ \E o \in Outcomes :
          /\ cur' = [token |-> t, out |-> o]
          /\ woke' = [k \in DOMAIN woke |->
                        IF /\ Arrives(o) /\ k[1] = t
                           /\ k[2] \in rows[t].wake /\ now - Window <= k[2] /\ k[2] <= now
                        THEN woke[k] + 1 ELSE woke[k]]
    /\ pc' = "consume"
    /\ UNCHANGED <<clock, dbVars, active, now, todo, alert, seen, counts, day, wakeup,
                   granted, pushed, forgotten, cut, timely, late, today, spans, boundVars>>

\* Only a dead token is still looked at once the send is written down.
AfterSend(dead, alive) ==
    IF cur.out = "dead" THEN pc' = dead /\ UNCHANGED cur
    ELSE pc' = alive /\ cur' = NoSend

\* Mutant: the instant of the pass itself stays.
LeftFromNow(W) == {i \in W : i >= now}

\* WHERE t > $3: the instants a consumed wake-up leaves.
Left(W) == {i \in W : i > now}

\* consume_wake, whatever became of the send; then a dead token loses its row.
ConsumeWake ==
    /\ pc = "consume"
    /\ LET t == cur.token
       IN  device' = IF t \in DOMAIN device
                     THEN [device EXCEPT ![t].wake = Left(@)]
                     ELSE device
    /\ AfterSend("forgetWake", "wakes")
    /\ UNCHANGED <<clock, active, now, rows, todo, alert, seen, counts, day, wakeup,
                   logVars, boundVars>>

ForgetDead(from, to) ==
    /\ pc = from
    /\ device' = Without(device, cur.token)
    /\ forgotten' = IF cur.token \in DOMAIN device THEN Bump(forgotten, cur.token) ELSE forgotten
    /\ pc' = to /\ cur' = NoSend
    /\ UNCHANGED <<clock, active, now, rows, todo, alert, seen, counts, day, wakeup,
                   woke, granted, pushed, cut, timely, late, today, spans, boundVars>>

ForgetDeadWake == ForgetDead("forgetWake", "wakes")

AlertsToPush == {a \in active \ seen : AlertRoutes[a] # {}}

StartAlerts ==
    /\ pc = "wakes" /\ DOMAIN rows = {}
    /\ todo' = AlertsToPush
    /\ pc' = "alerts"
    /\ UNCHANGED <<clock, dbVars, active, now, rows, cur, alert, seen, counts, day, wakeup,
                   logVars, boundVars>>

\* Mutant: only a device that follows every route of the alert.
FollowingAll(a) == {t \in DOMAIN device : AlertRoutes[a] \subseteq device[t].routes}

Following(a) == {t \in DOMAIN device : device[t].routes \cap AlertRoutes[a] # {}}

\* The alert counts as seen before the first device is even looked up.
FanOut ==
    /\ pc = "alerts"
    /\ \E a \in todo :
          /\ alert' = a
          /\ todo' = todo \ {a}
          /\ seen' = seen \cup {a}
          /\ rows' = RowsOf(Following(a))
    /\ pc' = "fan"
    /\ UNCHANGED <<clock, dbVars, active, now, cur, counts, day, wakeup, logVars, boundVars>>

\* Mutant: one more a day.
MayPushOneMore(t) == alert \notin rows[t].alerts /\ counts[t] <= MaxPerDay

MayPush(t) == alert \notin rows[t].alerts /\ counts[t] < MaxPerDay

PassOver(t) ==
    /\ pc = "fan" /\ t \in Reachable
    /\ Visit(t)
    /\ ~MayPush(t)
    /\ UNCHANGED <<clock, dbVars, active, pc, now, cur, todo, alert, seen, counts, day,
                   wakeup, logVars, boundVars>>

SendAlert(t) ==
    /\ pc = "fan" /\ t \in Reachable
    /\ Visit(t)
    /\ MayPush(t)
    /\ \E o \in Outcomes :
          /\ cur' = [token |-> t, out |-> o]
          /\ pushed' = IF Arrives(o) THEN Bump(pushed, <<t, alert>>) ELSE pushed
          /\ today' = IF o = "ok" THEN Bump(today, t) ELSE today
    /\ pc' = "record"
    /\ UNCHANGED <<clock, dbVars, active, now, todo, alert, seen, counts, day, wakeup,
                   woke, granted, forgotten, cut, timely, late, spans, boundVars>>

\* ORDER BY 1 OFFSET n - Keep: the Keep greatest ids stay.
Remember(A, a) ==
    {b \in A \cup {a} : Cardinality({x \in A \cup {a} : x > b}) < Keep}

RecordAlert ==
    /\ pc = "record"
    /\ LET t == cur.token
       IN  /\ device' = IF t \in DOMAIN device
                        THEN [device EXCEPT ![t].alerts = Remember(@, alert)]
                        ELSE device
           /\ counts' = IF cur.out = "ok" THEN Bump(counts, t) ELSE counts
    /\ AfterSend("forgetAlert", "fan")
    /\ UNCHANGED <<clock, active, now, rows, todo, alert, seen, day, wakeup,
                   logVars, boundVars>>

ForgetDeadAlert == ForgetDead("forgetAlert", "fan")

NextAlert ==
    /\ pc = "fan" /\ DOMAIN rows = {}
    /\ pc' = "alerts" /\ alert' = NoAlert
    /\ UNCHANGED <<clock, dbVars, active, now, rows, cur, todo, seen, counts, day,
                   wakeup, logVars, boundVars>>

\* The wait starts when the pass is over, whatever the pass took.
EndPass ==
    /\ pc = "alerts" /\ todo = {}
    /\ pc' = "idle"
    /\ wakeup' = clock + Period
    /\ now' = 0
    /\ UNCHANGED <<clock, dbVars, active, rows, cur, todo, alert, seen, counts, day,
                   logVars, boundVars>>

\* The pass's variables go out of scope.
ForgetLocals == /\ rows' = NoRows /\ todo' = {} /\ alert' = NoAlert
                /\ now' = 0 /\ cur' = NoSend

\* What was sent but not yet written down is lost with the pass.
LoseSend == cut' = IF pc \in {"consume", "record"} THEN Bump(cut, cur.token) ELSE cut

\* A database call raises: the loop logs it and waits for the next pass.
PassFails ==
    /\ pc \in {"consume", "forgetWake", "wakes", "fan", "record", "forgetAlert"}
    /\ pc' = "idle"
    /\ wakeup' = clock + Period
    /\ ForgetLocals
    /\ LoseSend
    /\ late' = TRUE
    /\ UNCHANGED <<clock, dbVars, active, seen, counts, day,
                   woke, granted, pushed, forgotten, timely, today, spans, boundVars>>

-----------------------------------------------------------------------------
(* Time and restarts.                                                      *)

Tick ==
    /\ clock < MaxTime
    /\ clock' = clock + 1
    /\ late' = (late \/ pc # "idle" \/ clock >= wakeup)
    /\ IF (clock + 1) \div DayLength # Today
       THEN today' = [t \in Tokens |-> 0] /\ spans' = IF pc = "idle" THEN 0 ELSE 1
       ELSE UNCHANGED <<today, spans>>
    /\ UNCHANGED <<dbVars, active, loopVars, woke, granted, pushed, forgotten, cut, timely,
                   boundVars>>

\* The process dies between any two awaits and comes back with an empty memory.
Restart ==
    /\ restarts < MaxRestarts
    /\ restarts' = restarts + 1
    /\ pc' = "idle" /\ wakeup' = clock
    /\ ForgetLocals /\ seen' = {}
    /\ counts' = [t \in Tokens |-> 0] /\ day' = -1
    /\ LoseSend
    /\ UNCHANGED <<clock, dbVars, active, woke, granted, pushed, forgotten,
                   timely, late, today, spans, regs>>

-----------------------------------------------------------------------------
Init ==
    \* Rows of a platform that has lost its transport may be there: what they
    \* remember is never looked at.
    /\ \E T \in SUBSET (Tokens \ Reachable) :
          device \in [T -> {r \in Row : Cardinality(r.wake) <= MaxWakes /\ r.routes \in PhoneRoutes /\ r.alerts = {}}]
    /\ clock = 0 /\ active = {}
    /\ pc = "idle" /\ now = 0 /\ rows = NoRows /\ todo = {} /\ alert = NoAlert
    /\ cur = NoSend
    /\ seen = {} /\ counts = [t \in Tokens |-> 0] /\ day = -1 /\ wakeup = 0
    /\ woke = [k \in Tokens \X Instants |-> 0]
    /\ granted = [k \in Tokens \X Instants |-> 0]
    /\ pushed = [k \in Tokens \X Alerts |-> 0]
    /\ forgotten = [t \in Tokens |-> 0] /\ cut = [t \in Tokens |-> 0] /\ timely = {} /\ late = FALSE
    /\ today = [t \in Tokens |-> 0] /\ spans = 0
    /\ regs = 0 /\ restarts = 0

PassStep ==
    \/ StartPass \/ ConsumeWake \/ ForgetDeadWake \/ StartAlerts
    \/ FanOut \/ RecordAlert \/ ForgetDeadAlert \/ NextAlert \/ EndPass
    \/ \E t \in Tokens : \/ SkipUnreachable(t) \/ SendWake(t)
                         \/ PassOver(t) \/ SendAlert(t)

Next ==
    \/ PassStep \/ PassFails \/ ChangeAlerts \/ Tick \/ Restart
    \/ \E t \in Tokens : Register(t) \/ Unregister(t)

Spec == Init /\ [][Next]_vars

-----------------------------------------------------------------------------
(* Properties.                                                             *)

\* tests/test_push.py:163, "not pushed twice": however registrations, slow
\* passes and restarts interleave, an instant is sent no more often than the
\* phone asked for it, plus the sends a failure kept from being consumed.
WakesNotRepeated ==
    \A k \in DOMAIN woke : woke[k] <= granted[k] + cut[k[1]]

\* While every pass has started when its wait was over, taken no time and not
\* failed, an instant asked for in time is never still waiting more than one
\* loop period after it came, however registrations and restarts interleave.
WakesOnTime ==
    ~late => \A k \in timely :
        (k[1] \in DOMAIN device /\ k[1] \in Reachable /\ k[2] \in device[k[1]].wake)
            => clock <= k[2] + Period

\* docs/API.md:843, "never the same alert twice": while a row remembers every
\* alert, a device is sent one again only after the row was deleted or the
\* record of a send was lost, whatever restarts in between.
AlertsNotRepeated ==
    \A k \in DOMAIN pushed : pushed[k] <= 1 + forgotten[k[1]] + cut[k[1]]

\* The daily cap is per counter: the pushes acknowledged since midnight stay
\* under the cap times the counters the day has had (restarts, and a pass that
\* crosses midnight, start new ones), plus the sends that were never counted.
CapPerCounter ==
    \A t \in Tokens : today[t] <= MaxPerDay * spans + cut[t]

\* Both: what the limits on alert pushes leave of them.
AlertsLimited == AlertsNotRepeated /\ CapPerCounter

\* push.py:7, "an alert push when a new service alert touches a route the
\* device follows": the fan-out of an alert visits every device that follows
\* one of its routes, by whichever name the phone knows the route.
FollowersVisited ==
    [][(pc = "alerts" /\ pc' = "fan") =>
          \A t \in DOMAIN device :
              (\E r \in device[t].routes, q \in AlertRoutes[alert'] : Bare[r] = Bare[q])
                  => t \in DOMAIN rows']_vars
==============================================================================
