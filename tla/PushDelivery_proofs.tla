------------------------ MODULE PushDelivery_proofs ------------------------
(***************************************************************************)
(* Proofs about PushDelivery for any tokens, alerts, phones, windows,      *)
(* periods, caps and bounds on a behaviour.                                *)
(***************************************************************************)
EXTENDS PushDelivery, FiniteSetTheorems, TLAPS

-----------------------------------------------------------------------------
(* Types.                                                                  *)

\* A send has been made and is not yet dealt with.
Sending == {"consume", "forgetWake", "record", "forgetAlert"}
\* The wake-ups of a pass, and the fan-out of one alert.
Waking == {"wakes", "consume", "forgetWake"}
Fanning == {"fan", "record", "forgetAlert"}
Places == {"idle", "alerts"} \cup Waking \cup Fanning
Counter == [Tokens -> Nat]

PhonesTyped ==
    /\ clock \in Instants
    /\ DOMAIN device \subseteq Tokens /\ device \in [DOMAIN device -> Row]
    /\ active \subseteq Alerts
    /\ regs \in Nat /\ restarts \in Nat

PassTyped ==
    /\ pc \in Places /\ now \in Nat /\ wakeup \in Nat
    /\ DOMAIN rows \subseteq Tokens /\ rows \in [DOMAIN rows -> Row]
    /\ pc \in Sending => cur \in [token : Tokens, out : Outcomes]
    /\ todo \subseteq Alerts /\ seen \subseteq Alerts
    /\ pc \in Fanning => alert \in Alerts
    /\ counts \in Counter /\ day \in Int

LogTyped ==
    /\ woke \in [Tokens \X Instants -> Nat] /\ granted \in [Tokens \X Instants -> Nat]
    /\ pushed \in [Tokens \X Alerts -> Nat]
    /\ forgotten \in Counter /\ cut \in Counter /\ today \in Counter
    /\ timely \subseteq Tokens \X Instants
    /\ late \in BOOLEAN /\ spans \in Nat

PushTyped == PhonesTyped /\ PassTyped /\ LogTyped

LEMMA Numbers ==
    /\ MaxWakes \in Nat /\ Window \in Nat /\ MaxPerDay \in Nat /\ MaxTime \in Nat
    /\ MaxRegistrations \in Nat /\ MaxRestarts \in Nat
    /\ Period \in Nat \ {0} /\ DayLength \in Nat \ {0} /\ Keep \in Nat \ {0}
  BY NumbersAssumption

LEMMA InitTyped == Init => PushTyped
<1> SUFFICES ASSUME Init PROVE PushTyped
  OBVIOUS
<1> USE Numbers
<1>1. PhonesTyped
  <2>1. PICK T \in SUBSET (Tokens \ Reachable) : device \in [T -> Row]
    BY DEF Init
  <2> QED
    BY <2>1 DEF Init, PhonesTyped, Instants
<1>2. PassTyped
  BY DEF Init, PassTyped, Places, Waking, Fanning, Sending, NoRows, Counter
<1>3. LogTyped
  BY DEF Init, LogTyped, Counter
<1> QED
  BY <1>1, <1>2, <1>3 DEF PushTyped

\* Taking a row out of a table, and adding one to a counter.
LEMMA WithoutTyped ==
  ASSUME NEW f, NEW t, DOMAIN f \subseteq Tokens, f \in [DOMAIN f -> Row]
  PROVE  /\ DOMAIN Without(f, t) = DOMAIN f \ {t}
         /\ Without(f, t) \in [DOMAIN Without(f, t) -> Row]
         /\ \A d \in DOMAIN f \ {t} : Without(f, t)[d] = f[d]
  BY DEF Without

LEMMA RowsOfTyped ==
  ASSUME NEW S \in SUBSET DOMAIN device, device \in [DOMAIN device -> Row]
  PROVE  /\ DOMAIN RowsOf(S) = S
         /\ RowsOf(S) \in [DOMAIN RowsOf(S) -> Row]
         /\ \A t \in S : RowsOf(S)[t] = device[t]
  BY DEF RowsOf

LEMMA BumpTyped ==
  ASSUME NEW K, NEW f \in [K -> Nat], NEW k \in K
  PROVE  /\ Bump(f, k) \in [K -> Nat]
         /\ Bump(f, k)[k] = f[k] + 1
         /\ \A x \in K : x # k => Bump(f, k)[x] = f[x]
  BY DEF Bump

LEMMA UpsertedTyped ==
  ASSUME NEW t \in Tokens, NEW W \in SUBSET Instants, NEW R \in PhoneRoutes,
         DOMAIN device \subseteq Tokens, device \in [DOMAIN device -> Row]
  PROVE  /\ DOMAIN Upserted(t, W, R) = DOMAIN device \cup {t}
         /\ Upserted(t, W, R) \in [DOMAIN Upserted(t, W, R) -> Row]
         /\ Upserted(t, W, R)[t].wake = W
         /\ Upserted(t, W, R)[t].alerts = IF t \in DOMAIN device THEN device[t].alerts ELSE {}
         /\ \A d \in DOMAIN device : d # t => Upserted(t, W, R)[d] = device[d]
  BY DEF Upserted, Row

LEMMA RegisterTyped == ASSUME PushTyped, NEW t \in Tokens, Register(t) PROVE PushTyped'
<1> USE DEF PushTyped
<1>1. PICK asked \in SUBSET Instants, R \in PhoneRoutes :
         /\ device' = Upserted(t, WakesKept(asked), R)
         /\ granted' = [k \in DOMAIN granted |->
                          IF k[1] = t /\ k[2] \in WakesKept(asked) THEN granted[k] + 1 ELSE granted[k]]
         /\ timely' = {k \in timely : k[1] # t}
                          \cup {<<t, i>> : i \in {j \in WakesKept(asked) : j >= clock}}
  BY DEF Register
<1>2. WakesKept(asked) \subseteq Instants
  BY DEF WakesKept
<1>3. PhonesTyped'
  <2>1. /\ DOMAIN device \subseteq Tokens
        /\ device \in [DOMAIN device -> Row]
    BY DEF PhonesTyped
  <2>2. /\ DOMAIN device' = DOMAIN device \cup {t}
        /\ device' \in [DOMAIN device' -> Row]
    BY <1>1, <1>2, <2>1, UpsertedTyped
  <2>3. UNCHANGED <<clock, active, restarts>> /\ regs' = regs + 1
    BY DEF Register
  <2> QED
    BY <2>1, <2>2, <2>3 DEF PhonesTyped
<1>4. PassTyped'
  BY DEF Register, PassTyped, loopVars
<1>5. LogTyped'
  <2>1. granted' \in [Tokens \X Instants -> Nat]
    BY <1>1 DEF LogTyped
  <2>2. timely' \subseteq Tokens \X Instants
    BY <1>1, <1>2 DEF LogTyped
  <2> QED
    BY <2>1, <2>2 DEF Register, LogTyped
<1> QED
  BY <1>3, <1>4, <1>5


LEMMA UnregisterTyped == ASSUME PushTyped, NEW t \in Tokens, Unregister(t) PROVE PushTyped'
<1> USE DEF PushTyped
<1>1. /\ device' = Without(device, t)
      /\ forgotten' = Bump(forgotten, t)
  BY DEF Unregister
<1>2. PhonesTyped'
  BY <1>1, WithoutTyped DEF Unregister, PhonesTyped, boundVars
<1>3. PassTyped'
  BY DEF Unregister, PassTyped, loopVars
<1>4. LogTyped'
  BY <1>1, BumpTyped DEF Unregister, LogTyped, Counter
<1> QED
  BY <1>2, <1>3, <1>4

LEMMA ChangeAlertsTyped == PushTyped /\ ChangeAlerts => PushTyped'
  BY DEF PushTyped, PhonesTyped, PassTyped, LogTyped, ChangeAlerts, dbVars, loopVars, logVars, boundVars

LEMMA StartPassTyped == PushTyped /\ StartPass => PushTyped'
<1> SUFFICES ASSUME PushTyped, StartPass PROVE PushTyped'
  OBVIOUS
<1> USE DEF PushTyped
<1>1. PhonesTyped'
  BY DEF StartPass, PhonesTyped, dbVars, boundVars
<1>2. PassTyped'
  <2>1. Due(clock) \subseteq DOMAIN device
    BY DEF Due
  <2>2. DOMAIN rows' \subseteq Tokens /\ rows' \in [DOMAIN rows' -> Row]
    BY <2>1, RowsOfTyped DEF StartPass, PhonesTyped
  <2>3. counts' \in Counter /\ day' \in Int
    BY Numbers DEF StartPass, PassTyped, PhonesTyped, Today, Counter, Instants
  <2>4. pc' = "wakes" /\ now' = clock /\ UNCHANGED <<wakeup, cur, todo, seen, alert>>
    BY DEF StartPass
  <2> QED
    BY <2>2, <2>3, <2>4, Numbers DEF PassTyped, PhonesTyped, Instants, Places, Waking, Fanning, Sending
<1>3. LogTyped'
  BY DEF StartPass, LogTyped
<1> QED
  BY <1>1, <1>2, <1>3

LEMMA SkipTyped ==
  ASSUME PushTyped, NEW t \in Tokens, SkipUnreachable(t) \/ PassOver(t)
  PROVE  PushTyped'
<1> USE DEF PushTyped
<1>1. rows' = Without(rows, t)
  BY DEF SkipUnreachable, PassOver, Visit
<1>2. UNCHANGED <<clock, dbVars, active, pc, now, cur, todo, alert, seen, counts, day, wakeup, logVars, boundVars>>
  BY DEF SkipUnreachable, PassOver
<1>3. PassTyped'
  BY <1>1, <1>2, WithoutTyped DEF PassTyped
<1> QED
  BY <1>2, <1>3 DEF PhonesTyped, LogTyped, dbVars, logVars, boundVars

LEMMA SendWakeTyped == ASSUME PushTyped, NEW t \in Tokens, SendWake(t) PROVE PushTyped'
<1> USE DEF PushTyped
<1>1. /\ rows' = Without(rows, t) /\ pc' = "consume"
      /\ UNCHANGED <<clock, dbVars, active, now, todo, alert, seen, counts, day, wakeup,
                     granted, pushed, forgotten, cut, timely, late, today, spans, boundVars>>
  BY DEF SendWake, Visit
<1>2. cur' \in [token : Tokens, out : Outcomes]
  BY DEF SendWake
<1>3. woke' \in [Tokens \X Instants -> Nat]
  BY DEF SendWake, LogTyped
<1>4. PassTyped'
  BY <1>1, <1>2, WithoutTyped DEF PassTyped, Places, Waking, Fanning, Sending
<1> QED
  BY <1>1, <1>3, <1>4 DEF PhonesTyped, LogTyped, dbVars, boundVars

LEMMA SendAlertTyped == ASSUME PushTyped, NEW t \in Tokens, SendAlert(t) PROVE PushTyped'
<1> USE DEF PushTyped
<1>1. /\ rows' = Without(rows, t) /\ pc = "fan" /\ pc' = "record"
      /\ UNCHANGED <<clock, dbVars, active, now, todo, alert, seen, counts, day, wakeup,
                     woke, granted, forgotten, cut, timely, late, spans, boundVars>>
  BY DEF SendAlert, Visit
<1>2. cur' \in [token : Tokens, out : Outcomes]
  BY DEF SendAlert
<1>3. pushed' \in [Tokens \X Alerts -> Nat] /\ today' \in Counter
  <2>1. <<t, alert>> \in Tokens \X Alerts
    BY <1>1 DEF PassTyped, Fanning
  <2> QED
    BY <2>1, BumpTyped DEF SendAlert, LogTyped, Counter
<1>4. PassTyped'
  BY <1>1, <1>2, WithoutTyped DEF PassTyped, Places, Waking, Fanning, Sending
<1> QED
  BY <1>1, <1>3, <1>4 DEF PhonesTyped, LogTyped, dbVars, boundVars

LEMMA ConsumeWakeTyped == PushTyped /\ ConsumeWake => PushTyped'
<1> SUFFICES ASSUME PushTyped, ConsumeWake PROVE PushTyped'
  OBVIOUS
<1> USE DEF PushTyped
<1>1. /\ pc = "consume" /\ pc' \in {"forgetWake", "wakes"}
      /\ pc' = "forgetWake" => UNCHANGED cur
      /\ UNCHANGED <<clock, active, now, rows, todo, alert, seen, counts, day, wakeup,
                     logVars, boundVars>>
  BY DEF ConsumeWake, AfterSend
<1>2. device' = IF cur.token \in DOMAIN device
                THEN [device EXCEPT ![cur.token].wake = Left(@)] ELSE device
  BY DEF ConsumeWake
<1>3. \A W \in SUBSET Instants : Left(W) \in SUBSET Instants
  BY DEF Left
<1>4. PhonesTyped'
  BY <1>1, <1>2, <1>3 DEF PhonesTyped, Row, boundVars
<1>5. PassTyped'
  BY <1>1 DEF PassTyped, Places, Waking, Fanning, Sending
<1> QED
  BY <1>1, <1>4, <1>5 DEF LogTyped, logVars

\* The ids a row remembers are ids of alerts.
LEMMA RememberTyped ==
  ASSUME NEW A \in SUBSET Alerts, NEW a \in Alerts
  PROVE  Remember(A, a) \in SUBSET Alerts
  BY DEF Remember

LEMMA RecordAlertTyped == PushTyped /\ RecordAlert => PushTyped'
<1> SUFFICES ASSUME PushTyped, RecordAlert PROVE PushTyped'
  OBVIOUS
<1> USE DEF PushTyped
<1>1. /\ pc = "record" /\ pc' \in {"forgetAlert", "fan"}
      /\ pc' = "forgetAlert" => UNCHANGED cur
      /\ UNCHANGED <<clock, active, now, rows, todo, alert, seen, day, wakeup,
                     logVars, boundVars>>
  BY DEF RecordAlert, AfterSend
<1>2. /\ device' = IF cur.token \in DOMAIN device
                   THEN [device EXCEPT ![cur.token].alerts = Remember(@, alert)] ELSE device
      /\ counts' = IF cur.out = "ok" THEN Bump(counts, cur.token) ELSE counts
  BY DEF RecordAlert
<1>3. alert \in Alerts /\ cur \in [token : Tokens, out : Outcomes]
  BY <1>1 DEF PassTyped, Fanning, Sending
<1>4. PhonesTyped'
  BY <1>1, <1>2, <1>3, RememberTyped DEF PhonesTyped, Row, boundVars
<1>5. counts' \in Counter
  BY <1>2, <1>3, BumpTyped DEF PassTyped, Counter
<1>6. PassTyped'
  BY <1>1, <1>3, <1>5 DEF PassTyped, Places, Waking, Fanning, Sending
<1> QED
  BY <1>1, <1>4, <1>6 DEF LogTyped, logVars

LEMMA ForgetDeadTyped ==
  ASSUME PushTyped, ForgetDeadWake \/ ForgetDeadAlert
  PROVE  PushTyped'
<1> USE DEF PushTyped
<1>1. /\ pc \in {"forgetWake", "forgetAlert"} /\ pc' \in {"wakes", "fan"}
      /\ pc' = "fan" => pc = "forgetAlert"
      /\ device' = Without(device, cur.token)
      /\ forgotten' = IF cur.token \in DOMAIN device THEN Bump(forgotten, cur.token) ELSE forgotten
      /\ UNCHANGED <<clock, active, now, rows, todo, alert, seen, counts, day, wakeup,
                     woke, granted, pushed, cut, timely, late, today, spans, boundVars>>
  BY DEF ForgetDeadWake, ForgetDeadAlert, ForgetDead
<1>2. cur.token \in Tokens
  BY <1>1 DEF PassTyped, Sending
<1>3. PhonesTyped'
  <2>1. DOMAIN device \subseteq Tokens /\ device \in [DOMAIN device -> Row]
    BY DEF PhonesTyped
  <2>2. DOMAIN device' = DOMAIN device \ {cur.token} /\ device' \in [DOMAIN device' -> Row]
    BY <1>1, <2>1, WithoutTyped
  <2> QED
    BY <1>1, <2>1, <2>2 DEF PhonesTyped, boundVars
<1>4. PassTyped'
  BY <1>1 DEF PassTyped, Places, Waking, Fanning, Sending
<1>5. forgotten' \in Counter
  BY <1>1, <1>2, BumpTyped DEF LogTyped, Counter
<1> QED
  BY <1>1, <1>3, <1>4, <1>5 DEF LogTyped

LEMMA AlertStepsTyped == PushTyped /\ (StartAlerts \/ NextAlert \/ EndPass) => PushTyped'
<1> SUFFICES ASSUME PushTyped, StartAlerts \/ NextAlert \/ EndPass PROVE PushTyped'
  OBVIOUS
<1> USE DEF PushTyped
<1>1. UNCHANGED <<clock, dbVars, active, rows, cur, seen, counts, day, logVars, boundVars>>
  BY DEF StartAlerts, NextAlert, EndPass
<1>2. /\ pc' \in {"alerts", "idle"} /\ now' \in {now, 0}
      /\ wakeup' \in {wakeup, clock + Period} /\ todo' \in {todo, AlertsToPush}
  BY DEF StartAlerts, NextAlert, EndPass
<1>3. AlertsToPush \subseteq Alerts
  BY DEF AlertsToPush, PhonesTyped
<1>4. PassTyped'
  BY <1>1, <1>2, <1>3, Numbers DEF PassTyped, PhonesTyped, Instants, Places, Waking, Fanning, Sending
<1> QED
  BY <1>1, <1>4 DEF PhonesTyped, LogTyped, dbVars, logVars, boundVars

LEMMA FanOutTyped == PushTyped /\ FanOut => PushTyped'
<1> SUFFICES ASSUME PushTyped, FanOut PROVE PushTyped'
  OBVIOUS
<1> USE DEF PushTyped
<1>1. /\ pc' = "fan"
      /\ UNCHANGED <<clock, dbVars, active, now, cur, counts, day, wakeup, logVars, boundVars>>
  BY DEF FanOut
<1>2. PICK a \in todo : alert' = a /\ todo' = todo \ {a} /\ seen' = seen \cup {a} /\ rows' = RowsOf(Following(a))
  BY DEF FanOut
<1>3. DOMAIN rows' \subseteq Tokens /\ rows' \in [DOMAIN rows' -> Row]
  <2>1. Following(a) \subseteq DOMAIN device
    BY DEF Following
  <2> QED
    BY <1>2, <2>1, RowsOfTyped DEF PhonesTyped
<1>4. PassTyped'
  BY <1>1, <1>2, <1>3 DEF PassTyped, Places, Waking, Fanning, Sending
<1> QED
  BY <1>1, <1>4 DEF PhonesTyped, LogTyped, dbVars, logVars, boundVars

\* What a pass that fails and a process that dies leave alike.
LEMMA PassEnds ==
  ASSUME PushTyped, PassFails \/ Restart
  PROVE  /\ pc' = "idle" /\ rows' = NoRows /\ todo' = {} /\ alert' = NoAlert /\ now' = 0
         /\ cut' = IF pc \in {"consume", "record"} THEN Bump(cut, cur.token) ELSE cut
         /\ cut' \in Counter
         /\ \A t \in Tokens : cut'[t] >= cut[t]
         /\ pc \in {"consume", "record"} => cur.token \in Tokens /\ cut'[cur.token] = cut[cur.token] + 1
         /\ UNCHANGED <<clock, dbVars, active, woke, granted, pushed, forgotten, timely, today, spans>>
<1> USE DEF PushTyped
<1>1. /\ pc' = "idle" /\ ForgetLocals /\ LoseSend
      /\ UNCHANGED <<clock, dbVars, active, woke, granted, pushed, forgotten, timely, today, spans>>
  BY DEF PassFails, Restart
<1>2. pc \in {"consume", "record"} => cur.token \in Tokens
  BY DEF PassTyped, Sending
<1>3. cut \in Counter
  BY DEF LogTyped
<1>4. /\ cut' \in Counter
      /\ \A t \in Tokens : cut'[t] >= cut[t]
      /\ pc \in {"consume", "record"} => cut'[cur.token] = cut[cur.token] + 1
  BY <1>1, <1>2, <1>3, BumpTyped DEF LoseSend, Counter
<1> QED
  BY <1>1, <1>2, <1>4 DEF ForgetLocals, LoseSend

LEMMA PassEndsTyped == ASSUME PushTyped, PassFails \/ Restart PROVE PushTyped'
<1> USE DEF PushTyped
<1> USE Numbers
<1>1. /\ wakeup' \in {clock, clock + Period} /\ late' \in {late, TRUE}
      /\ counts' \in {counts, [t \in Tokens |-> 0]} /\ day' \in {day, -1} /\ seen' \in {seen, {}}
      /\ regs' = regs /\ restarts' \in {restarts, restarts + 1}
  BY DEF PassFails, Restart, boundVars
<1>2. PassTyped'
  <2>1. wakeup' \in Nat
    BY <1>1 DEF PhonesTyped, Instants
  <2>2. counts' \in Counter /\ day' \in Int /\ seen' \subseteq Alerts
    BY <1>1 DEF PassTyped, Counter
  <2>3. DOMAIN NoRows = {} /\ NoRows \in [{} -> Row]
    BY DEF NoRows
  <2>4. pc' = "idle" /\ rows' = NoRows /\ todo' = {} /\ now' = 0
    BY PassEnds
  <2>5. DOMAIN rows' = {} /\ rows' \in [DOMAIN rows' -> Row]
    BY <2>3, <2>4
  <2> QED
    BY <2>1, <2>2, <2>4, <2>5 DEF PassTyped, Places, Fanning, Sending
<1>3. PhonesTyped'
  <2>1. UNCHANGED <<clock, device, active>>
    BY PassEnds DEF dbVars
  <2> QED
    BY <1>1, <2>1 DEF PhonesTyped
<1>4. LogTyped'
  <2>1. UNCHANGED <<woke, granted, pushed, forgotten, timely, today, spans>> /\ cut' \in Counter
    BY PassEnds
  <2> QED
    BY <1>1, <2>1 DEF LogTyped
<1> QED
  BY <1>2, <1>3, <1>4

LEMMA TickTyped == PushTyped /\ Tick => PushTyped'
<1> SUFFICES ASSUME PushTyped, Tick PROVE PushTyped'
  OBVIOUS
<1> USE DEF PushTyped
<1>1. UNCHANGED <<dbVars, active, loopVars, woke, granted, pushed, forgotten, cut, timely, boundVars>>
  BY DEF Tick
<1>2. PhonesTyped'
  BY <1>1, Numbers DEF Tick, PhonesTyped, Instants, dbVars, boundVars
<1>3. PassTyped'
  BY <1>1 DEF PassTyped, loopVars
<1>4. late' \in BOOLEAN /\ today' \in Counter /\ spans' \in Nat
  BY DEF Tick, LogTyped, Counter
<1>5. LogTyped'
  BY <1>1, <1>4 DEF LogTyped
<1> QED
  BY <1>2, <1>3, <1>5

LEMMA StepTyped == PushTyped /\ [Next]_vars => PushTyped'
<1> SUFFICES ASSUME PushTyped, [Next]_vars PROVE PushTyped'
  OBVIOUS
<1>1. CASE UNCHANGED vars
  BY <1>1 DEF PushTyped, PhonesTyped, PassTyped, LogTyped, vars, dbVars, loopVars, logVars, boundVars
<1>2. ASSUME NEW t \in Tokens,
             SkipUnreachable(t) \/ SendWake(t) \/ PassOver(t) \/ SendAlert(t) \/ Register(t) \/ Unregister(t)
      PROVE  PushTyped'
  BY <1>2, SkipTyped, SendWakeTyped, SendAlertTyped, RegisterTyped, UnregisterTyped
<1> QED
  BY <1>1, <1>2, StartPassTyped, ConsumeWakeTyped, ForgetDeadTyped, AlertStepsTyped, FanOutTyped,
     RecordAlertTyped, PassEndsTyped, ChangeAlertsTyped, TickTyped
     DEF Next, PassStep

-----------------------------------------------------------------------------
(* Wake-ups: what was granted pays for what was sent and may still be.     *)

\* An instant may yet be sent to a token: its row waits for it and no send of
\* it is being consumed, or the pass has read a row that waits for it.
Waiting(t, i) ==
    /\ t \in DOMAIN device /\ i \in device[t].wake
    /\ ~(pc = "consume" /\ cur.token = t /\ i <= now)
Pending(t, i) ==
    /\ pc \in Waking /\ t \in DOMAIN rows
    /\ i \in rows[t].wake /\ i <= now

Paid(t, i) == granted[<<t, i>>] + cut[t]

WakesPaid ==
    /\ \A t \in Tokens, i \in Instants : woke[<<t, i>>] <= Paid(t, i)
    /\ \A t \in Reachable, i \in Instants :
          Waiting(t, i) \/ Pending(t, i) => woke[<<t, i>>] + 1 <= Paid(t, i)
    /\ pc \in {"consume", "record"} => cur.token \notin DOMAIN rows

WakesInv == PushTyped /\ WakesPaid

\* A step that sends no wake-up, keeps what is paid, and lets nothing more be
\* sent that it does not pay for.
LEMMA WakesCarry ==
  ASSUME WakesInv, PushTyped', UNCHANGED woke,
         \A t \in Tokens, i \in Instants : Paid(t, i)' >= Paid(t, i),
         \A t \in Reachable, i \in Instants :
            (Waiting(t, i) \/ Pending(t, i))' =>
               Waiting(t, i) \/ Pending(t, i) \/ Paid(t, i)' >= Paid(t, i) + 1,
         pc' \in {"consume", "record"} => cur'.token \notin DOMAIN rows'
  PROVE  WakesPaid'
<1>1. ASSUME NEW t \in Tokens, NEW i \in Instants
      PROVE  woke[<<t, i>>] \in Nat /\ Paid(t, i) \in Nat /\ Paid(t, i)' \in Nat
  <2>1. LogTyped /\ LogTyped'
    BY DEF WakesInv, PushTyped
  <2> QED
    BY <2>1 DEF LogTyped, Paid, Counter
<1>2. ASSUME NEW t \in Tokens, NEW i \in Instants
      PROVE  woke'[<<t, i>>] <= Paid(t, i)'
  BY <1>1 DEF WakesInv, WakesPaid
<1>3. ASSUME NEW t \in Reachable, NEW i \in Instants, (Waiting(t, i) \/ Pending(t, i))'
      PROVE  woke'[<<t, i>>] + 1 <= Paid(t, i)'
  <2>1. t \in Tokens
    BY TokensAssumption
  <2> QED
    BY <1>1, <1>3, <2>1 DEF WakesInv, WakesPaid
<1> QED
  BY <1>2, <1>3 DEF WakesPaid

\* What is paid does not change with the log.
LEMMA PaidSame ==
  ASSUME UNCHANGED <<granted, cut>>, LogTyped
  PROVE  \A t \in Tokens, i \in Instants : Paid(t, i)' = Paid(t, i) /\ Paid(t, i) \in Nat
  BY DEF Paid, LogTyped, Counter

\* A token's row is gone, and nothing else has changed but where the loop is.
LEMMA WakesUnregister == ASSUME WakesInv, NEW t \in Tokens, Unregister(t) PROVE WakesPaid'
<1>1. PushTyped /\ PushTyped'
  BY UnregisterTyped DEF WakesInv
<1>2. UNCHANGED <<loopVars, woke, granted, cut>> /\ device' = Without(device, t)
  BY DEF Unregister
<1>3. \A d \in Reachable, i \in Instants : (Waiting(d, i) \/ Pending(d, i))' => Waiting(d, i) \/ Pending(d, i)
  BY <1>2 DEF Waiting, Pending, Without, loopVars
<1> QED
  BY <1>1, <1>2, <1>3, PaidSame, WakesCarry DEF loopVars, PushTyped, WakesInv, WakesPaid

LEMMA WakesRegister == ASSUME WakesInv, NEW t \in Tokens, Register(t) PROVE WakesPaid'
<1>1. PushTyped /\ PushTyped'
  BY RegisterTyped DEF WakesInv
<1>2. PICK asked \in SUBSET Instants, R \in PhoneRoutes :
         /\ device' = Upserted(t, WakesKept(asked), R)
         /\ granted' = [k \in DOMAIN granted |->
                          IF k[1] = t /\ k[2] \in WakesKept(asked) THEN granted[k] + 1 ELSE granted[k]]
  BY DEF Register
<1>3. UNCHANGED <<loopVars, woke, cut>>
  BY DEF Register
<1>4. PICK W \in SUBSET Instants : W = WakesKept(asked)
  BY DEF WakesKept
<1>5. \A d \in Tokens, i \in Instants :
         /\ Paid(d, i)' >= Paid(d, i)
         /\ d = t /\ i \in W => Paid(d, i)' >= Paid(d, i) + 1
  BY <1>1, <1>2, <1>3, <1>4 DEF Paid, PushTyped, LogTyped, Counter
<1>6. /\ DOMAIN device' = DOMAIN device \cup {t}
      /\ device'[t].wake = W
      /\ \A d \in DOMAIN device : d # t => device'[d] = device[d]
  <2>1. DOMAIN device \subseteq Tokens /\ device \in [DOMAIN device -> Row]
    BY <1>1 DEF PushTyped, PhonesTyped
  <2>2. /\ DOMAIN Upserted(t, W, R) = DOMAIN device \cup {t}
        /\ Upserted(t, W, R)[t].wake = W
        /\ \A d \in DOMAIN device : d # t => Upserted(t, W, R)[d] = device[d]
    BY <2>1 DEF Upserted
  <2>3. device' = Upserted(t, W, R)
    BY <1>2, <1>4
  <2> QED
    BY <2>2, <2>3
<1>7. \A d \in Reachable, i \in Instants :
         (Waiting(d, i) \/ Pending(d, i))' =>
             Waiting(d, i) \/ Pending(d, i) \/ Paid(d, i)' >= Paid(d, i) + 1
  BY <1>3, <1>5, <1>6, TokensAssumption DEF Waiting, Pending, loopVars
<1> QED
  BY <1>1, <1>3, <1>5, <1>7, WakesCarry DEF loopVars, WakesInv, WakesPaid

LEMMA WakesStartPass == WakesInv /\ StartPass => WakesPaid'
<1> SUFFICES ASSUME WakesInv, StartPass PROVE WakesPaid'
  OBVIOUS
<1>1. PushTyped /\ PushTyped'
  BY StartPassTyped DEF WakesInv
<1>2. /\ pc = "idle" /\ pc' = "wakes" /\ rows' = RowsOf(Due(clock))
      /\ UNCHANGED <<device, woke, granted, cut>>
  BY DEF StartPass, dbVars
<1>3. Due(clock) \subseteq DOMAIN device
  BY DEF Due
<1>4. \A d \in Reachable, i \in Instants : (Waiting(d, i) \/ Pending(d, i))' => Waiting(d, i) \/ Pending(d, i)
  BY <1>2, <1>3 DEF Waiting, Pending, RowsOf
<1> QED
  BY <1>1, <1>2, <1>4, PaidSame, WakesCarry DEF PushTyped

LEMMA WakesSkip ==
  ASSUME WakesInv, NEW t \in Tokens, SkipUnreachable(t) \/ PassOver(t)
  PROVE  WakesPaid'
<1>1. PushTyped /\ PushTyped'
  BY SkipTyped DEF WakesInv
<1>2. /\ pc \in {"wakes", "fan"} /\ rows' = Without(rows, t)
      /\ UNCHANGED <<device, pc, now, cur, woke, granted, cut>>
  BY DEF SkipUnreachable, PassOver, Visit, dbVars, logVars
<1>3. \A d \in Reachable, i \in Instants : (Waiting(d, i) \/ Pending(d, i))' => Waiting(d, i) \/ Pending(d, i)
  BY <1>2 DEF Waiting, Pending, Without
<1> QED
  BY <1>1, <1>2, <1>3, PaidSame, WakesCarry DEF PushTyped

\* What is sent was paid for, and its send is now being consumed.
LEMMA WakesSendWake == ASSUME WakesInv, NEW t \in Tokens, SendWake(t) PROVE WakesPaid'
<1>1. PushTyped /\ PushTyped'
  BY SendWakeTyped DEF WakesInv
<1>2. /\ pc = "wakes" /\ pc' = "consume" /\ t \in Reachable /\ t \in DOMAIN rows /\ rows' = Without(rows, t)
      /\ UNCHANGED <<device, now, granted, cut>> /\ cur'.token = t
  BY DEF SendWake, Visit, dbVars
<1>3. \A d \in Tokens, i \in Instants :
         \/ woke'[<<d, i>>] = woke[<<d, i>>]
         \/ /\ d = t /\ i \in rows[t].wake /\ i <= now
            /\ woke'[<<d, i>>] = woke[<<d, i>>] + 1
  BY <1>1 DEF SendWake, PushTyped, LogTyped
<1>4. \A d \in Tokens, i \in Instants : Paid(d, i)' = Paid(d, i) /\ Paid(d, i) \in Nat /\ woke[<<d, i>>] \in Nat
  BY <1>1, <1>2, PaidSame DEF PushTyped, LogTyped
<1>5. ASSUME NEW d \in Tokens, NEW i \in Instants PROVE woke'[<<d, i>>] <= Paid(d, i)'
  <2>1. CASE woke'[<<d, i>>] = woke[<<d, i>>]
    BY <1>4, <2>1 DEF WakesInv, WakesPaid
  <2>2. CASE d = t /\ i \in rows[t].wake /\ i <= now /\ woke'[<<d, i>>] = woke[<<d, i>>] + 1
    <3>1. Pending(d, i)
      BY <1>2, <2>2 DEF Pending, Waking
    <3> QED
      BY <1>2, <1>4, <2>2, <3>1 DEF WakesInv, WakesPaid
  <2> QED
    BY <1>3, <2>1, <2>2
<1>6. ASSUME NEW d \in Reachable, NEW i \in Instants, (Waiting(d, i) \/ Pending(d, i))'
      PROVE  woke'[<<d, i>>] + 1 <= Paid(d, i)'
  <2>1. d \in Tokens
    BY TokensAssumption
  <2>2. Waiting(d, i) \/ Pending(d, i)
    BY <1>2, <1>6 DEF Waiting, Pending, Without, Waking
  <2>3. ~(d = t /\ i <= now)
    BY <1>2, <1>6 DEF Waiting, Pending, Without
  <2> QED
    BY <1>3, <1>4, <2>1, <2>2, <2>3 DEF WakesInv, WakesPaid
<1>7. cur'.token \notin DOMAIN rows'
  BY <1>2 DEF Without
<1> QED
  BY <1>5, <1>6, <1>7 DEF WakesPaid

LEMMA WakesConsume == WakesInv /\ ConsumeWake => WakesPaid'
<1> SUFFICES ASSUME WakesInv, ConsumeWake PROVE WakesPaid'
  OBVIOUS
<1>1. PushTyped /\ PushTyped'
  BY ConsumeWakeTyped DEF WakesInv
<1>2. /\ pc = "consume" /\ pc' \in {"forgetWake", "wakes"}
      /\ UNCHANGED <<now, rows, woke, granted, cut>>
      /\ device' = IF cur.token \in DOMAIN device
                   THEN [device EXCEPT ![cur.token].wake = Left(@)] ELSE device
  BY DEF ConsumeWake, AfterSend, logVars
<1>3. device \in [DOMAIN device -> Row] /\ now \in Nat
  BY <1>1 DEF PushTyped, PhonesTyped, PassTyped
<1>4. /\ DOMAIN device' = DOMAIN device
      /\ \A d \in DOMAIN device : d # cur.token => device'[d] = device[d]
      /\ cur.token \in DOMAIN device => device'[cur.token].wake = Left(device[cur.token].wake)
  BY <1>2, <1>3 DEF Row
<1>5. \A d \in Reachable, i \in Instants : (Waiting(d, i) \/ Pending(d, i))' => Waiting(d, i) \/ Pending(d, i)
  BY <1>2, <1>3, <1>4 DEF Waiting, Pending, Left, Instants, Waking
<1> QED
  BY <1>1, <1>2, <1>5, PaidSame, WakesCarry DEF PushTyped

LEMMA WakesForgetDead ==
  ASSUME WakesInv, ForgetDeadWake \/ ForgetDeadAlert
  PROVE  WakesPaid'
<1>1. PushTyped /\ PushTyped'
  BY ForgetDeadTyped DEF WakesInv
<1>2. /\ \/ pc = "forgetWake" /\ pc' = "wakes"
         \/ pc = "forgetAlert" /\ pc' = "fan"
      /\ device' = Without(device, cur.token)
      /\ UNCHANGED <<now, rows, woke, granted, cut>>
  BY DEF ForgetDeadWake, ForgetDeadAlert, ForgetDead
<1>3. \A d \in Reachable, i \in Instants : (Waiting(d, i) \/ Pending(d, i))' => Waiting(d, i) \/ Pending(d, i)
  BY <1>2 DEF Waiting, Pending, Without, Waking
<1> QED
  BY <1>1, <1>2, <1>3, PaidSame, WakesCarry DEF PushTyped

\* The steps of the alerts: no row is read for a wake-up any more, and the
\* instants of the rows stay as they are.
LEMMA WakesOfAlerts ==
  ASSUME WakesInv, PushTyped',
         StartAlerts \/ FanOut \/ RecordAlert \/ NextAlert \/ EndPass
            \/ \E t \in Tokens : SendAlert(t)
  PROVE  WakesPaid'
<1>1. PushTyped
  BY DEF WakesInv
<1>2. /\ pc' \notin Waking /\ pc # "consume"
      /\ UNCHANGED <<woke, granted, cut>>
  BY DEF StartAlerts, FanOut, RecordAlert, AfterSend, NextAlert, EndPass, SendAlert, Waking, logVars
<1>3. /\ DOMAIN device' = DOMAIN device
      /\ \A d \in DOMAIN device : device'[d].wake = device[d].wake
  <2>1. CASE RecordAlert
    <3>1. device \in [DOMAIN device -> Row]
      BY <1>1 DEF PushTyped, PhonesTyped
    <3> QED
      BY <2>1, <3>1 DEF RecordAlert, Row
  <2>2. CASE ~RecordAlert
    BY <2>2 DEF StartAlerts, FanOut, NextAlert, EndPass, SendAlert, dbVars
  <2> QED
    BY <2>1, <2>2
<1>4. \A d \in Reachable, i \in Instants : (Waiting(d, i) \/ Pending(d, i))' => Waiting(d, i) \/ Pending(d, i)
  BY <1>2, <1>3 DEF Waiting, Pending
<1>5. pc' \in {"consume", "record"} => cur'.token \notin DOMAIN rows'
  <2>1. CASE \E t \in Tokens : SendAlert(t)
    <3>1. PICK t \in Tokens : SendAlert(t)
      BY <2>1
    <3>2. cur'.token = t /\ rows' = Without(rows, t)
      BY <3>1 DEF SendAlert, Visit
    <3> QED
      BY <3>2 DEF Without
  <2>2. CASE StartAlerts \/ FanOut \/ RecordAlert \/ NextAlert \/ EndPass
    BY <2>2 DEF StartAlerts, FanOut, RecordAlert, AfterSend, NextAlert, EndPass
  <2> QED
    BY <2>1, <2>2
<1> QED
  BY <1>1, <1>2, <1>4, <1>5, PaidSame, WakesCarry DEF PushTyped

\* A send that is lost with its pass is one more the token may get.
LEMMA WakesPassEnds == ASSUME WakesInv, PassFails \/ Restart PROVE WakesPaid'
<1>1. PushTyped /\ PushTyped'
  BY PassEndsTyped DEF WakesInv
<1>2. pc' = "idle" /\ UNCHANGED <<device, woke, granted>>
  BY <1>1, PassEnds DEF dbVars
<1>3. /\ cut' \in Counter
      /\ \A t \in Tokens : cut'[t] >= cut[t]
      /\ pc \in {"consume", "record"} => cur.token \in Tokens /\ cut'[cur.token] = cut[cur.token] + 1
  BY <1>1, PassEnds
<1>4. \A t \in Tokens, i \in Instants :
         /\ Paid(t, i)' >= Paid(t, i)
         /\ pc = "consume" /\ cur.token = t => Paid(t, i)' >= Paid(t, i) + 1
  BY <1>1, <1>2, <1>3 DEF Paid, PushTyped, LogTyped, Counter
<1>5. \A d \in Reachable, i \in Instants :
         (Waiting(d, i) \/ Pending(d, i))' =>
             Waiting(d, i) \/ Pending(d, i) \/ Paid(d, i)' >= Paid(d, i) + 1
  BY <1>2, <1>4, TokensAssumption DEF Waiting, Pending, Waking
<1> QED
  BY <1>1, <1>2, <1>4, <1>5, WakesCarry

LEMMA WakesStep == WakesInv /\ [Next]_vars => WakesInv'
<1> SUFFICES ASSUME WakesInv, [Next]_vars PROVE WakesInv'
  OBVIOUS
<1>1. PushTyped'
  BY StepTyped DEF WakesInv
<1>2. WakesPaid'
  <2>1. CASE UNCHANGED vars \/ ChangeAlerts \/ Tick
    <3>1. UNCHANGED <<device, loopVars, woke, granted, cut>>
      BY <2>1 DEF ChangeAlerts, Tick, vars, dbVars, logVars
    <3> QED
      BY <3>1 DEF WakesInv, WakesPaid, Waiting, Pending, Paid, loopVars
  <2>2. ASSUME NEW t \in Tokens,
               SkipUnreachable(t) \/ SendWake(t) \/ PassOver(t) \/ Register(t) \/ Unregister(t)
        PROVE  WakesPaid'
    BY <2>2, WakesSkip, WakesSendWake, WakesRegister, WakesUnregister
  <2> QED
    BY <1>1, <2>1, <2>2, WakesStartPass, WakesConsume, WakesForgetDead, WakesOfAlerts, WakesPassEnds
       DEF Next, PassStep
<1> QED
  BY <1>1, <1>2 DEF WakesInv

LEMMA WakesInit == Init => WakesInv
<1> SUFFICES ASSUME Init PROVE WakesInv
  OBVIOUS
<1>1. PushTyped
  BY InitTyped
<1>2. /\ pc = "idle" /\ DOMAIN device \cap Reachable = {}
      /\ woke = [k \in Tokens \X Instants |-> 0]
  BY DEF Init
<1>3. \A t \in Tokens, i \in Instants : woke[<<t, i>>] = 0 /\ Paid(t, i) \in Nat
  BY <1>1, <1>2 DEF Paid, PushTyped, LogTyped, Counter
<1> QED
  BY <1>1, <1>2, <1>3 DEF WakesInv, WakesPaid, Waiting, Pending, Waking

\* tests/test_push.py:163: a device is sent an instant no more often than it
\* asked for it, plus the sends a failure kept from being consumed, however
\* registrations, slow passes and restarts interleave.
THEOREM WakesAreNotRepeated == Spec => []WakesNotRepeated
<1>1. WakesInv => WakesNotRepeated
  <2> SUFFICES ASSUME WakesInv, NEW k \in DOMAIN woke PROVE woke[k] <= granted[k] + cut[k[1]]
    BY DEF WakesNotRepeated
  <2>1. k \in Tokens \X Instants
    BY DEF WakesInv, PushTyped, LogTyped
  <2>2. PICK t \in Tokens, i \in Instants : k = <<t, i>>
    BY <2>1
  <2> QED
    BY <2>2 DEF WakesInv, WakesPaid, Paid
<1> QED
  BY <1>1, WakesInit, WakesStep, PTL DEF Spec

-----------------------------------------------------------------------------
(* Wake-ups in time: while no pass was late, failed or took time, what is  *)
(* past and still waits is in the hands of the pass.                       *)

InHand(t) ==
    \/ pc \in Waking /\ t \in DOMAIN rows
    \/ pc = "consume" /\ cur.token = t

OnTime(t, i) ==
    IF pc = "idle" THEN wakeup <= i + Period
    ELSE now <= i + Period /\ (i >= now \/ InHand(t))

Punctual ==
    /\ pc = "idle" => clock <= wakeup /\ wakeup <= clock + Period
    /\ pc # "idle" => now = clock
    /\ \A t \in Reachable, i \in Instants :
          <<t, i>> \in timely /\ t \in DOMAIN device /\ i \in device[t].wake => OnTime(t, i)

TimeInv == PushTyped /\ (~late => Punctual)

LEMMA TimeRegister == ASSUME TimeInv, NEW t \in Tokens, Register(t), ~late' PROVE Punctual'
<1>1. PushTyped /\ Punctual
  BY DEF TimeInv, Register
<1>2. PICK asked \in SUBSET Instants, R \in PhoneRoutes :
         /\ device' = Upserted(t, WakesKept(asked), R)
         /\ timely' = {k \in timely : k[1] # t}
                          \cup {<<t, i>> : i \in {j \in WakesKept(asked) : j >= clock}}
  BY DEF Register
<1>3. UNCHANGED <<clock, loopVars>>
  BY DEF Register
<1>4. \A d \in DOMAIN device' : d # t => d \in DOMAIN device /\ device'[d] = device[d]
  BY <1>2 DEF Upserted
<1>5. clock \in Nat /\ wakeup \in Nat /\ now \in Nat /\ \A i \in Instants : i \in Nat
  BY <1>1 DEF PushTyped, PhonesTyped, PassTyped, Instants
<1>6. ASSUME NEW d \in Reachable, NEW i \in Instants,
             <<d, i>> \in timely', d \in DOMAIN device', i \in device'[d].wake
      PROVE  OnTime(d, i)'
  <2>1. CASE d = t
    <3>1. i >= clock
      BY <1>2, <1>6, <2>1
    <3> QED
      BY <1>1, <1>3, <1>5, <3>1, Numbers DEF OnTime, Punctual, loopVars
  <2>2. CASE d # t
    <3>1. <<d, i>> \in timely
      BY <1>2, <1>6, <2>2
    <3>2. OnTime(d, i)
      BY <1>1, <1>4, <1>6, <2>2, <3>1 DEF Punctual
    <3> QED
      BY <1>3, <3>2 DEF OnTime, InHand, loopVars
  <2> QED
    BY <2>1, <2>2
<1> QED
  BY <1>1, <1>3, <1>6 DEF Punctual, loopVars

LEMMA TimeUnregister == ASSUME TimeInv, NEW t \in Tokens, Unregister(t), ~late' PROVE Punctual'
<1>1. Punctual
  BY DEF TimeInv, Unregister
<1>2. UNCHANGED <<clock, loopVars, timely>> /\ device' = Without(device, t)
  BY DEF Unregister
<1> QED
  BY <1>1, <1>2 DEF Punctual, OnTime, InHand, Without, loopVars

\* A pass that starts on time reads every row that waits for a past instant:
\* the window reaches back to the pass before.
LEMMA TimeStartPass == TimeInv /\ StartPass /\ ~late' => Punctual'
<1> SUFFICES ASSUME TimeInv, StartPass, ~late' PROVE Punctual'
  OBVIOUS
<1>1. PushTyped /\ Punctual
  BY DEF TimeInv, StartPass
<1>2. /\ pc = "idle" /\ clock >= wakeup /\ now' = clock /\ pc' = "wakes" /\ rows' = RowsOf(Due(clock))
      /\ UNCHANGED <<clock, device, timely>>
  BY DEF StartPass, dbVars
<1>3. clock \in Nat /\ wakeup \in Nat /\ \A i \in Instants : i \in Nat
  BY <1>1 DEF PushTyped, PhonesTyped, PassTyped, Instants
<1>4. clock = wakeup
  BY <1>1, <1>2, <1>3 DEF Punctual
<1>5. ASSUME NEW d \in Reachable, NEW i \in Instants,
             <<d, i>> \in timely, d \in DOMAIN device, i \in device[d].wake
      PROVE  clock <= i + Period /\ (i >= clock \/ d \in DOMAIN rows')
  <2>1. clock <= i + Period
    BY <1>1, <1>2, <1>4, <1>5 DEF Punctual, OnTime
  <2>2. i < clock => d \in Due(clock)
    BY <1>3, <1>5, <2>1, Numbers, WindowAssumption DEF Due
  <2> QED
    BY <1>2, <1>3, <2>1, <2>2 DEF RowsOf
<1> QED
  BY <1>2, <1>5 DEF Punctual, OnTime, InHand, Waking

LEMMA TimeSkip ==
  ASSUME TimeInv, NEW t \in Tokens, SkipUnreachable(t) \/ PassOver(t), ~late'
  PROVE  Punctual'
<1>1. Punctual
  BY DEF TimeInv, SkipUnreachable, PassOver, logVars
<1>2. /\ pc = "fan" \/ t \notin Reachable
      /\ rows' = Without(rows, t) /\ UNCHANGED <<clock, device, pc, now, cur, wakeup, timely>>
  BY DEF SkipUnreachable, PassOver, Visit, dbVars, logVars
<1> QED
  BY <1>1, <1>2 DEF Punctual, OnTime, InHand, Without, Waking

LEMMA TimeSendWake == ASSUME TimeInv, NEW t \in Tokens, SendWake(t), ~late' PROVE Punctual'
<1>1. Punctual
  BY DEF TimeInv, SendWake
<1>2. /\ pc = "wakes" /\ pc' = "consume" /\ rows' = Without(rows, t) /\ cur'.token = t
      /\ UNCHANGED <<clock, device, now, wakeup, timely>>
  BY DEF SendWake, Visit, dbVars
<1> QED
  BY <1>1, <1>2 DEF Punctual, OnTime, InHand, Without, Waking

LEMMA TimeConsume == TimeInv /\ ConsumeWake /\ ~late' => Punctual'
<1> SUFFICES ASSUME TimeInv, ConsumeWake, ~late' PROVE Punctual'
  OBVIOUS
<1>1. PushTyped /\ Punctual
  BY DEF TimeInv, ConsumeWake, logVars
<1>2. /\ pc = "consume" /\ pc' \in {"forgetWake", "wakes"}
      /\ UNCHANGED <<clock, now, rows, wakeup, timely>>
      /\ device' = IF cur.token \in DOMAIN device
                   THEN [device EXCEPT ![cur.token].wake = Left(@)] ELSE device
  BY DEF ConsumeWake, AfterSend, logVars
<1>3. device \in [DOMAIN device -> Row] /\ now \in Nat /\ \A i \in Instants : i \in Nat
  BY <1>1 DEF PushTyped, PhonesTyped, PassTyped, Instants
<1>4. /\ DOMAIN device' = DOMAIN device
      /\ \A d \in DOMAIN device : d # cur.token => device'[d] = device[d]
      /\ cur.token \in DOMAIN device => device'[cur.token].wake = Left(device[cur.token].wake)
  BY <1>2, <1>3 DEF Row
<1>5. ASSUME NEW d \in Reachable, NEW i \in Instants,
             <<d, i>> \in timely, d \in DOMAIN device', i \in device'[d].wake
      PROVE  OnTime(d, i)'
  <2>1. d \in DOMAIN device /\ i \in device[d].wake /\ (d = cur.token => i > now)
    BY <1>4, <1>5 DEF Left
  <2>2. OnTime(d, i)
    BY <1>1, <1>5, <2>1 DEF Punctual
  <2>3. now <= i + Period /\ (i >= now \/ d \in DOMAIN rows)
    BY <1>2, <1>3, <2>1, <2>2 DEF OnTime, InHand
  <2> QED
    BY <1>2, <2>3 DEF OnTime, InHand, Waking
<1> QED
  BY <1>1, <1>2, <1>5 DEF Punctual

LEMMA TimeForgetDead ==
  ASSUME TimeInv, ForgetDeadWake \/ ForgetDeadAlert, ~late'
  PROVE  Punctual'
<1>1. Punctual
  BY DEF TimeInv, ForgetDeadWake, ForgetDeadAlert, ForgetDead
<1>2. /\ \/ pc = "forgetWake" /\ pc' = "wakes"
         \/ pc = "forgetAlert" /\ pc' = "fan"
      /\ device' = Without(device, cur.token)
      /\ UNCHANGED <<clock, now, rows, wakeup, timely>>
  BY DEF ForgetDeadWake, ForgetDeadAlert, ForgetDead
<1> QED
  BY <1>1, <1>2 DEF Punctual, OnTime, InHand, Without, Waking

\* When the wake-ups are over nothing past waits any more, and the alerts
\* leave the instants alone.
LEMMA TimeOfAlerts ==
  ASSUME TimeInv, ~late',
         StartAlerts \/ FanOut \/ RecordAlert \/ NextAlert \/ \E t \in Tokens : SendAlert(t)
  PROVE  Punctual'
<1>1. PushTyped /\ Punctual
  BY DEF TimeInv, StartAlerts, FanOut, RecordAlert, NextAlert, SendAlert, logVars
<1>2. /\ pc' \notin Waking \cup {"idle"} /\ pc \notin {"idle", "consume"}
      /\ pc \in Waking => DOMAIN rows = {}
      /\ UNCHANGED <<clock, now, timely>>
  BY DEF StartAlerts, FanOut, RecordAlert, AfterSend, NextAlert, SendAlert, Waking, logVars
<1>3. /\ DOMAIN device' = DOMAIN device
      /\ \A d \in DOMAIN device : device'[d].wake = device[d].wake
  <2>1. CASE RecordAlert
    <3>1. device \in [DOMAIN device -> Row]
      BY <1>1 DEF PushTyped, PhonesTyped
    <3> QED
      BY <2>1, <3>1 DEF RecordAlert, Row
  <2>2. CASE ~RecordAlert
    BY <2>2 DEF StartAlerts, FanOut, NextAlert, SendAlert, dbVars
  <2> QED
    BY <2>1, <2>2
<1> QED
  BY <1>1, <1>2, <1>3 DEF Punctual, OnTime, InHand

LEMMA TimeEndPass == TimeInv /\ EndPass /\ ~late' => Punctual'
<1> SUFFICES ASSUME TimeInv, EndPass, ~late' PROVE Punctual'
  OBVIOUS
<1>1. PushTyped /\ Punctual
  BY DEF TimeInv, EndPass, logVars
<1>2. /\ pc = "alerts" /\ pc' = "idle" /\ wakeup' = clock + Period
      /\ UNCHANGED <<clock, device, timely>>
  BY DEF EndPass, dbVars, logVars
<1>3. clock \in Nat /\ \A i \in Instants : i \in Nat
  BY <1>1 DEF PushTyped, PhonesTyped, Instants
<1> QED
  BY <1>1, <1>2, <1>3, Numbers DEF Punctual, OnTime, InHand, Waking

LEMMA TimeRestart == TimeInv /\ (Restart \/ PassFails) /\ ~late' => Punctual'
<1> SUFFICES ASSUME TimeInv, Restart \/ PassFails, ~late' PROVE Punctual'
  OBVIOUS
<1>1. PushTyped /\ Punctual
  BY DEF TimeInv, Restart, PassFails
<1>2. /\ pc' = "idle" /\ wakeup' = clock /\ UNCHANGED <<clock, device, timely>>
  BY DEF PassFails, Restart, dbVars
<1>3. clock \in Nat /\ wakeup \in Nat /\ \A i \in Instants : i \in Nat
  BY <1>1 DEF PushTyped, PhonesTyped, PassTyped, Instants
<1>4. ASSUME NEW d \in Reachable, NEW i \in Instants,
             <<d, i>> \in timely, d \in DOMAIN device, i \in device[d].wake
      PROVE  clock <= i + Period
  <2>1. OnTime(d, i)
    BY <1>1, <1>4 DEF Punctual
  <2> QED
    BY <1>1, <1>3, <2>1, Numbers DEF OnTime, Punctual
<1> QED
  BY <1>2, <1>3, <1>4, Numbers DEF Punctual, OnTime

LEMMA TimeTick == TimeInv /\ Tick /\ ~late' => Punctual'
<1> SUFFICES ASSUME TimeInv, Tick, ~late' PROVE Punctual'
  OBVIOUS
<1>1. PushTyped /\ Punctual /\ pc = "idle" /\ clock < wakeup
  <2>1. ~late /\ ~(pc # "idle") /\ ~(clock >= wakeup)
    BY DEF Tick
  <2>2. PushTyped
    BY DEF TimeInv
  <2> QED
    BY <2>1, <2>2 DEF TimeInv, PushTyped, PhonesTyped, PassTyped, Instants
<1>2. clock' = clock + 1 /\ UNCHANGED <<device, loopVars, timely>>
  BY DEF Tick, dbVars
<1>3. clock \in Nat /\ wakeup \in Nat
  BY <1>1 DEF PushTyped, PhonesTyped, PassTyped, Instants
<1> QED
  BY <1>1, <1>2, <1>3, Numbers DEF Punctual, OnTime, loopVars

LEMMA TimeStep == TimeInv /\ [Next]_vars => TimeInv'
<1> SUFFICES ASSUME TimeInv, [Next]_vars PROVE TimeInv'
  OBVIOUS
<1>1. PushTyped'
  BY StepTyped DEF TimeInv
<1>2. ASSUME ~late' PROVE Punctual'
  <2>1. CASE UNCHANGED vars \/ ChangeAlerts
    <3>1. UNCHANGED <<clock, device, loopVars, timely, late>>
      BY <2>1 DEF ChangeAlerts, vars, dbVars, logVars
    <3> QED
      BY <1>2, <3>1 DEF TimeInv, Punctual, OnTime, InHand, loopVars
  <2>2. ASSUME NEW t \in Tokens,
               SkipUnreachable(t) \/ SendWake(t) \/ PassOver(t) \/ Register(t) \/ Unregister(t)
        PROVE  Punctual'
    BY <1>2, <2>2, TimeSkip, TimeSendWake, TimeRegister, TimeUnregister
  <2> QED
    BY <1>2, <2>1, <2>2, TimeStartPass, TimeConsume, TimeForgetDead, TimeOfAlerts, TimeEndPass,
       TimeRestart, TimeTick DEF Next, PassStep
<1> QED
  BY <1>1, <1>2 DEF TimeInv

\* A wake-up asked for in time never waits more than one period of the loop
\* after its instant, while passes start on time, take none and do not fail
\* (push.py:32: the window is there so that none falls between two passes).
THEOREM WakesAreOnTime == Spec => []WakesOnTime
<1>1. Init => TimeInv
  BY InitTyped, Numbers DEF Init, TimeInv, Punctual
<1>2. TimeInv => WakesOnTime
  <2> SUFFICES ASSUME TimeInv, ~late, NEW k \in timely,
                      k[1] \in DOMAIN device, k[1] \in Reachable, k[2] \in device[k[1]].wake
               PROVE  clock <= k[2] + Period
    BY DEF WakesOnTime
  <2>1. PushTyped /\ Punctual
    BY DEF TimeInv
  <2>2. PICK t \in Tokens, i \in Instants : k = <<t, i>>
    BY <2>1 DEF PushTyped, LogTyped
  <2>3. OnTime(t, i)
    BY <2>1, <2>2 DEF Punctual
  <2> QED
    BY <2>1, <2>2, <2>3, Numbers DEF OnTime, Punctual, PushTyped, PhonesTyped, PassTyped, Instants
<1> QED
  BY <1>1, <1>2, TimeStep, PTL DEF Spec

-----------------------------------------------------------------------------
(* Alerts: an alert that may be sent again has been sent no more often than *)
(* rows were deleted and sends were lost.                                   *)

Remembered(t, a) == t \in DOMAIN device /\ a \in device[t].alerts

Recording(t, a) == pc = "record" /\ cur.token = t /\ alert = a

\* Nothing that stays will keep the alert from being sent to the token again.
Open(t, a) == t \in DOMAIN device => a \notin device[t].alerts /\ ~Recording(t, a)

\* The fan-out will send to a token whose row has gone since it was read.
Orphan(t) ==
    /\ pc \in Fanning /\ t \in DOMAIN rows /\ alert \notin rows[t].alerts
    /\ t \notin DOMAIN device

AlertsPaid ==
    /\ \A t \in Tokens, a \in Alerts : pushed[<<t, a>>] <= 1 + forgotten[t] + cut[t]
    /\ \A t \in Tokens, a \in Alerts : Open(t, a) => pushed[<<t, a>>] <= forgotten[t] + cut[t]
    /\ \A t \in Tokens : Orphan(t) => pushed[<<t, alert>>] + 1 <= forgotten[t] + cut[t]
    /\ pc \in Fanning => \A t \in DOMAIN rows : alert \notin rows[t].alerts => ~Remembered(t, alert)
    /\ pc = "record" => cur.token \notin DOMAIN rows

AlertsInv == PushTyped /\ AlertsPaid

\* A step that sends no alert, keeps what is counted, and lets nothing more be
\* sent that it does not count.
LEMMA AlertsCarry ==
  ASSUME AlertsInv, PushTyped', UNCHANGED pushed,
         \A t \in Tokens : forgotten'[t] >= forgotten[t] /\ cut'[t] >= cut[t],
         \A t \in Tokens, a \in Alerts :
            Open(t, a)' => \/ Open(t, a)
                           \/ forgotten'[t] + cut'[t] >= forgotten[t] + cut[t] + 1,
         \A t \in Tokens :
            Orphan(t)' => \/ Orphan(t) /\ alert' = alert
                          \/ /\ Open(t, alert')
                             /\ forgotten'[t] + cut'[t] >= forgotten[t] + cut[t] + 1,
         pc' \in Fanning =>
            \A t \in DOMAIN rows' : alert' \notin rows'[t].alerts => ~Remembered(t, alert)',
         pc' = "record" => cur'.token \notin DOMAIN rows'
  PROVE  AlertsPaid'
<1>1. ASSUME NEW t \in Tokens, NEW a \in Alerts
      PROVE  /\ pushed[<<t, a>>] \in Nat /\ forgotten[t] \in Nat /\ cut[t] \in Nat
             /\ forgotten'[t] \in Nat /\ cut'[t] \in Nat
  <2>1. LogTyped /\ LogTyped'
    BY DEF AlertsInv, PushTyped
  <2> QED
    BY <2>1 DEF LogTyped, Counter
<1>2. ASSUME NEW t \in Tokens, NEW a \in Alerts
      PROVE  /\ pushed'[<<t, a>>] <= 1 + forgotten'[t] + cut'[t]
             /\ Open(t, a)' => pushed'[<<t, a>>] <= forgotten'[t] + cut'[t]
  <2>1. /\ pushed[<<t, a>>] <= 1 + forgotten[t] + cut[t]
        /\ Open(t, a) => pushed[<<t, a>>] <= forgotten[t] + cut[t]
    BY DEF AlertsInv, AlertsPaid
  <2>2. forgotten'[t] >= forgotten[t] /\ cut'[t] >= cut[t] /\ pushed' = pushed
    OBVIOUS
  <2>3. Open(t, a)' => Open(t, a) \/ forgotten'[t] + cut'[t] >= forgotten[t] + cut[t] + 1
    OBVIOUS
  <2> QED
    BY <1>1, <2>1, <2>2, <2>3
<1>3. ASSUME NEW t \in Tokens, Orphan(t)'
      PROVE  pushed'[<<t, alert'>>] + 1 <= forgotten'[t] + cut'[t]
  <2>1. alert' \in Alerts
    BY <1>3 DEF Orphan, PushTyped, PassTyped
  <2>2. forgotten'[t] >= forgotten[t] /\ cut'[t] >= cut[t] /\ pushed' = pushed
    OBVIOUS
  <2>3. CASE Orphan(t) /\ alert' = alert
    <3>1. pushed[<<t, alert>>] + 1 <= forgotten[t] + cut[t]
      BY <2>3 DEF AlertsInv, AlertsPaid
    <3> QED
      BY <1>1, <2>1, <2>2, <2>3, <3>1
  <2>4. CASE Open(t, alert') /\ forgotten'[t] + cut'[t] >= forgotten[t] + cut[t] + 1
    <3>1. pushed[<<t, alert'>>] <= forgotten[t] + cut[t]
      BY <2>1, <2>4 DEF AlertsInv, AlertsPaid
    <3> QED
      BY <1>1, <2>1, <2>2, <2>4, <3>1
  <2> QED
    BY <1>3, <2>3, <2>4
<1> QED
  BY <1>2, <1>3 DEF AlertsPaid

\* Nothing a row remembers is dropped while it has room for every alert.
LEMMA RememberAll ==
  ASSUME Cardinality(Alerts) <= Keep, NEW A \in SUBSET Alerts, NEW a \in Alerts
  PROVE  Remember(A, a) = A \cup {a}
<1> SUFFICES ASSUME NEW b \in A \cup {a}
             PROVE  Cardinality({x \in A \cup {a} : x > b}) < Keep
  BY DEF Remember
<1> DEFINE later == {x \in A \cup {a} : x > b}
<1>1. b \in Alerts /\ b \in Nat
  BY AlertsAssumption
<1>2. later \subseteq Alerts \ {b}
  <2>1. ~(b > b)
    BY <1>1
  <2> QED
    BY <2>1
<1>3. IsFiniteSet(Alerts) /\ IsFiniteSet(Alerts \ {b})
  BY AlertsAssumption, FS_Subset
<1>4. Cardinality(Alerts \ {b}) = Cardinality(Alerts) - 1 /\ Cardinality(Alerts) \in Nat
  BY <1>1, <1>3, FS_RemoveElement, FS_CardinalityType
<1>5. Cardinality(later) <= Cardinality(Alerts \ {b}) /\ Cardinality(later) \in Nat
  <2>1. IsFiniteSet(later)
    BY <1>2, <1>3, FS_Subset
  <2> QED
    BY <1>2, <1>3, <2>1, FS_Subset, FS_CardinalityType
<1> QED
  BY <1>4, <1>5, Numbers

LEMMA AlertsRegister == ASSUME AlertsInv, NEW t \in Tokens, Register(t) PROVE AlertsPaid'
<1>1. PushTyped /\ PushTyped' /\ LogTyped
  BY RegisterTyped DEF AlertsInv, PushTyped
<1>2. PICK W, R : device' = Upserted(t, W, R)
  BY DEF Register
<1>3. UNCHANGED <<loopVars, pushed, forgotten, cut>>
  BY DEF Register
<1>4. \A d \in Tokens, a \in Alerts : Open(d, a)' => Open(d, a)
  BY <1>2, <1>3 DEF Open, Recording, Upserted, loopVars
<1>5. \A d \in Tokens : Orphan(d)' => Orphan(d)
  BY <1>2, <1>3 DEF Orphan, Upserted, loopVars
<1>6. \A d \in Tokens : forgotten'[d] >= forgotten[d] /\ cut'[d] >= cut[d]
  BY <1>1, <1>3 DEF LogTyped, Counter
<1>7. pc' \in Fanning =>
         \A d \in DOMAIN rows' : alert' \notin rows'[d].alerts => ~Remembered(d, alert)'
  BY <1>2, <1>3 DEF Remembered, Upserted, AlertsInv, AlertsPaid, loopVars
<1>8. pc' = "record" => cur'.token \notin DOMAIN rows'
  BY <1>3 DEF AlertsInv, AlertsPaid, loopVars
<1>9. alert' = alert
  BY <1>3 DEF loopVars
<1> QED
  BY <1>1, <1>3, <1>4, <1>5, <1>6, <1>7, <1>8, <1>9, AlertsCarry

\* A row that is deleted has been counted.
LEMMA AlertsForget ==
  ASSUME AlertsInv, PushTyped', NEW t \in Tokens,
         device' = Without(device, t),
         forgotten' = IF t \in DOMAIN device THEN Bump(forgotten, t) ELSE forgotten,
         UNCHANGED <<pushed, cut, rows, alert>>,
         pc' = "record" <=> pc = "record", pc' = "record" => UNCHANGED cur,
         pc' \in Fanning => pc \in Fanning
  PROVE  AlertsPaid'
<1>1. PushTyped /\ LogTyped
  BY DEF AlertsInv, PushTyped
<1>2. \A d \in Tokens : /\ forgotten[d] \in Nat /\ cut[d] \in Nat /\ forgotten'[d] \in Nat
                        /\ forgotten'[d] >= forgotten[d]
                        /\ d = t /\ t \in DOMAIN device => forgotten'[d] = forgotten[d] + 1
  BY <1>1, BumpTyped DEF LogTyped, Counter
<1>3. \A d \in Tokens : forgotten'[d] >= forgotten[d] /\ cut'[d] >= cut[d]
  BY <1>2
<1>4. ASSUME NEW d \in Tokens, NEW a \in Alerts, Open(d, a)'
      PROVE  Open(d, a) \/ forgotten'[d] + cut'[d] >= forgotten[d] + cut[d] + 1
  <2>1. CASE d = t /\ t \in DOMAIN device
    BY <1>2, <2>1
  <2>2. CASE ~(d = t /\ t \in DOMAIN device)
    BY <1>4, <2>2 DEF Open, Recording, Without
  <2> QED
    BY <2>1, <2>2
<1>5. ASSUME NEW d \in Tokens, Orphan(d)'
      PROVE  \/ Orphan(d) /\ alert' = alert
             \/ Open(d, alert') /\ forgotten'[d] + cut'[d] >= forgotten[d] + cut[d] + 1
  <2>1. CASE d \in DOMAIN device
    <3>1. d = t /\ pc \in Fanning /\ d \in DOMAIN rows /\ alert \notin rows[d].alerts
      BY <1>5, <2>1 DEF Orphan, Without
    <3>2. ~Remembered(d, alert) /\ ~Recording(d, alert)
      BY <3>1 DEF AlertsInv, AlertsPaid, Recording
    <3>3. Open(d, alert')
      BY <3>2 DEF Open, Remembered
    <3> QED
      BY <1>2, <2>1, <3>1, <3>3
  <2>2. CASE d \notin DOMAIN device
    BY <1>5, <2>2 DEF Orphan
  <2> QED
    BY <2>1, <2>2
<1>6. pc' \in Fanning =>
         \A d \in DOMAIN rows' : alert' \notin rows'[d].alerts => ~Remembered(d, alert)'
  BY DEF Remembered, Without, AlertsInv, AlertsPaid
<1>7. pc' = "record" => cur'.token \notin DOMAIN rows'
  BY DEF AlertsInv, AlertsPaid
<1> QED
  BY <1>1, <1>3, <1>4, <1>5, <1>6, <1>7, AlertsCarry

LEMMA AlertsUnregister == ASSUME AlertsInv, NEW t \in Tokens, Unregister(t) PROVE AlertsPaid'
<1>1. PushTyped'
  BY UnregisterTyped DEF AlertsInv
<1> QED
  BY <1>1, AlertsForget DEF Unregister, loopVars

LEMMA AlertsForgetDead ==
  ASSUME AlertsInv, ForgetDeadWake \/ ForgetDeadAlert
  PROVE  AlertsPaid'
<1>1. PushTyped /\ PushTyped'
  BY ForgetDeadTyped DEF AlertsInv
<1>2. /\ \/ pc = "forgetWake" /\ pc' = "wakes"
         \/ pc = "forgetAlert" /\ pc' = "fan"
      /\ device' = Without(device, cur.token)
      /\ forgotten' = IF cur.token \in DOMAIN device THEN Bump(forgotten, cur.token) ELSE forgotten
      /\ UNCHANGED <<pushed, cut, rows, alert>>
  BY DEF ForgetDeadWake, ForgetDeadAlert, ForgetDead
<1>3. cur.token \in Tokens
  BY <1>1, <1>2 DEF PushTyped, PassTyped, Sending
<1> QED
  BY <1>1, <1>2, <1>3, AlertsForget DEF Fanning

\* Steps that change no alert list and neither send nor record an alert.
LEMMA AlertsOfWakes ==
  ASSUME AlertsInv, PushTyped', UNCHANGED <<pushed, forgotten, cut>>,
         DOMAIN device' = DOMAIN device,
         \A d \in DOMAIN device : device'[d].alerts = device[d].alerts,
         pc # "record", pc' # "record",
         pc' \in Fanning =>
            /\ alert' = alert /\ pc \in Fanning
            /\ DOMAIN rows' \subseteq DOMAIN rows /\ \A t \in DOMAIN rows' : rows'[t] = rows[t]
  PROVE  AlertsPaid'
<1>1. PushTyped /\ LogTyped
  BY DEF AlertsInv, PushTyped
<1>2. \A d \in Tokens : forgotten'[d] >= forgotten[d] /\ cut'[d] >= cut[d]
  BY <1>1 DEF LogTyped, Counter
<1>3. \A d \in Tokens, a \in Alerts : Open(d, a)' => Open(d, a)
  BY DEF Open, Recording
<1>4. \A d \in Tokens : Orphan(d)' => Orphan(d) /\ alert' = alert
  BY DEF Orphan
<1>5. pc' \in Fanning =>
         \A d \in DOMAIN rows' : alert' \notin rows'[d].alerts => ~Remembered(d, alert)'
  BY DEF Remembered, AlertsInv, AlertsPaid
<1> QED
  BY <1>1, <1>2, <1>3, <1>4, <1>5, AlertsCarry

LEMMA AlertsOtherSteps ==
  ASSUME AlertsInv, PushTyped',
         \/ StartPass \/ ConsumeWake \/ StartAlerts \/ NextAlert \/ EndPass
         \/ \E t \in Tokens : SkipUnreachable(t) \/ SendWake(t) \/ PassOver(t)
  PROVE  AlertsPaid'
<1>1. device \in [DOMAIN device -> Row]
  BY DEF AlertsInv, PushTyped, PhonesTyped
<1>2. UNCHANGED <<pushed, forgotten, cut>> /\ pc # "record" /\ pc' # "record"
  BY DEF StartPass, ConsumeWake, AfterSend, StartAlerts, NextAlert, EndPass, SkipUnreachable, SendWake,
         PassOver, logVars
<1>3. /\ DOMAIN device' = DOMAIN device
      /\ \A d \in DOMAIN device : device'[d].alerts = device[d].alerts
  <2>1. CASE ConsumeWake
    BY <1>1, <2>1 DEF ConsumeWake, Row
  <2>2. CASE ~ConsumeWake
    BY <2>2 DEF StartPass, StartAlerts, NextAlert, EndPass, SkipUnreachable, SendWake, PassOver, dbVars
  <2> QED
    BY <2>1, <2>2
<1>4. pc' \in Fanning => \E t \in Tokens : SkipUnreachable(t) \/ PassOver(t)
  BY DEF StartPass, ConsumeWake, AfterSend, StartAlerts, NextAlert, EndPass, SendWake, Fanning
<1>5. ASSUME NEW t \in Tokens, SkipUnreachable(t) \/ PassOver(t)
      PROVE  /\ alert' = alert /\ pc' = pc
             /\ DOMAIN rows' \subseteq DOMAIN rows /\ \A d \in DOMAIN rows' : rows'[d] = rows[d]
  BY <1>5 DEF SkipUnreachable, PassOver, Visit, Without
<1> QED
  BY <1>2, <1>3, <1>4, <1>5, AlertsOfWakes

\* The rows of a fan-out are those of the table.
LEMMA AlertsFanOut == AlertsInv /\ FanOut => AlertsPaid'
<1> SUFFICES ASSUME AlertsInv, FanOut PROVE AlertsPaid'
  OBVIOUS
<1>1. PushTyped' /\ LogTyped
  BY FanOutTyped DEF AlertsInv, PushTyped
<1>2. /\ pc = "alerts" /\ pc' = "fan"
      /\ UNCHANGED <<device, pushed, forgotten, cut>>
  BY DEF FanOut, dbVars, logVars
<1>3. PICK a \in todo : alert' = a /\ rows' = RowsOf(Following(a))
  BY DEF FanOut
<1>4. \A d \in Tokens : forgotten'[d] >= forgotten[d] /\ cut'[d] >= cut[d]
  BY <1>1, <1>2 DEF LogTyped, Counter
<1>5. \A d \in Tokens, b \in Alerts : Open(d, b)' => Open(d, b)
  BY <1>2 DEF Open, Recording
<1>6. \A d \in Tokens : ~Orphan(d)'
  BY <1>2, <1>3 DEF Orphan, RowsOf, Following
<1>7. \A d \in DOMAIN rows' : alert' \notin rows'[d].alerts => ~Remembered(d, alert)'
  BY <1>2, <1>3 DEF Remembered, RowsOf, Following
<1> QED
  BY <1>1, <1>2, <1>4, <1>5, <1>6, <1>7, AlertsCarry

\* What is sent was still open, and its send is now being recorded; a row that
\* has gone since it was read was counted when it went.
LEMMA AlertsSend == ASSUME AlertsInv, NEW t \in Tokens, SendAlert(t) PROVE AlertsPaid'
<1>1. PushTyped /\ LogTyped /\ PassTyped
  BY DEF AlertsInv, PushTyped
<1>2. /\ pc = "fan" /\ pc' = "record" /\ t \in DOMAIN rows /\ rows' = Without(rows, t)
      /\ alert \notin rows[t].alerts /\ cur'.token = t
      /\ UNCHANGED <<device, alert, forgotten, cut>>
      /\ pushed' \in {pushed, Bump(pushed, <<t, alert>>)}
  BY DEF SendAlert, Visit, MayPush, dbVars
<1>3. alert \in Alerts /\ pushed \in [Tokens \X Alerts -> Nat]
  BY <1>1, <1>2 DEF PassTyped, Fanning, LogTyped
<1>4. /\ pushed[<<t, alert>>] <= forgotten[t] + cut[t]
      /\ t \notin DOMAIN device => pushed[<<t, alert>>] + 1 <= forgotten[t] + cut[t]
  <2>1. Open(t, alert)
    BY <1>2 DEF AlertsInv, AlertsPaid, Fanning, Recording, Open, Remembered
  <2>2. t \notin DOMAIN device => Orphan(t)
    BY <1>2 DEF Orphan, Fanning
  <2> QED
    BY <1>3, <2>1, <2>2 DEF AlertsInv, AlertsPaid
<1>5. ASSUME NEW d \in Tokens, NEW a \in Alerts
      PROVE  /\ pushed[<<d, a>>] \in Nat /\ forgotten[d] \in Nat /\ cut[d] \in Nat
             /\ pushed'[<<d, a>>] \in {pushed[<<d, a>>], pushed[<<d, a>>] + 1}
             /\ ~(d = t /\ a = alert) => pushed'[<<d, a>>] = pushed[<<d, a>>]
  <2>1. <<d, a>> \in Tokens \X Alerts /\ <<t, alert>> \in Tokens \X Alerts
    BY <1>3
  <2>2. pushed'[<<d, a>>] = pushed[<<d, a>>] \/ (<<d, a>> = <<t, alert>> /\ pushed'[<<d, a>>] = pushed[<<d, a>>] + 1)
    BY <1>2, <1>3, <2>1, BumpTyped
  <2> QED
    BY <1>1, <1>3, <2>1, <2>2 DEF LogTyped, Counter
<1>6. ASSUME NEW d \in Tokens, NEW a \in Alerts
      PROVE  pushed'[<<d, a>>] <= 1 + forgotten'[d] + cut'[d]
  <2>1. pushed[<<d, a>>] <= 1 + forgotten[d] + cut[d]
    BY DEF AlertsInv, AlertsPaid
  <2> QED
    BY <1>2, <1>4, <1>5, <2>1
<1>7. ASSUME NEW d \in Tokens, NEW a \in Alerts, Open(d, a)'
      PROVE  pushed'[<<d, a>>] <= forgotten'[d] + cut'[d]
  <2>1. CASE d = t /\ a = alert
    <3>1. t \notin DOMAIN device
      BY <1>2, <1>7, <2>1 DEF Open, Recording
    <3> QED
      BY <1>2, <1>4, <1>5, <2>1, <3>1
  <2>2. CASE ~(d = t /\ a = alert)
    <3>1. Open(d, a)
      BY <1>2, <1>7 DEF Open, Recording
    <3>2. pushed[<<d, a>>] <= forgotten[d] + cut[d]
      BY <3>1 DEF AlertsInv, AlertsPaid
    <3> QED
      BY <1>2, <1>5, <2>2, <3>2
  <2> QED
    BY <2>1, <2>2
<1>8. ASSUME NEW d \in Tokens, Orphan(d)'
      PROVE  pushed'[<<d, alert'>>] + 1 <= forgotten'[d] + cut'[d]
  <2>1. Orphan(d) /\ d # t
    BY <1>2, <1>8 DEF Orphan, Without, Fanning
  <2>2. pushed[<<d, alert>>] + 1 <= forgotten[d] + cut[d]
    BY <2>1 DEF AlertsInv, AlertsPaid
  <2> QED
    BY <1>2, <1>3, <1>5, <2>1, <2>2
<1>9. \A d \in DOMAIN rows' : alert' \notin rows'[d].alerts => ~Remembered(d, alert)'
  BY <1>2 DEF Remembered, Without, AlertsInv, AlertsPaid, Fanning
<1>10. cur'.token \notin DOMAIN rows'
  BY <1>2 DEF Without
<1> QED
  BY <1>6, <1>7, <1>8, <1>9, <1>10 DEF AlertsPaid

\* A send that is recorded is remembered, or its row is gone.
LEMMA AlertsRecord ==
  ASSUME Cardinality(Alerts) <= Keep, AlertsInv, RecordAlert
  PROVE  AlertsPaid'
<1>1. PushTyped /\ LogTyped /\ PassTyped /\ PhonesTyped /\ PushTyped'
  BY RecordAlertTyped DEF AlertsInv, PushTyped
<1>2. /\ pc = "record" /\ pc' \in {"forgetAlert", "fan"}
      /\ UNCHANGED <<rows, alert, pushed, forgotten, cut>>
      /\ device' = IF cur.token \in DOMAIN device
                   THEN [device EXCEPT ![cur.token].alerts = Remember(@, alert)] ELSE device
  BY DEF RecordAlert, AfterSend, logVars
<1>3. alert \in Alerts /\ device \in [DOMAIN device -> Row]
  BY <1>1, <1>2 DEF PassTyped, PhonesTyped, Fanning
<1>4. /\ DOMAIN device' = DOMAIN device
      /\ \A d \in DOMAIN device : d # cur.token => device'[d] = device[d]
      /\ cur.token \in DOMAIN device => device'[cur.token].alerts = device[cur.token].alerts \cup {alert}
  <2>1. cur.token \in DOMAIN device =>
           Remember(device[cur.token].alerts, alert) = device[cur.token].alerts \cup {alert}
    BY <1>3, RememberAll DEF Row
  <2> QED
    BY <1>2, <1>3, <2>1 DEF Row
<1>5. \A d \in Tokens : forgotten'[d] >= forgotten[d] /\ cut'[d] >= cut[d]
  BY <1>1, <1>2 DEF LogTyped, Counter
<1>6. \A d \in Tokens, a \in Alerts : Open(d, a)' => Open(d, a)
  BY <1>4 DEF Open, Recording
<1>7. \A d \in Tokens : Orphan(d)' => Orphan(d)
  BY <1>2, <1>4 DEF Orphan, Fanning
<1>8. \A d \in DOMAIN rows' : alert' \notin rows'[d].alerts => ~Remembered(d, alert)'
  BY <1>2, <1>4 DEF Remembered, AlertsInv, AlertsPaid, Fanning
<1> QED
  BY <1>1, <1>2, <1>5, <1>6, <1>7, <1>8, AlertsCarry

\* A send that is lost with its pass is one more the token may get.
LEMMA AlertsPassEnds == ASSUME AlertsInv, PassFails \/ Restart PROVE AlertsPaid'
<1>1. PushTyped /\ PushTyped' /\ LogTyped
  BY PassEndsTyped DEF AlertsInv, PushTyped
<1>2. pc' = "idle" /\ UNCHANGED <<device, pushed, forgotten>>
  BY <1>1, PassEnds DEF dbVars
<1>3. /\ cut' \in Counter
      /\ \A t \in Tokens : cut'[t] >= cut[t]
      /\ pc \in {"consume", "record"} => cur.token \in Tokens /\ cut'[cur.token] = cut[cur.token] + 1
  BY <1>1, PassEnds
<1>4. \A t \in Tokens : /\ forgotten'[t] >= forgotten[t] /\ cut'[t] >= cut[t]
                        /\ pc = "record" /\ cur.token = t =>
                             forgotten'[t] + cut'[t] >= forgotten[t] + cut[t] + 1
  BY <1>1, <1>2, <1>3 DEF LogTyped, Counter
<1>5. ASSUME NEW t \in Tokens, NEW a \in Alerts, Open(t, a)'
      PROVE  Open(t, a) \/ forgotten'[t] + cut'[t] >= forgotten[t] + cut[t] + 1
  BY <1>2, <1>4, <1>5 DEF Open, Recording
<1>6. \A t \in Tokens : ~Orphan(t)'
  BY <1>2 DEF Orphan, Fanning
<1> QED
  BY <1>1, <1>2, <1>4, <1>5, <1>6, AlertsCarry DEF Fanning

LEMMA AlertsStep == ASSUME Cardinality(Alerts) <= Keep PROVE AlertsInv /\ [Next]_vars => AlertsInv'
<1> SUFFICES ASSUME AlertsInv, [Next]_vars PROVE AlertsInv'
  OBVIOUS
<1>1. PushTyped'
  BY StepTyped DEF AlertsInv
<1>2. AlertsPaid'
  <2>1. CASE UNCHANGED vars \/ ChangeAlerts \/ Tick
    <3>1. UNCHANGED <<device, loopVars, pushed, forgotten, cut>>
      BY <2>1 DEF ChangeAlerts, Tick, vars, dbVars, logVars
    <3> QED
      BY <3>1 DEF AlertsInv, AlertsPaid, Open, Orphan, Recording, Remembered, loopVars
  <2>2. ASSUME NEW t \in Tokens, SendAlert(t) \/ Register(t) \/ Unregister(t)
        PROVE  AlertsPaid'
    BY <2>2, AlertsSend, AlertsRegister, AlertsUnregister
  <2> QED
    BY <1>1, <2>1, <2>2, AlertsOtherSteps, AlertsFanOut, AlertsRecord, AlertsForgetDead, AlertsPassEnds
       DEF Next, PassStep
<1> QED
  BY <1>1, <1>2 DEF AlertsInv

\* docs/API.md:843, "never the same alert twice": while a row has room for the
\* id of every alert, an alert is pushed to a device once more at most per
\* deletion of its row and per send whose record was lost, whatever restarts.
THEOREM AlertsAreNotRepeated ==
  ASSUME Cardinality(Alerts) <= Keep
  PROVE  Spec => []AlertsNotRepeated
<1>1. Init => AlertsInv
  <2> SUFFICES ASSUME Init PROVE AlertsInv
    OBVIOUS
  <2>1. PushTyped
    BY InitTyped
  <2>2. pc = "idle" /\ pushed = [k \in Tokens \X Alerts |-> 0]
    BY DEF Init
  <2>3. \A t \in Tokens, a \in Alerts :
           pushed[<<t, a>>] = 0 /\ forgotten[t] \in Nat /\ cut[t] \in Nat
    BY <2>1, <2>2 DEF PushTyped, LogTyped, Counter
  <2> QED
    BY <2>1, <2>2, <2>3 DEF AlertsInv, AlertsPaid, Orphan, Fanning
<1>2. AlertsInv => AlertsNotRepeated
  <2> SUFFICES ASSUME AlertsInv, NEW k \in DOMAIN pushed PROVE pushed[k] <= 1 + forgotten[k[1]] + cut[k[1]]
    BY DEF AlertsNotRepeated
  <2>1. k \in Tokens \X Alerts
    BY DEF AlertsInv, PushTyped, LogTyped
  <2>2. PICK t \in Tokens, a \in Alerts : k = <<t, a>>
    BY <2>1
  <2> QED
    BY <2>2 DEF AlertsInv, AlertsPaid
<1>3. AlertsInv /\ [Next]_vars => AlertsInv'
  BY AlertsStep
<1> QED
  BY <1>1, <1>2, <1>3, PTL DEF Spec

-----------------------------------------------------------------------------
(* The daily cap: what the counters so far allow.                          *)

\* A push that was acknowledged and is not counted yet.
Uncounted(t) == IF pc = "record" /\ cur.token = t /\ cur.out = "ok" THEN 1 ELSE 0

\* What so many counters allow.
Allowed(n) == MaxPerDay * n

CapKept ==
    /\ day <= Today
    /\ \A t \in Tokens : counts[t] + Uncounted(t) <= MaxPerDay
    /\ \A t \in Tokens : today[t] <= Allowed(spans) + cut[t]
    /\ pc # "idle" \/ day = Today =>
          /\ spans >= 1
          /\ \A t \in Tokens : today[t] <= Allowed(spans - 1) + counts[t] + Uncounted(t) + cut[t]

CapInv == PushTyped /\ CapKept

LEMMA AllowedGrows ==
    /\ Allowed(0) = 0
    /\ \A n \in Nat : Allowed(n) \in Nat /\ Allowed(n + 1) = Allowed(n) + MaxPerDay
    /\ \A n \in Nat : n >= 1 => Allowed(n) = Allowed(n - 1) + MaxPerDay /\ Allowed(n - 1) \in Nat
  BY Numbers DEF Allowed

LEMMA DaysGrow ==
  ASSUME NEW c \in Nat
  PROVE  c \div DayLength \in Nat /\ c \div DayLength <= (c + 1) \div DayLength
  BY Numbers

LEMMA CapTypes ==
  ASSUME PushTyped
  PROVE  /\ Today \in Nat /\ day \in Int /\ spans \in Nat
         /\ \A t \in Tokens : counts[t] \in Nat /\ today[t] \in Nat /\ cut[t] \in Nat
         /\ \A t \in Tokens : Uncounted(t) \in {0, 1}
<1>1. Today \in Nat
  BY DaysGrow DEF PushTyped, PhonesTyped, Instants, Today
<1> QED
  BY <1>1 DEF PushTyped, PassTyped, LogTyped, Counter, Uncounted

\* A step that acknowledges, counts and loses no push.
LEMMA CapCarry ==
  ASSUME CapInv, UNCHANGED <<clock, day, counts, spans, today, cut>>,
         pc = "idle" => pc' = "idle",
         pc = "record" <=> pc' = "record", pc' = "record" => UNCHANGED cur
  PROVE  CapKept'
<1>1. \A t : Uncounted(t)' = Uncounted(t)
  BY DEF Uncounted
<1> QED
  BY <1>1 DEF CapInv, CapKept, Today

LEMMA CapOtherSteps ==
  ASSUME CapInv,
         \/ ConsumeWake \/ ForgetDeadWake \/ ForgetDeadAlert \/ StartAlerts \/ FanOut \/ NextAlert \/ EndPass
         \/ ChangeAlerts \/ UNCHANGED vars
         \/ \E t \in Tokens : SkipUnreachable(t) \/ SendWake(t) \/ PassOver(t) \/ Register(t) \/ Unregister(t)
  PROVE  CapKept'
<1>1. UNCHANGED <<clock, day, counts, spans, today, cut>>
  BY DEF ConsumeWake, ForgetDeadWake, ForgetDeadAlert, ForgetDead, StartAlerts, FanOut, NextAlert, EndPass,
         ChangeAlerts, SkipUnreachable, SendWake, PassOver, Register, Unregister, vars, loopVars, logVars
<1>2. /\ pc = "idle" => pc' = "idle"
      /\ pc = "record" <=> pc' = "record"
      /\ pc' = "record" => UNCHANGED cur
  BY DEF ConsumeWake, AfterSend, ForgetDeadWake, ForgetDeadAlert, ForgetDead, StartAlerts, FanOut, NextAlert,
         EndPass, ChangeAlerts, SkipUnreachable, SendWake, PassOver, Register, Unregister, vars, loopVars
<1> QED
  BY <1>1, <1>2, CapCarry

\* A new day's first pass starts a counter.
LEMMA CapStartPass == CapInv /\ StartPass => CapKept'
<1> SUFFICES ASSUME CapInv, StartPass PROVE CapKept'
  OBVIOUS
<1>1. PushTyped /\ CapKept
  BY DEF CapInv
<1>2. /\ pc = "idle" /\ pc' = "wakes" /\ UNCHANGED <<today, cut>> /\ Today' = Today
      /\ \/ day = Today /\ UNCHANGED <<counts, day, spans>>
         \/ counts' = [t \in Tokens |-> 0] /\ day' = Today /\ spans' = spans + 1
  BY DEF StartPass, Today
<1>3. \A t : Uncounted(t)' = 0 /\ Uncounted(t) = 0
  BY <1>2 DEF Uncounted
<1>4. CASE day = Today /\ UNCHANGED <<counts, day, spans>>
  BY <1>1, <1>2, <1>3, <1>4 DEF CapKept
<1>5. CASE counts' = [t \in Tokens |-> 0] /\ day' = Today /\ spans' = spans + 1
  <2>1. spans' - 1 = spans /\ spans' >= 1
    BY <1>1, <1>5, CapTypes
  <2>2. \A t \in Tokens : today[t] <= Allowed(spans) + cut[t]
    BY <1>1 DEF CapKept
  <2>3. Allowed(spans') = Allowed(spans) + MaxPerDay /\ Allowed(spans) \in Nat
    BY <1>1, <1>5, CapTypes, AllowedGrows
  <2>4. \A t \in Tokens : today'[t] <= Allowed(spans') + cut'[t]
    BY <1>1, <1>2, <2>2, <2>3, CapTypes, Numbers
  <2>5. \A t \in Tokens : today'[t] <= Allowed(spans' - 1) + counts'[t] + 0 + cut'[t]
    BY <1>1, <1>2, <1>5, <2>1, <2>2, <2>3, CapTypes
  <2>6. day' <= Today' /\ \A t \in Tokens : counts'[t] + 0 <= MaxPerDay
    BY <1>1, <1>2, <1>5, CapTypes, Numbers
  <2> QED
    BY <1>3, <2>1, <2>4, <2>5, <2>6 DEF CapKept
<1> QED
  BY <1>2, <1>4, <1>5

LEMMA CapSendAlert == ASSUME CapInv, NEW t \in Tokens, SendAlert(t) PROVE CapKept'
<1>1. PushTyped /\ CapKept
  BY DEF CapInv
<1>2. /\ pc = "fan" /\ pc' = "record" /\ counts[t] < MaxPerDay /\ cur'.token = t
      /\ UNCHANGED <<clock, day, counts, spans, cut>>
      /\ today' = IF cur'.out = "ok" THEN Bump(today, t) ELSE today
  BY DEF SendAlert, MayPush
<1>3. today \in Counter
  BY <1>1 DEF PushTyped, LogTyped
<1>4. ASSUME NEW d \in Tokens
      PROVE  /\ today'[d] = today[d] + Uncounted(d)' /\ Uncounted(d) = 0
             /\ Uncounted(d)' \in {0, 1} /\ (Uncounted(d)' = 1 => d = t)
  BY <1>2, <1>3, BumpTyped DEF Uncounted, Counter
<1>5. /\ spans >= 1 /\ day <= Today /\ Today' = Today
      /\ \A d \in Tokens : today[d] <= Allowed(spans - 1) + counts[d] + Uncounted(d) + cut[d]
      /\ \A d \in Tokens : counts[d] + Uncounted(d) <= MaxPerDay
  BY <1>1, <1>2 DEF CapKept, Today
<1>6. Allowed(spans) = Allowed(spans - 1) + MaxPerDay /\ Allowed(spans - 1) \in Nat
  BY <1>1, <1>5, CapTypes, AllowedGrows
<1>7. ASSUME NEW d \in Tokens
      PROVE  /\ counts'[d] + Uncounted(d)' <= MaxPerDay
             /\ today'[d] <= Allowed(spans' - 1) + counts'[d] + Uncounted(d)' + cut'[d]
             /\ today'[d] <= Allowed(spans') + cut'[d]
  <2>1. counts[d] \in Nat /\ today[d] \in Nat /\ cut[d] \in Nat /\ counts[d] <= MaxPerDay
    BY <1>1, <1>4, <1>5, CapTypes
  <2>2. counts'[d] + Uncounted(d)' <= MaxPerDay
    BY <1>2, <1>4, <2>1, Numbers
  <2>3. today'[d] <= Allowed(spans - 1) + counts[d] + Uncounted(d)' + cut[d]
    BY <1>4, <1>5, <1>6, <2>1
  <2> QED
    BY <1>2, <1>4, <1>6, <2>1, <2>2, <2>3, Numbers
<1> QED
  BY <1>2, <1>5, <1>7 DEF CapKept

LEMMA CapRecord == CapInv /\ RecordAlert => CapKept'
<1> SUFFICES ASSUME CapInv, RecordAlert PROVE CapKept'
  OBVIOUS
<1>1. PushTyped /\ CapKept
  BY DEF CapInv
<1>2. /\ pc = "record" /\ pc' \in {"forgetAlert", "fan"}
      /\ UNCHANGED <<clock, day, spans, today, cut>>
      /\ counts' = IF cur.out = "ok" THEN Bump(counts, cur.token) ELSE counts
  BY DEF RecordAlert, AfterSend, logVars
<1>3. counts \in Counter /\ cur.token \in Tokens
  BY <1>1, <1>2 DEF PushTyped, PassTyped, Sending
<1>4. \A d \in Tokens : counts'[d] = counts[d] + Uncounted(d) /\ Uncounted(d)' = 0
  BY <1>2, <1>3, BumpTyped DEF Uncounted, Counter
<1>5. Today' = Today
  BY <1>2 DEF Today
<1>6. \A d \in Tokens : counts'[d] + Uncounted(d)' = counts[d] + Uncounted(d)
  BY <1>1, <1>4, CapTypes
<1>7. /\ spans >= 1
      /\ \A d \in Tokens : today[d] <= Allowed(spans - 1) + counts[d] + Uncounted(d) + cut[d]
  BY <1>1, <1>2 DEF CapKept
<1>8. ASSUME NEW d \in Tokens
      PROVE  today'[d] <= Allowed(spans' - 1) + counts'[d] + Uncounted(d)' + cut'[d]
  <2>1. Allowed(spans - 1) \in Nat
    BY <1>1, <1>7, CapTypes, AllowedGrows
  <2> QED
    BY <1>1, <1>2, <1>4, <1>7, <2>1, CapTypes
<1>9. ASSUME NEW d \in Tokens PROVE counts'[d] + Uncounted(d)' <= MaxPerDay
  BY <1>1, <1>6 DEF CapKept
<1> QED
  BY <1>1, <1>2, <1>5, <1>7, <1>8, <1>9 DEF CapKept

LEMMA CapPassEnds == ASSUME CapInv, PassFails \/ Restart PROVE CapKept'
<1>1. PushTyped /\ CapKept
  BY DEF CapInv
<1>2. /\ pc' = "idle" /\ UNCHANGED <<clock, today, spans>> /\ Today' = Today
      /\ cut' \in Counter
      /\ \A t \in Tokens : cut'[t] >= cut[t]
      /\ pc \in {"consume", "record"} => cur.token \in Tokens /\ cut'[cur.token] = cut[cur.token] + 1
  BY <1>1, PassEnds DEF Today
<1>3. \/ UNCHANGED <<counts, day>>
      \/ counts' = [t \in Tokens |-> 0] /\ day' = -1
  BY DEF PassFails, Restart
<1>4. \A t \in Tokens : Uncounted(t)' = 0 /\ cut'[t] \in Nat /\ cut'[t] >= cut[t] + Uncounted(t)
  BY <1>1, <1>2, CapTypes DEF Uncounted, Counter
<1>5. \A t \in Tokens : today[t] <= Allowed(spans) + cut[t]
  BY <1>1 DEF CapKept
<1>6. ASSUME NEW t \in Tokens PROVE today'[t] <= Allowed(spans') + cut'[t]
  <2>1. Allowed(spans) \in Nat
    BY <1>1, CapTypes, AllowedGrows
  <2> QED
    BY <1>1, <1>2, <1>4, <1>5, <2>1, CapTypes
<1>7. CASE UNCHANGED <<counts, day>>
  <2>1. ASSUME NEW t \in Tokens PROVE counts'[t] + Uncounted(t)' <= MaxPerDay
    <3>1. counts[t] + Uncounted(t) <= MaxPerDay
      BY <1>1 DEF CapKept
    <3> QED
      BY <1>1, <1>4, <1>7, <3>1, CapTypes, Numbers
  <2>2. ASSUME day' = Today', NEW t \in Tokens
        PROVE  spans' >= 1 /\ today'[t] <= Allowed(spans' - 1) + counts'[t] + Uncounted(t)' + cut'[t]
    <3>1. spans >= 1 /\ today[t] <= Allowed(spans - 1) + counts[t] + Uncounted(t) + cut[t]
      BY <1>1, <1>2, <1>7, <2>2 DEF CapKept
    <3>2. Allowed(spans - 1) \in Nat
      BY <1>1, <3>1, CapTypes, AllowedGrows
    <3> QED
      BY <1>1, <1>2, <1>4, <1>7, <3>1, <3>2, CapTypes
  <2>3. day' = Today' => spans' >= 1
    BY <1>1, <1>2, <1>7 DEF CapKept
  <2> QED
    BY <1>1, <1>2, <1>6, <1>7, <2>1, <2>2, <2>3 DEF CapKept
<1>8. CASE counts' = [t \in Tokens |-> 0] /\ day' = -1
  <2>1. Today \in Nat
    BY <1>1, CapTypes
  <2> QED
    BY <1>2, <1>4, <1>6, <1>8, <2>1, Numbers DEF CapKept
<1> QED
  BY <1>3, <1>7, <1>8

\* At midnight nothing has been sent; a pass that is under way keeps its
\* counter for the day.
LEMMA CapTick == CapInv /\ Tick => CapKept'
<1> SUFFICES ASSUME CapInv, Tick PROVE CapKept'
  OBVIOUS
<1>1. PushTyped /\ CapKept
  BY DEF CapInv
<1>2. /\ clock' = clock + 1 /\ UNCHANGED <<loopVars, cut>>
      /\ \/ Today' # Today /\ today' = [t \in Tokens |-> 0] /\ spans' = IF pc = "idle" THEN 0 ELSE 1
         \/ Today' = Today /\ UNCHANGED <<today, spans>>
  BY DEF Tick, Today
<1>3. Today \in Nat /\ Today' \in Nat /\ Today <= Today'
  <2>1. clock \in Nat
    BY <1>1 DEF PushTyped, PhonesTyped, Instants
  <2> QED
    BY <1>2, <2>1, DaysGrow DEF Today
<1>4. \A t : Uncounted(t)' = Uncounted(t)
  BY <1>2 DEF Uncounted, loopVars
<1>5. day' = day /\ pc' = pc /\ counts' = counts /\ cut' = cut
  BY <1>2 DEF loopVars
<1>6. CASE Today' = Today /\ UNCHANGED <<today, spans>>
  BY <1>1, <1>4, <1>5, <1>6 DEF CapKept
<1>7. CASE Today' # Today /\ today' = [t \in Tokens |-> 0] /\ spans' = IF pc = "idle" THEN 0 ELSE 1
  <2>1. day' < Today'
    BY <1>1, <1>3, <1>5, <1>7, CapTypes DEF CapKept
  <2>2. Allowed(spans') \in Nat /\ (spans' = 1 => Allowed(spans' - 1) = 0)
    BY <1>7, AllowedGrows
  <2>3. ASSUME NEW t \in Tokens
        PROVE  /\ counts'[t] + Uncounted(t)' <= MaxPerDay
               /\ today'[t] <= Allowed(spans') + cut'[t]
               /\ spans' = 1 => today'[t] <= Allowed(spans' - 1) + counts'[t] + Uncounted(t)' + cut'[t]
    <3>1. counts[t] + Uncounted(t) <= MaxPerDay
      BY <1>1 DEF CapKept
    <3> QED
      BY <1>1, <1>4, <1>5, <1>7, <2>2, <3>1, CapTypes
  <2> QED
    BY <1>3, <1>5, <1>7, <2>1, <2>3, CapTypes, <1>1 DEF CapKept
<1> QED
  BY <1>2, <1>6, <1>7

LEMMA CapStep == CapInv /\ [Next]_vars => CapInv'
<1> SUFFICES ASSUME CapInv, [Next]_vars PROVE CapInv'
  OBVIOUS
<1>1. PushTyped'
  BY StepTyped DEF CapInv
<1>2. CapKept'
  BY CapOtherSteps, CapStartPass, CapSendAlert, CapRecord, CapPassEnds, CapTick DEF Next, PassStep
<1> QED
  BY <1>1, <1>2 DEF CapInv

\* push.py:36, MAX_ALERT_PUSHES_PER_DAY: since midnight a device has been
\* pushed no more than the cap for each counter the day has had, plus the
\* sends that were lost before they were counted.
THEOREM CapIsPerCounter == Spec => []CapPerCounter
<1>1. Init => CapInv
  <2> SUFFICES ASSUME Init PROVE CapInv
    OBVIOUS
  <2>1. PushTyped
    BY InitTyped
  <2>2. /\ pc = "idle" /\ day = -1 /\ spans = 0
        /\ counts = [t \in Tokens |-> 0] /\ today = [t \in Tokens |-> 0] /\ cut = [t \in Tokens |-> 0]
    BY DEF Init
  <2>3. \A t : Uncounted(t) = 0
    BY <2>2 DEF Uncounted
  <2> QED
    BY <2>1, <2>2, <2>3, CapTypes, AllowedGrows, Numbers DEF CapInv, CapKept
<1>2. CapInv => CapPerCounter
  BY DEF CapInv, CapKept, CapPerCounter, Allowed
<1> QED
  BY <1>1, <1>2, CapStep, PTL DEF Spec

\* Both limits on alert pushes together.
THEOREM AlertsAreLimited ==
  ASSUME Cardinality(Alerts) <= Keep
  PROVE  Spec => []AlertsLimited
<1>1. AlertsNotRepeated /\ CapPerCounter => AlertsLimited
  BY DEF AlertsLimited
<1>2. Spec => []AlertsNotRepeated
  BY AlertsAreNotRepeated
<1> QED
  BY <1>1, <1>2, CapIsPerCounter, PTL

-----------------------------------------------------------------------------
(* The fan-out.                                                            *)

\* push.py:7: when the fan-out of an alert begins it is to visit every device
\* that follows one of its routes, wherever no two names of routes stand for
\* the same one (a phone registers the names the alerts are read with).
THEOREM FollowersAreVisited ==
  ASSUME \A r \in UNION PhoneRoutes, a \in Alerts : \A q \in AlertRoutes[a] : Bare[r] = Bare[q] => r = q
  PROVE  Spec => FollowersVisited
<1> DEFINE Visited == (pc = "alerts" /\ pc' = "fan") =>
                         \A t \in DOMAIN device :
                             (\E r \in device[t].routes, q \in AlertRoutes[alert'] : Bare[r] = Bare[q])
                                 => t \in DOMAIN rows'
<1>1. Init => PushTyped
  BY InitTyped
<1>2. PushTyped /\ [Next]_vars => PushTyped'
  BY StepTyped
<1>3. PushTyped /\ [Next]_vars => [Visited]_vars
  <2> SUFFICES ASSUME PushTyped, Next, pc = "alerts", pc' = "fan",
                      NEW t \in DOMAIN device,
                      NEW r \in device[t].routes, NEW q \in AlertRoutes[alert'], Bare[r] = Bare[q]
               PROVE  t \in DOMAIN rows'
    OBVIOUS
  <2>1. FanOut
    BY DEF Next, PassStep, StartPass, ConsumeWake, ForgetDeadWake, ForgetDeadAlert, ForgetDead, StartAlerts,
           RecordAlert, NextAlert, EndPass, SkipUnreachable, SendWake, PassOver, SendAlert, PassFails,
           ChangeAlerts, Tick, Restart, Register, Unregister, loopVars
  <2>2. PICK a \in todo : alert' = a /\ rows' = RowsOf(Following(a))
    BY <2>1 DEF FanOut
  <2>3. a \in Alerts /\ r \in UNION PhoneRoutes
    BY <2>2 DEF PushTyped, PassTyped, PhonesTyped, Row
  <2>4. r = q
    BY <2>2, <2>3
  <2> QED
    BY <2>2, <2>4 DEF RowsOf, Following
<1> QED
  BY <1>1, <1>2, <1>3, PTL DEF Spec, FollowersVisited

=============================================================================
