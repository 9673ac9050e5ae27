------------------------------- MODULE HeatMap -------------------------------
(***************************************************************************)
(* The cells of the analytics heat map (app/analytics.py: Hasher,          *)
(* prepare_rows, PgAnalyticsStore.salt_for, od and places): instances of   *)
(* the service receive batches, agree on a salt for the day, store rows    *)
(* that name a phone by its hash alone, and show a cell on the days that   *)
(* enough phones were there.                                               *)
(*                                                                         *)
(* A hash is the pair of its salt and its phone.  Every await between the  *)
(* receipt of a batch and its row is the boundary of a step.               *)
(***************************************************************************)
EXTENDS Integers, FiniteSets

CONSTANTS
    Phones, Instances,
    Batches,      \* batches that may be under way at once
    UtcTicks,     \* parts of a day told apart
    Behind,       \* how far the city's midnight is behind that of UTC
    MaxAge,       \* how far an event's own time may be from its receipt
    KThreshold,   \* analytics.kThreshold
    LastTick, MaxRows, MaxStarts    \* bounds of a behaviour

ASSUME HeatAssumption == /\ UtcTicks \in Nat \ {0} /\ KThreshold \in Nat \ {0, 1}
                         /\ {Behind, MaxAge, LastTick, MaxRows, MaxStarts} \subseteq Nat

VARIABLES
    tick,         \* now
    salts,        \* analytics_salt: day -> its salt
    salted,       \* salts made
    saltsKnown,      \* instance -> its Hasher: day -> salt
    batches,      \* the batches under way
    seenAt,       \* analytics_event
    anew        \* used of the bound

heat == <<tick, salts, salted, saltsKnown, batches, seenAt, anew>>

\* What one event says of where its phone was: a search picks a cell, a plan
\* goes from one to the other.
Visits == {{<<"search", "home">>}, {<<"pair", "home", "work">>, <<"origin", "home">>, <<"destination", "work">>}}
UtcDay(t) == t \div UtcTicks
LocalDay(t) == (t - Behind) \div UtcTicks
NoBatch == [stage |-> "none"]
With(f, k, v) == [d \in DOMAIN f \cup {k} |-> IF d = k THEN v ELSE f[d]]

HeatInit ==
    /\ tick = 0 /\ salts = <<>> /\ salted = 0
    /\ saltsKnown = [i \in Instances |-> <<>>]
    /\ batches = [b \in Batches |-> NoBatch]
    /\ seenAt = {} /\ anew = 0

-----------------------------------------------------------------------------
\* A phone sends an event of now or of some time ago; the clock of a phone may
\* be ahead.  The day of the receipt is the day of the salt.
ReceiveBatch(b) ==
    /\ batches[b] = NoBatch /\ Cardinality(seenAt) < MaxRows
    /\ \E i \in Instances, p \in Phones, t \in 0 .. LastTick, v \in Visits :
          /\ t - tick \in -MaxAge .. MaxAge
          /\ batches' = [batches EXCEPT ![b] = [stage |-> "salt", on |-> i, phone |-> p, at |-> t, visits |-> v,
                                                 day |-> UtcDay(tick)]]
    /\ UNCHANGED <<tick, salts, salted, saltsKnown, seenAt, anew>>

To(b, next) == [batches[b] EXCEPT !.stage = next]
\* The batch is hashed with the salt, and stored.
EventRow(b, salt) == [hash |-> <<salt, batches[b].phone>>, at |-> batches[b].at, visits |-> batches[b].visits,
                 phone |-> batches[b].phone, day |-> batches[b].day]
StoreRow(b, salt) ==
    /\ seenAt' = seenAt \cup {EventRow(b, salt)}
    /\ batches' = [batches EXCEPT ![b] = NoBatch]

\* The instance keeps the salts of the last two days, of the day given.
Remembering(k, day, salt) == [d \in {e \in DOMAIN With(k, day, salt) : e >= day - 2} |-> With(k, day, salt)[d]]
HashWith(b, salt) ==
    /\ saltsKnown' = [saltsKnown EXCEPT ![batches[b].on] = Remembering(@, batches[b].day, salt)]
    /\ StoreRow(b, salt)

\* Hasher.salt: the instance's own memory first, then the table.
AskMemory(b) ==
    /\ batches[b].stage = "salt"
    /\ LET k == saltsKnown[batches[b].on] IN
         IF batches[b].day \in DOMAIN k
         THEN StoreRow(b, k[batches[b].day])
         ELSE batches' = [batches EXCEPT ![b] = To(b, "select")] /\ UNCHANGED seenAt
    /\ UNCHANGED <<tick, salts, salted, saltsKnown, anew>>

Select(b) ==
    /\ batches[b].stage = "select"
    /\ IF batches[b].day \in DOMAIN salts
       THEN HashWith(b, salts[batches[b].day])
       ELSE batches' = [batches EXCEPT ![b] = To(b, "insert")] /\ UNCHANGED <<saltsKnown, seenAt>>
    /\ UNCHANGED <<tick, salts, salted, anew>>

\* Mutant: the conflict overwrites what another instance has stored.
Overwritten(day, new) == With(salts, day, new)

\* ON CONFLICT DO NOTHING: the first one stays.
Inserted(day, new) == IF day \in DOMAIN salts THEN salts ELSE With(salts, day, new)

InsertSalt(b) ==
    /\ batches[b].stage = "insert"
    /\ salts' = Inserted(batches[b].day, salted + 1)
    /\ salted' = salted + 1
    /\ batches' = [batches EXCEPT ![b] = To(b, "read")]
    /\ UNCHANGED <<tick, saltsKnown, seenAt, anew>>

\* Whoever stored it, the salt in the table is the one that counts.
ReadSalt(b) ==
    /\ batches[b].stage = "read"
    /\ HashWith(b, salts[batches[b].day])
    /\ UNCHANGED <<tick, salts, salted, anew>>

\* An instance is started anew: what was under way on it is lost.
StartAnew(i) ==
    /\ anew < MaxStarts /\ anew' = anew + 1
    /\ saltsKnown' = [saltsKnown EXCEPT ![i] = <<>>]
    /\ batches' = [b \in Batches |-> IF batches[b] # NoBatch /\ batches[b].on = i THEN NoBatch ELSE batches[b]]
    /\ UNCHANGED <<tick, salts, salted, seenAt>>

TimeGoesOn == tick < LastTick /\ tick' = tick + 1 /\ UNCHANGED <<salts, salted, saltsKnown, batches, seenAt, anew>>

HeatNext ==
    \/ TimeGoesOn
    \/ \E b \in Batches : ReceiveBatch(b) \/ AskMemory(b) \/ Select(b) \/ InsertSalt(b) \/ ReadSalt(b)
    \/ \E i \in Instances : StartAnew(i)
HeatSpec == HeatInit /\ [][HeatNext]_heat

-----------------------------------------------------------------------------
(* od and places: of every local day, the cells and pairs of cells.        *)
Places == UNION Visits
LocalDates == {LocalDay(r.at) : r \in seenAt}
There(day, place) == {r \in seenAt : LocalDay(r.at) = day /\ place \in r.visits}

\* count(DISTINCT cohort_hash)
Devices(day, place) == Cardinality({r.hash : r \in There(day, place)})

\* The panel may ask for a higher threshold, never for a lower one.
Threshold(least) == IF least > KThreshold THEN least ELSE KThreshold
CellsShown(least) == {dp \in LocalDates \X Places : Devices(dp[1], dp[2]) >= Threshold(least)}

\* analytics.py:221, "so several API instances agree": however instances race
\* for the first salt of a day, forget it or start anew, the devices counted at
\* a place on a local day are the phones that were there, each as often as its
\* events came in on different UTC days.
DevicesCounted ==
    \A d \in LocalDates, p \in Places :
        Devices(d, p) = Cardinality({<<r.phone, r.day>> : r \in There(d, p)})

\* analytics.py:684, "A lone user never surfaces": what is shown of a day was
\* visited by as many phones as the threshold says.
LoneUserHidden ==
    \A dp \in CellsShown(1) : Cardinality({r.phone : r \in There(dp[1], dp[2])}) >= KThreshold
==============================================================================
