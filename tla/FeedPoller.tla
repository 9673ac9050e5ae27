------------------------------ MODULE FeedPoller ------------------------------
(***************************************************************************)
(* The poller of a city's realtime feeds (rt.FeedBackoff, _fetch,          *)
(* poll_once, poller_loop): every cycle asks the feeds that are not being  *)
(* left alone.  Time is counted in cycles, which is what is waited for.    *)
(***************************************************************************)
EXTENDS Integers

CONSTANTS
    Urls,           \* the addresses polled
    Alerts,         \* the one of the alerts, asked less often
    BackoffStart, BackoffMax,    \* cycles
    AlertsInterval               \* cycles between two readings of the alerts

ASSUME PollerAssumption ==
    /\ Alerts \in Urls
    /\ BackoffStart \in Nat \ {0} /\ BackoffMax \in Nat /\ BackoffMax >= BackoffStart
    /\ AlertsInterval \in Nat \ {0}

VARIABLES
    wait,       \* cycles in which an address is still left alone
    delay,      \* after how many it was to be asked again; 0 when nothing is remembered
    alertsAge,  \* cycles since the alerts were read
    turnsAway,  \* addresses whose server turns us away
    breaks,     \* whether answers get lost on the way
    read        \* addresses read in the last cycle (history)

poller == <<wait, delay, alertsAge, turnsAway, breaks, read>>

Smaller(a, b) == IF a < b THEN a ELSE b
PollerInit ==
    /\ wait = [u \in Urls |-> 0] /\ delay = [u \in Urls |-> 0]
    /\ alertsAge = AlertsInterval
    /\ turnsAway = {} /\ breaks = FALSE
    /\ read = {}

\* Mutant: whatever a delay is remembered of is left alone.
BlockedUntilRead(u) == delay[u] > 0
BlockedUrl(u) == wait[u] > 0
Wants(u) == ~BlockedUrl(u) /\ (u = Alerts => alertsAge >= AlertsInterval)
RefusedFor(u) == Smaller(BackoffMax, IF delay[u] = 0 THEN BackoffStart ELSE 2 * delay[u])

\* An answer that is no refusal forgets the delay, even one that is then no use.
Allowed(u, answered) == IF answered THEN 0 ELSE RefusedFor(u)

\* One cycle: every wanted address is asked; some answers are lost or cannot be read.
Poll(lost, garbled) ==
    LET asked   == {u \in Urls : Wants(u)}
        answers == asked \ lost
        refused == answers \cap turnsAway
        fine    == (answers \ refused) \ garbled
    IN  /\ lost \cup garbled \subseteq asked /\ (lost \cup garbled # {} => breaks)
        /\ delay' = [u \in Urls |-> IF u \in answers THEN Allowed(u, u \notin refused) ELSE delay[u]]
        /\ wait' = [u \in Urls |-> IF u \in refused THEN delay'[u] - 1
                                   ELSE IF u \in answers \/ wait[u] = 0 THEN 0 ELSE wait[u] - 1]
        /\ alertsAge' = IF Alerts \in fine THEN 0 ELSE Smaller(AlertsInterval, alertsAge + 1)
        /\ read' = fine
        /\ UNCHANGED <<turnsAway, breaks>>

PollAny == \E lost, garbled \in SUBSET Urls : Poll(lost, garbled)

\* A server begins or stops turning us away; the network begins or stops to lose answers.
ServersChange ==
    /\ turnsAway' \in SUBSET Urls /\ breaks' \in BOOLEAN
    /\ <<turnsAway, breaks>>' # <<turnsAway, breaks>>
    /\ UNCHANGED <<wait, delay, alertsAge, read>>

PollerNext == PollAny \/ ServersChange

(***************************************************************************)
(* A feed that lets us in again, on a network that works, is read again.   *)
(***************************************************************************)
ReadAgain == \A u \in Urls : <>[](u \notin turnsAway /\ ~breaks) => []<>(u \in read)
=============================================================================
