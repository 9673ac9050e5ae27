----------------------------- MODULE LoginThrottle -----------------------------
(***************************************************************************)
(* The failed-attempt throttle of the panel's sign-in (admin_auth.         *)
(* LoginThrottle, routers/admin.login).  An attempt asks the throttle for  *)
(* its address of mail and its network address, awaits the check of the    *)
(* password, and only then counts a failure, under the instant at which it *)
(* asked; other attempts ask in between.                                   *)
(*                                                                         *)
(* The list of a key's failures is the set of them: each has its number in *)
(* the order in which they were counted, and the instant it was asked at.  *)
(***************************************************************************)
EXTENDS Integers, FiniteSets

CONSTANTS
    Attempts,       \* requests that may be in progress at once
    Mails, Hosts,   \* what attempts are made with
    FailLimit, FailWindow,
    CheckTime,      \* how long the check of a password may take
    KeysKept,       \* keys above which a failure also cleans up
    LastInstant, MaxFailed      \* bounds on a behaviour

ASSUME ThrottleAssumption ==
    /\ {FailLimit, FailWindow} \subseteq Nat \ {0}
    /\ {CheckTime, LastInstant, MaxFailed} \subseteq Nat
    /\ IsFiniteSet(Attempts) /\ Mails \cap Hosts = {}

VARIABLES
    clock,
    failed,     \* failures counted
    fails,      \* key -> its failures, of the keys it has heard of
    attempts,   \* what each attempt in progress asked with, and when
    guesses     \* key -> every failure since the last success, a window of them (history)

throttle == <<clock, failed, fails, attempts, guesses>>
Names == Mails \cup Hosts
NoAttempt == [mail |-> "none"]

FailsOf(fs, k) == IF k \in DOMAIN fs THEN fs[k] ELSE {}
Recent(times, at) == {f \in times : at - f.at < FailWindow}
\* The mutated form starts the window at the last failure and lets one more in.
BlockedLate(k) == Cardinality(Recent(FailsOf(fails, k), clock)) > FailLimit
Blocked(k) == Cardinality(Recent(FailsOf(fails, k), clock)) >= FailLimit
\* The question forgets what is out of the window, and a key is known once asked for.
Looked(fs, k) == [j \in DOMAIN fs \cup {k} |-> IF j = k THEN Recent(FailsOf(fs, k), clock) ELSE fs[j]]

ThrottleInit ==
    /\ clock = 0 /\ failed = 0
    /\ fails = <<>>
    /\ attempts = [a \in Attempts |-> NoAttempt]
    /\ guesses = [k \in Names |-> {}]

Ask(a, mail, host) ==
    /\ attempts[a] = NoAttempt
    /\ ~Blocked(mail) /\ ~Blocked(host)
    /\ fails' = Looked(Looked(fails, mail), host)
    /\ attempts' = [attempts EXCEPT ![a] = [mail |-> mail, host |-> host, at |-> clock]]
    /\ UNCHANGED <<clock, failed, guesses>>

\* Answered 429; the second question is not put when the first one tells.
TurnAway(mail, host) ==
    /\ Blocked(mail) \/ Blocked(host)
    /\ fails' = IF Blocked(mail) THEN Looked(fails, mail) ELSE Looked(Looked(fails, mail), host)
    /\ UNCHANGED <<clock, failed, attempts, guesses>>

WithFailure(fs, k, f) == [j \in DOMAIN fs \cup {k} |-> IF j = k THEN FailsOf(fs, k) \cup {f} ELSE fs[j]]
\* The failure counted last is old.
LongAgo(times, at) == \E f \in times : at - f.at >= FailWindow /\ \A g \in times : g.no <= f.no
\* Above KeysKept keys, those without a failure or with a stale list are forgotten.
CleanedUp(fs, at) ==
    IF Cardinality(DOMAIN fs) <= KeysKept THEN fs
    ELSE [j \in {k \in DOMAIN fs : fs[k] # {} /\ ~LongAgo(fs[k], at)} |-> fs[j]]
CountFail(fs, k, f) == CleanedUp(WithFailure(fs, k, f), f.at)

WrongPassword(a) ==
    LET n == attempts[a]
        f == [no |-> failed + 1, at |-> n.at]
    IN  /\ n # NoAttempt /\ failed < MaxFailed
        /\ failed' = failed + 1
        /\ fails' = CountFail(CountFail(fails, n.mail, f), n.host, f)
        /\ guesses' = [k \in Names |-> IF k \in {n.mail, n.host} THEN Recent(guesses[k], clock) \cup {f}
                                      ELSE guesses[k]]
        /\ attempts' = [attempts EXCEPT ![a] = NoAttempt]
        /\ UNCHANGED clock

RightPassword(a) ==
    LET n == attempts[a]
    IN  /\ n # NoAttempt
        /\ fails' = [k \in DOMAIN fails \ {n.mail, n.host} |-> fails[k]]
        /\ guesses' = [k \in Names |-> IF k \in {n.mail, n.host} THEN {} ELSE guesses[k]]
        /\ attempts' = [attempts EXCEPT ![a] = NoAttempt]
        /\ UNCHANGED <<clock, failed>>

ThrottleTick ==
    /\ clock < LastInstant
    /\ \A a \in Attempts : attempts[a] # NoAttempt => clock - attempts[a].at < CheckTime
    /\ clock' = clock + 1
    /\ UNCHANGED <<failed, fails, attempts, guesses>>

ThrottleNext ==
    \/ \E a \in Attempts, m \in Mails, h \in Hosts : Ask(a, m, h)
    \/ \E m \in Mails, h \in Hosts : TurnAway(m, h)
    \/ \E a \in Attempts : WrongPassword(a) \/ RightPassword(a)
    \/ ThrottleTick
ThrottleSpec == ThrottleInit /\ [][ThrottleNext]_throttle

Guessed(k) == {g \in guesses[k] : clock - g.at < FailWindow - CheckTime}
Trying(k) == {a \in Attempts : attempts[a] # NoAttempt /\ k \in {attempts[a].mail, attempts[a].host}}
(***************************************************************************)
(* Attempts that overlap all pass the question before any is counted       *)
(* (routers/admin.py:145), so the limit may be overshot, but by no more    *)
(* than the attempts in progress: fewer than FailLimit + |Attempts| check  *)
(* a key's password and find it wrong.  That is so of those asked in a     *)
(* window less the time of a check: a failure that is counted before an    *)
(* older one goes with it when the older one is out of the window          *)
(* (admin_auth.py:196).                                                    *)
(***************************************************************************)
GuessesBounded ==
    \A k \in Names : Cardinality(Guessed(k)) + Cardinality(Trying(k)) <= FailLimit - 1 + Cardinality(Attempts)
=============================================================================
