------------------------------ MODULE ShareLinks ------------------------------
(***************************************************************************)
(* Shared trips: share.py, routers/share.py and the limiter of             *)
(* analytics.py that create_share asks.  A request that changes a share    *)
(* reads the row, checks the key against what it read, and changes the row *)
(* by a second statement; others run in between.  Instants are whole.      *)
(***************************************************************************)
EXTENDS Integers, FiniteSets

CONSTANTS
    Tokens,      \* the random tokens that may be minted
    Slots,       \* requests that may be in progress at once
    CityTtl,     \* config.share.ttl_minutes
    MaxTtl,      \* config.share.max_ttl_minutes
    Wanted,      \* the ttlMinutes a body may ask for; 0 is none
    Window,      \* the limiter's window
    Limit,       \* and how many creations it allows one caller in it
    MaxTime      \* bound of the clock

ASSUME ShareAssumption ==
    /\ CityTtl \in Nat \ {0} /\ MaxTtl \in Nat \ {0} /\ Wanted \subseteq Nat
    /\ Window \in Nat \ {0} /\ Limit \in Nat \ {0} /\ MaxTime \in Nat

VARIABLES
    rows,      \* share_eta: what each stored token has (progress, expires)
    now,
    hits,      \* the limiter's window and count of the one caller
    slots,     \* what each request in progress has read and will do
    minted,    \* token -> when it was promised to expire
    revoked    \* tokens whose revocation was answered 204

share == <<rows, now, hits, slots, minted, revoked>>
Idle == [op |-> "idle"]
Progress == {"on_time", "arrived"}

Expiry(wanted) ==
    LET minutes == IF wanted = 0 THEN CityTtl ELSE wanted
        capped  == IF minutes < MaxTtl THEN minutes ELSE MaxTtl
    IN  now + (IF capped < 1 THEN 1 ELSE capped)

Live(t) == t \in DOMAIN rows /\ rows[t].expires > now

ShareInit ==
    /\ rows = <<>> /\ minted = <<>>
    /\ now = 0 /\ revoked = {}
    /\ hits = [window |-> 0, count |-> 0]
    /\ slots = [s \in Slots |-> Idle]

\* The limiter counts the refused ones too.
Hit == [window |-> now \div Window,
        count  |-> 1 + (IF hits.window = now \div Window THEN hits.count ELSE 0)]
AllowedHit == Hit.count <= Limit

CreateShare(t, wanted) ==
    /\ t \notin DOMAIN minted
    /\ AllowedHit
    /\ hits' = Hit
    /\ LET expires == Expiry(wanted)
       IN  /\ rows' = [x \in DOMAIN rows \cup {t} |->
                         IF x = t THEN [progress |-> "none", expires |-> expires] ELSE rows[x]]
           /\ minted' = [x \in DOMAIN minted \cup {t} |-> IF x = t THEN expires ELSE minted[x]]
    /\ UNCHANGED <<now, slots, revoked>>

\* Counted, then refused: too many, no itinerary, or too large a one.
CreateRefused ==
    /\ hits.count < Limit + 1
    /\ hits' = Hit
    /\ UNCHANGED <<rows, now, slots, minted, revoked>>

\* get, the key and the body are checked on the row that was read.
Look(s, t, op, progress) ==
    /\ slots[s] = Idle
    /\ Live(t)
    /\ slots' = [slots EXCEPT ![s] = [op |-> op, token |-> t, progress |-> progress, read |-> rows[t]]]
    /\ UNCHANGED <<rows, now, hits, minted, revoked>>

\* The mutated form writes back the row that was read, and so inserts one.
StorePut(s) ==
    rows' = [x \in DOMAIN rows \cup {slots[s].token} |->
               IF x = slots[s].token THEN [slots[s].read EXCEPT !.progress = slots[s].progress] ELSE rows[x]]
StorePatch(s) ==
    rows' = IF Live(slots[s].token)
            THEN [rows EXCEPT ![slots[s].token].progress = slots[s].progress] ELSE rows

\* Answered ok, whether a row was updated or not.
PatchShare(s) ==
    /\ slots[s].op = "patch"
    /\ StorePatch(s)
    /\ slots' = [slots EXCEPT ![s] = Idle]
    /\ UNCHANGED <<now, hits, minted, revoked>>

RevokeShare(s) ==
    /\ slots[s].op = "revoke"
    /\ rows' = [x \in DOMAIN rows \ {slots[s].token} |-> rows[x]]
    /\ revoked' = revoked \cup {slots[s].token}
    /\ slots' = [slots EXCEPT ![s] = Idle]
    /\ UNCHANGED <<now, hits, minted>>

\* The second statement fails, or the client is gone.
ShareFails(s) ==
    /\ slots[s] # Idle
    /\ slots' = [slots EXCEPT ![s] = Idle]
    /\ UNCHANGED <<rows, now, hits, minted, revoked>>

\* The maintenance loop.
DropExpired ==
    /\ \E t \in DOMAIN rows : ~Live(t)
    /\ rows' = [t \in {x \in DOMAIN rows : Live(x)} |-> rows[t]]
    /\ UNCHANGED <<now, hits, slots, minted, revoked>>

ShareTick ==
    /\ now < MaxTime
    /\ now' = now + 1
    /\ UNCHANGED <<rows, hits, slots, minted, revoked>>

ShareNext ==
    \/ \E t \in Tokens, w \in Wanted : CreateShare(t, w)
    \/ CreateRefused
    \/ \E s \in Slots, t \in Tokens, p \in Progress : Look(s, t, "patch", p)
    \/ \E s \in Slots, t \in Tokens : Look(s, t, "revoke", "none")
    \/ \E s \in Slots : PatchShare(s) \/ RevokeShare(s) \/ ShareFails(s)
    \/ DropExpired
    \/ ShareTick

ShareSpec == ShareInit /\ [][ShareNext]_share

(***************************************************************************)
(* A link that was revoked, or whose promised time has passed, shows       *)
(* nothing to anybody ever again, although updates that were let in before *)
(* may still be on their way (share.py:132, routers/share.py:132); and no  *)
(* link outlives the city's maximum.                                       *)
(***************************************************************************)
LinkDies ==
    \A t \in DOMAIN minted :
        /\ Live(t) => t \notin revoked /\ minted[t] > now
        /\ minted[t] <= now + MaxTtl
=============================================================================
