------------------------------ MODULE OidcSignIn ------------------------------
(***************************************************************************)
(* Sign-in with a provider (oidc.py, and oidc_start and oidc_callback of   *)
(* routers/admin.py), up to the identity it proves; what the identity may  *)
(* do is AdminAccounts.  A sign-in is known by its state; verifier and     *)
(* nonce go with it.  Cryptography is taken at its word: a token says      *)
(* which key of the provider signed it and for which sign-in.              *)
(***************************************************************************)
EXTENDS Integers, FiniteSets

CONSTANTS
    States,        \* the random states that may be minted
    Browsers, Providers,
    Callbacks,     \* callbacks that may be in progress at once
    StateTtl,      \* OIDC_STATE_TTL_SECONDS
    KeysTtl,       \* JWKS_TTL_S
    MinRefetch,    \* JWKS_MIN_REFETCH_S
    MaxKeys,       \* bound of the keys a provider ever signs with
    LastSecond     \* bound of the clock

ASSUME OidcAssumption ==
    /\ {StateTtl, KeysTtl, MinRefetch, MaxKeys} \subseteq Nat \ {0}
    /\ MinRefetch <= KeysTtl /\ LastSecond \in Nat

Never == -1000    \* an instant before any other

VARIABLES
    second,
    stored,       \* admin_oidc_state: state -> browser, provider, expires
    callbacks,    \* what each callback in progress took, and the token it got
    signing,      \* the number of keys the providers have published: the last one is in use
    rotated,      \* when it changed last
    jwks,         \* the cached key set: how many keys, and when it was fetched
    missAt,       \* when an unknown key was looked for last
    failedAt,     \* when that look failed last (history)
    proved,       \* state -> how many identities it proved (history)
    keptOut         \* the longest a rotated key has kept anybody out (history)

oidc == <<second, stored, callbacks, signing, rotated, jwks, missAt, failedAt, proved, keptOut>>
Unused == [stage |-> "free"]

OidcInit ==
    /\ second = 0 /\ stored = <<>>
    /\ callbacks = [c \in Callbacks |-> Unused]
    /\ signing = 1 /\ rotated = Never
    /\ jwks = [keys |-> 0, at |-> Never]
    /\ missAt = Never /\ failedAt = Never
    /\ proved = [s \in States |-> 0]
    /\ keptOut = 0

Holding(s) == {c \in Callbacks : callbacks[c] # Unused /\ callbacks[c].state = s}

\* States are random: one is minted again only once nothing is left of it.
Start(s, b, p) ==
    /\ s \notin DOMAIN stored /\ proved[s] = 0
    /\ Holding(s) = {}
    /\ stored' = [x \in DOMAIN stored \cup {s} |->
                    IF x = s THEN [browser |-> b, provider |-> p, expires |-> second + StateTtl] ELSE stored[x]]
    /\ UNCHANGED <<second, callbacks, signing, rotated, jwks, missAt, failedAt, proved, keptOut>>

\* DELETE ... RETURNING; the mutated form only reads.
ReadState(s) == UNCHANGED stored /\ s \in States
TakeState(s) == stored' = [x \in DOMAIN stored \ {s} |-> stored[x]]

\* The state is spent whatever is then found wrong with it.
Take(c, s, b, p) ==
    /\ callbacks[c] = Unused
    /\ s \in DOMAIN stored
    /\ TakeState(s)
    /\ callbacks' = IF /\ stored[s].expires > second
                       /\ stored[s].provider = p
                       /\ stored[s].browser = b
                    THEN [callbacks EXCEPT ![c] = [stage |-> "exchange", state |-> s]]
                    ELSE callbacks
    /\ UNCHANGED <<second, signing, rotated, jwks, missAt, failedAt, proved, keptOut>>

\* The provider answers the code with a token, for this sign-in or for another,
\* signed with its key or with one it is about to publish.
Exchange(c, mine, kid) ==
    /\ callbacks[c].stage = "exchange"
    /\ callbacks' = [callbacks EXCEPT ![c] = [stage |-> "verify", state |-> @.state, mine |-> mine, kid |-> kid]]
    /\ UNCHANGED <<second, stored, signing, rotated, jwks, missAt, failedAt, proved, keptOut>>

\* The exchange or the discovery fails, or no token comes.
GiveUp(c) ==
    /\ callbacks[c].stage \in {"exchange", "verify"}
    /\ callbacks' = [callbacks EXCEPT ![c] = Unused]
    /\ UNCHANGED <<second, stored, signing, rotated, jwks, missAt, failedAt, proved, keptOut>>

OldKeys == second - jwks.at >= KeysTtl
\* An unknown key is looked for at once, and then not again for MinRefetch.
LooksAgain(kid) == kid > jwks.keys /\ second - missAt >= MinRefetch

\* The keys are fetched when old or missed; a token of an unknown key is refused.
Verify(c) ==
    LET t       == callbacks[c]
        looks   == ~OldKeys /\ LooksAgain(t.kid)
        fetched == OldKeys \/ looks
    IN  /\ t.stage = "verify"
        /\ jwks' = IF fetched THEN [keys |-> signing, at |-> second] ELSE jwks
        /\ missAt' = IF looks THEN second ELSE missAt
        /\ proved' = IF t.mine /\ t.kid <= jwks'.keys THEN [proved EXCEPT ![t.state] = @ + 1] ELSE proved
        /\ keptOut' = IF t.mine /\ t.kid > jwks'.keys /\ t.kid <= signing
                    THEN LET since == second - (IF failedAt > rotated THEN failedAt ELSE rotated)
                         IN  IF since > keptOut THEN since ELSE keptOut
                    ELSE keptOut
        /\ callbacks' = [callbacks EXCEPT ![c] = Unused]
        /\ UNCHANGED <<second, stored, signing, rotated, failedAt>>

\* The look is remembered before the fetch, which fails.
VerifyWithoutKeys(c) ==
    /\ callbacks[c].stage = "verify"
    /\ OldKeys \/ LooksAgain(callbacks[c].kid)
    /\ missAt' = IF OldKeys THEN missAt ELSE second
    /\ failedAt' = IF OldKeys THEN failedAt ELSE second
    /\ callbacks' = [callbacks EXCEPT ![c] = Unused]
    /\ UNCHANGED <<second, stored, signing, rotated, jwks, proved, keptOut>>

Rotate ==
    /\ signing < MaxKeys
    /\ signing' = signing + 1 /\ rotated' = second
    /\ UNCHANGED <<second, stored, callbacks, jwks, missAt, failedAt, proved, keptOut>>

DropExpiredStates ==
    /\ \E s \in DOMAIN stored : stored[s].expires <= second
    /\ stored' = [s \in {x \in DOMAIN stored : stored[x].expires > second} |-> stored[s]]
    /\ UNCHANGED <<second, callbacks, signing, rotated, jwks, missAt, failedAt, proved, keptOut>>

OidcTick ==
    /\ second < LastSecond
    /\ second' = second + 1
    /\ UNCHANGED <<stored, callbacks, signing, rotated, jwks, missAt, failedAt, proved, keptOut>>

OidcNext ==
    \/ \E s \in States, b \in Browsers, p \in Providers : Start(s, b, p)
    \/ \E c \in Callbacks, s \in States, b \in Browsers, p \in Providers : Take(c, s, b, p)
    \/ \E c \in Callbacks, mine \in BOOLEAN, kid \in {signing, signing + 1} : Exchange(c, mine, kid)
    \/ \E c \in Callbacks : GiveUp(c) \/ Verify(c) \/ VerifyWithoutKeys(c)
    \/ Rotate \/ DropExpiredStates \/ OidcTick

OidcSpec == OidcInit /\ [][OidcNext]_oidc

(***************************************************************************)
(* However callbacks race with the same state, one sign-in proves one      *)
(* identity (oidc.py:193), and none is in two hands at once.               *)
(***************************************************************************)
SignInOnce ==
    \A s \in States :
        /\ proved[s] + Cardinality(Holding(s)) <= 1
        /\ s \in DOMAIN stored => proved[s] = 0

(***************************************************************************)
(* A provider that changes its key keeps nobody out for longer than        *)
(* MinRefetch after the change, or after the last look for a key that      *)
(* failed, however old the cached keys may be allowed to grow              *)
(* (oidc.py:323).                                                          *)
(***************************************************************************)
RotationHeals == keptOut < MinRefetch

\* A sign-in happens once, and none is refused for long that should happen.
SignInSound == SignInOnce /\ RotationHeals
=============================================================================
