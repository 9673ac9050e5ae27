-------------------------- MODULE Services_proofs ---------------------------
(***************************************************************************)
(* What the services beside the riders' endpoints promise, for every value *)
(* of their constants: the alerts to the operators, the shared trips, the  *)
(* secrets of the settings, the assistant and the cache of addresses.      *)
(***************************************************************************)
EXTENDS OpsAlert, ShareLinks, SecretSettings, AssistantBudget, GeocodeCache,
        FiniteSetTheorems, SequenceTheorems, TLAPS

-----------------------------------------------------------------------------
(***************************************************************************)
(* The operators' alerts. The row of ops_alert_sent is a lock, and what is *)
(* told is told once.                                                      *)
(***************************************************************************)
Functional ==
    /\ pc \in [Workers -> Busy \cup {"idle"}]
    /\ DOMAIN todo = Workers

\* A key somebody is about to send, or to give back, is in the table and has
\* not been accepted: that is what makes accepting it safe.
HeldIsClaimed == \A w \in Workers : Holds(w) => Head(todo[w]) \in keys \ told

LockInv == Functional /\ HeldIsClaimed /\ ClaimExcludes /\ ToldOnce

LEMMA LockInit == Init => LockInv
  BY DEF Init, LockInv, Functional, HeldIsClaimed, ClaimExcludes, ToldOnce, Holds, Busy

\* A step of worker w that leaves the table and the log alone and w without a
\* key leaves the lock as it was.
LEMMA Release ==
  ASSUME LockInv, NEW w \in Workers,
         \E T, l : /\ l \in {"idle", "claim"}
                   /\ todo' = [todo EXCEPT ![w] = T]
                   /\ pc' = [pc EXCEPT ![w] = l],
         UNCHANGED <<keys, told, twice>>
  PROVE  LockInv'
<1>1. /\ Functional'
      /\ ~Holds(w)'
      /\ \A o \in Workers \ {w} : Holds(o)' = Holds(o) /\ todo'[o] = todo[o]
  BY DEF LockInv, Functional, Holds, Busy
<1>2. HeldIsClaimed' /\ ClaimExcludes' /\ ToldOnce'
  BY <1>1 DEF LockInv, HeldIsClaimed, ClaimExcludes, ToldOnce
<1> QED BY <1>1, <1>2 DEF LockInv

\* Advancing leaves w without a key.
LEMMA AdvanceReleases ==
  ASSUME LockInv, NEW w \in Workers, Advance(w)
  PROVE  /\ Functional'
         /\ ~Holds(w)'
         /\ \A o \in Workers \ {w} : Holds(o)' = Holds(o) /\ todo'[o] = todo[o]
  BY DEF LockInv, Functional, Holds, Busy, Advance

LEMMA LockStep == LockInv /\ [Next]_vars => LockInv'
<1> SUFFICES ASSUME LockInv, [Next]_vars PROVE LockInv'
  OBVIOUS
<1>1. CASE UNCHANGED <<pc, todo, keys, told, twice>>
  BY <1>1 DEF LockInv, Functional, HeldIsClaimed, ClaimExcludes, ToldOnce, Holds
<1>2. CASE Publish \/ Rebuild \/ AdminIngest \/ UNCHANGED vars
  BY <1>1, <1>2 DEF Publish, Rebuild, AdminIngest, vars, callVars, logVars
<1>3. ASSUME NEW w \in Workers, StaticPass(w) PROVE LockInv'
  <2>1. \E T, l : /\ l \in {"idle", "claim"}
                  /\ todo' = [todo EXCEPT ![w] = T]
                  /\ pc' = [pc EXCEPT ![w] = l]
    BY <1>3 DEF StaticPass
  <2>2. UNCHANGED <<keys, told, twice>>
    BY <1>3 DEF StaticPass, logVars
  <2> QED BY <2>1, <2>2, Release
<1>4. ASSUME NEW w \in Workers, QueryFails(w) \/ Crash(w) PROVE LockInv'
  BY <1>4, Release DEF QueryFails, Crash, logVars
<1>5. ASSUME NEW w \in Workers, Claim(w) PROVE LockInv'
  <2> DEFINE key == Head(todo[w])
  <2>0. pc[w] = "claim" /\ keys' = keys \cup {key} /\ UNCHANGED <<told, twice>>
    BY <1>5 DEF Claim, logVars
  <2>1. CASE key \in keys
    <3>1. Advance(w) /\ keys' = keys
      BY <1>5, <2>0, <2>1 DEF Claim, Inserted
    <3> QED BY <2>0, <3>1, AdvanceReleases
            DEF LockInv, HeldIsClaimed, ClaimExcludes, ToldOnce
  <2>2. CASE key \notin keys
    <3>1. pc' = [pc EXCEPT ![w] = "send"] /\ todo' = todo
      BY <1>5, <2>2 DEF Claim, Inserted
    <3>2. \A o \in Workers \ {w} : Holds(o)' = Holds(o)
      BY <3>1 DEF LockInv, Functional, Holds, Busy
    <3>3. \A o \in Workers : Holds(o) => Head(todo[o]) # key
      BY <2>2 DEF LockInv, HeldIsClaimed
    <3>4. key \notin told
      BY <2>2 DEF LockInv, ClaimExcludes
    <3>5. Functional'
      BY <3>1 DEF LockInv, Functional, Busy
    <3>6. HeldIsClaimed'
      BY <2>0, <3>1, <3>2, <3>4 DEF LockInv, HeldIsClaimed
    <3>7. ClaimExcludes'
      BY <2>0, <3>1, <3>2, <3>3 DEF LockInv, ClaimExcludes
    <3> QED BY <2>0, <3>5, <3>6, <3>7 DEF LockInv, ToldOnce
  <2> QED BY <2>1, <2>2
<1>6. ASSUME NEW w \in Workers, Deliver(w) PROVE LockInv'
  <2> DEFINE key == Head(todo[w])
  <2>1. Holds(w) /\ key \in keys /\ key \notin told
    BY <1>6 DEF Deliver, Holds, LockInv, HeldIsClaimed
  <2>2. told' = told \cup {key} /\ twice' = twice /\ keys' = keys /\ Advance(w)
    BY <1>6, <2>1 DEF Deliver
  <2>3. \A o \in Workers \ {w} : Holds(o) => Head(todo[o]) # key
    BY <2>1 DEF LockInv, ClaimExcludes
  <2> QED BY <2>1, <2>2, <2>3, AdvanceReleases
          DEF LockInv, HeldIsClaimed, ClaimExcludes, ToldOnce
<1>7. ASSUME NEW w \in Workers, Refuse(w) PROVE LockInv'
  <2>1. /\ pc[w] = "send" /\ pc' = [pc EXCEPT ![w] = "unclaim"]
        /\ UNCHANGED <<todo, keys, told, twice>>
    BY <1>7 DEF Refuse, logVars
  <2>2. Functional' /\ \A o \in Workers : Holds(o)' = Holds(o)
    BY <2>1 DEF LockInv, Functional, Holds, Busy
  <2> QED BY <2>1, <2>2 DEF LockInv, HeldIsClaimed, ClaimExcludes, ToldOnce
<1>8. ASSUME NEW w \in Workers, Unclaim(w) PROVE LockInv'
  <2> DEFINE key == Head(todo[w])
  <2>1. Holds(w) /\ key \notin told
    BY <1>8 DEF Unclaim, Holds, LockInv, HeldIsClaimed
  <2>2. keys' = keys \ {key} /\ Advance(w) /\ UNCHANGED <<told, twice>>
    BY <1>8 DEF Unclaim, logVars
  <2>3. \A o \in Workers \ {w} : Holds(o) => Head(todo[o]) # key
    BY <2>1 DEF LockInv, ClaimExcludes
  <2> QED BY <2>1, <2>2, <2>3, AdvanceReleases
          DEF LockInv, HeldIsClaimed, ClaimExcludes, ToldOnce
<1> QED BY <1>2, <1>3, <1>4, <1>5, <1>6, <1>7, <1>8 DEF Next, Says

\* No channel accepts a message for the same key twice, whatever is refused,
\* raises or stops, in any number of processes (ToldOnce), because a key is
\* held by one worker at a time and is never given back once accepted
\* (ClaimExcludes).
THEOREM LockCorrect == Spec => [](ToldOnce /\ ClaimExcludes)
<1>1. LockInv => ToldOnce /\ ClaimExcludes
  BY DEF LockInv
<1> QED BY <1>1, LockInit, LockStep, PTL DEF Spec


-----------------------------------------------------------------------------
(***************************************************************************)
(* Shared trips. A link that was revoked or has expired shows nothing      *)
(* again, whatever requests are still on their way to it.                  *)
(***************************************************************************)

Row == [progress : Progress \cup {"none"}, expires : Int]

\* What is stored was minted, expires when it was promised to, and was not
\* revoked; a request that will revoke a token has found it.
RowsSound ==
    /\ DOMAIN rows \subseteq DOMAIN minted
    /\ \A t \in DOMAIN rows : /\ rows[t] \in Row /\ rows[t].expires = minted[t]
                              /\ t \notin revoked
    /\ revoked \subseteq DOMAIN minted
SlotsSound ==
    /\ DOMAIN slots = Slots
    /\ \A s \in Slots : slots[s] # Idle =>
          slots[s].token \in DOMAIN minted /\ slots[s].progress \in Progress \cup {"none"}
ShareInv ==
    /\ now \in Nat /\ RowsSound /\ SlotsSound
    /\ \A t \in DOMAIN minted : minted[t] \in Int /\ minted[t] <= now + MaxTtl

LEMMA ShareInitial == ShareInit => ShareInv
  BY DEF ShareInit, ShareInv, RowsSound, SlotsSound

\* A time to live asked for is cut to the city's maximum.
LEMMA ExpiryBound ==
    ASSUME now \in Nat, NEW w \in Wanted
    PROVE  Expiry(w) \in Int /\ Expiry(w) <= now + MaxTtl
  BY ShareAssumption DEF Expiry

LEMMA ShareStep == ShareInv /\ [ShareNext]_share => ShareInv'
<1> SUFFICES ASSUME ShareInv, [ShareNext]_share PROVE ShareInv'
  OBVIOUS
<1> USE DEF ShareInv, RowsSound, SlotsSound
<1>1. CASE UNCHANGED share
  BY <1>1 DEF share
<1>2. ASSUME NEW t \in Tokens, NEW w \in Wanted, CreateShare(t, w) PROVE ShareInv'
  <2> DEFINE expires == Expiry(w)
  <2>1. expires \in Int /\ expires <= now + MaxTtl
    BY ExpiryBound
  <2>2. /\ t \notin DOMAIN minted
        /\ rows' = [x \in DOMAIN rows \cup {t} |->
                      IF x = t THEN [progress |-> "none", expires |-> expires] ELSE rows[x]]
        /\ minted' = [x \in DOMAIN minted \cup {t} |-> IF x = t THEN expires ELSE minted[x]]
        /\ UNCHANGED <<now, slots, revoked>>
    BY <1>2 DEF CreateShare
  <2> HIDE DEF expires
  <2>3. SlotsSound' /\ now' \in Nat
    BY <2>2
  <2>4. RowsSound'
    BY <2>1, <2>2 DEF Row
  <2> QED BY <2>1, <2>2, <2>3, <2>4
<1>3. CASE CreateRefused
  BY <1>3 DEF CreateRefused
<1>4. ASSUME NEW s \in Slots, NEW t \in Tokens, NEW op \in {"patch", "revoke"},
             NEW p \in Progress \cup {"none"}, Look(s, t, op, p)
      PROVE  ShareInv'
  <2>1. t \in DOMAIN minted
    BY <1>4 DEF Look, Live
  <2>2. slots' = [slots EXCEPT ![s] = [op |-> op, token |-> t, progress |-> p, read |-> rows[t]]]
    BY <1>4 DEF Look
  <2> QED BY <1>4, <2>1, <2>2 DEF Look
<1>5. ASSUME NEW s \in Slots, PatchShare(s) PROVE ShareInv'
  <2>1. slots[s] # Idle
    BY <1>5 DEF PatchShare, Idle
  <2>2. \/ UNCHANGED rows
        \/ rows' = [rows EXCEPT ![slots[s].token].progress = slots[s].progress]
    BY <1>5 DEF PatchShare, StorePatch
  <2>3. /\ DOMAIN rows' = DOMAIN rows
        /\ \A t \in DOMAIN rows : rows'[t] \in Row /\ rows'[t].expires = rows[t].expires
    BY <2>1, <2>2 DEF Row
  <2>4. slots' = [slots EXCEPT ![s] = Idle] /\ UNCHANGED <<now, minted, revoked>>
    BY <1>5 DEF PatchShare
  <2> QED BY <2>3, <2>4
<1>6. ASSUME NEW s \in Slots, RevokeShare(s) PROVE ShareInv'
  <2>1. slots[s].token \in DOMAIN minted
    BY <1>6 DEF RevokeShare, Idle
  <2>2. /\ rows' = [x \in DOMAIN rows \ {slots[s].token} |-> rows[x]]
        /\ revoked' = revoked \cup {slots[s].token}
        /\ slots' = [slots EXCEPT ![s] = Idle] /\ UNCHANGED <<now, minted>>
    BY <1>6 DEF RevokeShare
  <2> QED BY <2>1, <2>2
<1>7. ASSUME NEW s \in Slots, ShareFails(s) PROVE ShareInv'
  BY <1>7 DEF ShareFails
<1>8. CASE DropExpired
  <2>1. /\ rows' = [t \in {x \in DOMAIN rows : Live(x)} |-> rows[t]]
        /\ UNCHANGED <<now, slots, minted, revoked>>
    BY <1>8 DEF DropExpired
  <2> QED BY <2>1
<1>9. CASE ShareTick
  BY <1>9, ShareAssumption DEF ShareTick
<1> QED BY <1>1, <1>2, <1>3, <1>4, <1>5, <1>6, <1>7, <1>8, <1>9 DEF ShareNext

\* However updates, revocations, expiries and the purge interleave between the
\* read of a share and its UPDATE (routers/share.py:132), a link that was revoked or has
\* expired is dead, and none is promised for longer than the city allows.
THEOREM LinkDiesCorrect == ShareSpec => []LinkDies
<1>1. ShareInv => LinkDies
  BY DEF ShareInv, RowsSound, LinkDies, Live
<1> QED BY <1>1, ShareInitial, ShareStep, PTL DEF ShareSpec


-----------------------------------------------------------------------------
(***************************************************************************)
(* The secrets of the settings. What each of the three kinds of secret is  *)
(* made of, and that every save keeps it so.                               *)
(***************************************************************************)

Envs   == {Env(n) : n \in Nat}
Typeds == {Typed(n) : n \in Nat}
Signs  == {Blank, Mask, Unset, NoKeys, Null, Omit, Gone}

LEMMA SignsApart ==
    /\ Blank # Mask /\ Blank # Unset /\ Blank # NoKeys /\ Blank # Null /\ Blank # Omit /\ Blank # Gone
    /\ Mask # Unset /\ Mask # NoKeys /\ Mask # Null /\ Mask # Omit /\ Mask # Gone
    /\ Unset # NoKeys /\ Unset # Null /\ Unset # Omit /\ Unset # Gone
    /\ NoKeys # Null /\ NoKeys # Omit /\ NoKeys # Gone
    /\ Null # Omit /\ Null # Gone /\ Omit # Gone /\ Fallback # Mask
  BY DEF Blank, Mask, Unset, NoKeys, Null, Omit, Gone, Fallback

LEMMA SecretsApart ==
    /\ \A e \in Envs : e \notin Signs /\ e \notin Typeds /\ e[1] = "env"
    /\ \A t \in Typeds : t \notin Signs /\ t[1] = "typed"
  <1>1. \A e \in Envs : e[1] = "env" BY DEF Envs, Env
  <1>2. \A t \in Typeds : t[1] = "typed" BY DEF Typeds, Typed
  <1>3. \A s \in Signs : s[1] # "env" /\ s[1] # "typed"
    <2>1. /\ Blank[1] = "blank" /\ Mask[1] = "mask" /\ Unset[1] = "unset" /\ NoKeys[1] = "no assistant section"
          /\ Null[1] = "null" /\ Omit[1] = "omit" /\ Gone[1] = "gone"
      BY DEF Blank, Mask, Unset, NoKeys, Null, Omit, Gone
    <2> QED BY <2>1 DEF Signs
  <1> QED BY <1>1, <1>2, <1>3

SecretTyped ==
    /\ env \in Envs /\ typedIn \in Nat
    /\ DOMAIN override = {"rides", "kerb", "key"} /\ DOMAIN meant = {"rides", "kerb", "key"}
    /\ override.kerb \in {Unset} \cup Envs \cup Typeds
    /\ override.key \in {Unset, NoKeys, Null} \cup Typeds
    /\ meant.kerb \in Envs \cup Typeds /\ meant.key \in {Unset} \cup Typeds
    /\ \A q \in DOMAIN meant.rides : meant.rides[q] \in {Blank} \cup Envs \cup Typeds
    /\ DOMAIN panels = Editors
    /\ \A a \in Editors : \A q \in DOMAIN panels[a] : panels[a][q] \in {Blank, Mask}
RidesKept == EffectiveRides(override, env) = meant.rides
KerbKept  == EffectiveKerb(override, env) = meant.kerb
KeyKept   == override.key = Null \/ EffectiveKey(override, env) = IF meant.key = Unset THEN env ELSE meant.key
SecretInv == SecretTyped /\ RidesKept /\ KerbKept /\ KeyKept

LEMMA FreshTyped == ASSUME SecretTyped, NEW sent, Uses(sent)
                    PROVE  Fresh \subseteq Typeds /\ typedIn' \in Nat
  BY DEF SecretTyped, Fresh, Typeds, Uses

LEMMA SecretFirst == SecretInit => SecretInv
  <1> SUFFICES ASSUME SecretInit PROVE SecretInv OBVIOUS
  <1> USE DEF SecretInit
  <1>1. Env(0) \in Envs BY DEF Envs
  <1>2. SecretTyped BY <1>1 DEF SecretTyped
  <1>3. RidesKept BY DEF RidesKept, EffectiveRides
  <1>4. KerbKept BY DEF KerbKept, EffectiveKerb
  <1>5. KeyKept BY DEF KeyKept, EffectiveKey
  <1> QED BY <1>2, <1>3, <1>4, <1>5 DEF SecretInv

LEMMA OpenPanelKeeps == ASSUME SecretInv, NEW a \in Editors, OpenPanel(a) PROVE SecretInv'
  <1> USE DEF SecretInv
  <1>1. UNCHANGED <<env, override, typedIn, meant>> /\ panels' = [panels EXCEPT ![a] = ShownMasks] BY DEF OpenPanel
  <1>2. \A q \in DOMAIN ShownMasks : ShownMasks[q] \in {Blank, Mask} BY DEF ShownMasks, Masked
  <1>3. SecretTyped' BY <1>1, <1>2 DEF SecretTyped
  <1> QED BY <1>1, <1>3 DEF RidesKept, KerbKept, KeyKept, EffectiveRides, EffectiveKerb, EffectiveKey

LEMMA PutRidesKeeps == ASSUME SecretInv, NEW a \in Editors, PutRides(a) PROVE SecretInv'
  <1> USE DEF SecretInv
  <1> DEFINE known == EffectiveRides(override, env)
             Stored(q) == IF q \in DOMAIN known THEN known[q] ELSE Blank
  <1>1. PICK p \in RideIds, sent \in {Omit, Null, Gone, Mask} \cup Fresh :
          LET ids == IF sent = Gone THEN DOMAIN panels[a] \ {p} ELSE DOMAIN panels[a] \cup {p}
              Sent(q) == IF q = p THEN sent ELSE panels[a][q]
          IN  /\ override' = [override EXCEPT !.rides = <<[q \in ids |-> CredentialRule(Sent(q), Stored(q))]>>]
              /\ meant' = [meant EXCEPT !.rides =
                   [q \in ids |-> IF Sent(q) \in Fresh THEN Sent(q)
                                  ELSE IF Sent(q) \in {Null, Blank} \/ q \notin DOMAIN meant.rides THEN Blank
                                  ELSE meant.rides[q]]]
              /\ Uses(sent)
              /\ UNCHANGED <<env, panels>>
    BY DEF PutRides
  <1> DEFINE ids == IF sent = Gone THEN DOMAIN panels[a] \ {p} ELSE DOMAIN panels[a] \cup {p}
             Sent(q) == IF q = p THEN sent ELSE panels[a][q]
             Kept(q) == CredentialRule(Sent(q), Stored(q))
             Meant(q) == IF Sent(q) \in Fresh THEN Sent(q)
                         ELSE IF Sent(q) \in {Null, Blank} \/ q \notin DOMAIN meant.rides THEN Blank
                         ELSE meant.rides[q]
  <1>2. Fresh \subseteq Typeds /\ typedIn' \in Nat BY <1>1, FreshTyped
  <1>3. ASSUME NEW q \in ids PROVE Kept(q) = Meant(q) /\ Meant(q) \in {Blank} \cup Envs \cup Typeds
    <2>1. Stored(q) = IF q \in DOMAIN meant.rides THEN meant.rides[q] ELSE Blank BY DEF RidesKept
    <2>2. Sent(q) \in {Omit, Null, Mask} \cup Fresh \/ Sent(q) \in {Blank, Mask}
      <3>1. CASE q = p BY <1>3, <3>1
      <3>2. CASE q # p BY <1>3, <3>2 DEF SecretTyped
      <3> QED BY <3>1, <3>2
    <2>3. Fresh \cap Signs = {} BY <1>2, SecretsApart
    <2>4. Meant(q) \in {Blank} \cup Envs \cup Typeds BY <1>2 DEF SecretTyped
    <2>5. ASSUME Sent(q) \in Fresh PROVE Kept(q) = Meant(q)
      BY <2>3, <2>5, SignsApart DEF CredentialRule, Signs
    <2>6. ASSUME Sent(q) \in {Omit, Null, Mask, Blank} PROVE Kept(q) = Meant(q)
      <3>1. Sent(q) \notin Fresh BY <2>3, <2>6 DEF Signs
      <3>2. Kept(q) = IF Sent(q) \in {Null, Blank} THEN Blank ELSE Stored(q)
        BY <2>6, SignsApart DEF CredentialRule
      <3> QED BY <2>1, <3>1, <3>2
    <2> QED BY <2>2, <2>4, <2>5, <2>6
  <1> HIDE DEF Kept, Meant, ids, Sent, Stored
  <1>4. override' = [override EXCEPT !.rides = <<[q \in ids |-> Kept(q)]>>]
        /\ meant' = [meant EXCEPT !.rides = [q \in ids |-> Meant(q)]]
    BY <1>1 DEF Kept, Meant, ids, Sent, Stored
  <1>5. UNCHANGED <<env, panels>> BY <1>1
  <1>6. override'.rides = <<[q \in ids |-> Kept(q)]>> /\ meant'.rides = [q \in ids |-> Meant(q)]
    BY <1>4 DEF SecretTyped
  <1>7. /\ UNCHANGED <<override.kerb, override.key, meant.kerb, meant.key>>
        /\ DOMAIN override' = {"rides", "kerb", "key"} /\ DOMAIN meant' = {"rides", "kerb", "key"}
    BY <1>4 DEF SecretTyped
  <1>8. RidesKept' BY <1>3, <1>6 DEF RidesKept, EffectiveRides, NoList
  <1>9. SecretTyped' BY <1>2, <1>3, <1>5, <1>6, <1>7 DEF SecretTyped
  <1> QED BY <1>5, <1>7, <1>8, <1>9 DEF KerbKept, KeyKept, EffectiveKerb, EffectiveKey

LEMMA PutKerbKeeps == ASSUME SecretInv, PutKerb PROVE SecretInv'
  <1> USE DEF SecretInv
  <1>1. PICK sent \in {Omit, Null, Mask} \cup Fresh :
          LET kept == CredentialRule(sent, EffectiveKerb(override, env))
          IN  /\ override' = IF kept = Blank THEN override ELSE [override EXCEPT !.kerb = kept]
              /\ meant' = IF sent \in Fresh THEN [meant EXCEPT !.kerb = sent] ELSE meant
              /\ Uses(sent)
              /\ UNCHANGED <<env, panels>>
    BY DEF PutKerb
  <1>2. Fresh \subseteq Typeds /\ typedIn' \in Nat BY <1>1, FreshTyped
  <1>3. Fresh \cap Signs = {} BY <1>2, SecretsApart
  <1>4. /\ UNCHANGED <<override.rides, override.key, meant.rides, meant.key, env, panels>>
        /\ DOMAIN override' = {"rides", "kerb", "key"} /\ DOMAIN meant' = {"rides", "kerb", "key"}
    BY <1>1 DEF SecretTyped
  <1>5. meant.kerb \notin Signs /\ meant.kerb = EffectiveKerb(override, env)
    BY SecretsApart DEF SecretTyped, KerbKept
  <1>6. \/ sent \in Fresh /\ override'.kerb = sent /\ meant'.kerb = sent
        \/ override'.kerb = meant.kerb /\ meant'.kerb = meant.kerb
        \/ override'.kerb = override.kerb /\ meant'.kerb = meant.kerb
    <2>1. CASE sent \in Fresh
      <3>1. CredentialRule(sent, EffectiveKerb(override, env)) = sent /\ sent # Blank
        BY <1>3, <2>1 DEF CredentialRule, Signs
      <3> QED BY <1>1, <2>1, <3>1 DEF SecretTyped
    <2>2. CASE sent \in {Omit, Mask}
      <3>1. CredentialRule(sent, EffectiveKerb(override, env)) = meant.kerb /\ meant.kerb # Blank /\ sent \notin Fresh
        BY <1>3, <1>5, <2>2, SignsApart DEF CredentialRule, Signs
      <3> QED BY <1>1, <3>1 DEF SecretTyped
    <2>3. CASE sent = Null
      <3>1. CredentialRule(sent, EffectiveKerb(override, env)) = Blank /\ sent \notin Fresh
        BY <1>3, <2>3, SignsApart DEF CredentialRule, Signs
      <3> QED BY <1>1, <3>1
    <2> QED BY <2>1, <2>2, <2>3
  <1>7. SecretTyped' BY <1>2, <1>4, <1>6 DEF SecretTyped
  <1>8. KerbKept'
    <2>1. Unset \notin Fresh /\ meant.kerb # Unset BY <1>3, <1>5 DEF Signs
    <2> QED BY <1>4, <1>6, <2>1 DEF KerbKept, EffectiveKerb
  <1> QED BY <1>4, <1>7, <1>8 DEF RidesKept, KeyKept, EffectiveRides, EffectiveKey

LEMMA PutKeyKeeps == ASSUME SecretInv, PutKey PROVE SecretInv'
  <1> USE DEF SecretInv
  <1>1. PICK sent \in {Omit, Null, Mask} \cup Fresh :
          /\ override' = [override EXCEPT !.key = MergeKey(IF sent = Mask THEN UnmaskKey ELSE sent)]
          /\ meant' = [meant EXCEPT !.key = IF sent \in Fresh THEN sent
                                            ELSE IF sent = Null THEN Unset ELSE meant.key]
          /\ Uses(sent)
          /\ UNCHANGED <<env, panels>>
    BY DEF PutKey
  <1>2. Fresh \subseteq Typeds /\ typedIn' \in Nat BY <1>1, FreshTyped
  <1>3. Fresh \cap Signs = {} BY <1>2, SecretsApart
  <1>4. /\ UNCHANGED <<override.rides, override.kerb, meant.rides, meant.kerb, env, panels>>
        /\ DOMAIN override' = {"rides", "kerb", "key"} /\ DOMAIN meant' = {"rides", "kerb", "key"}
    BY <1>1 DEF SecretTyped
  <1>5. /\ override'.key = MergeKey(IF sent = Mask THEN UnmaskKey ELSE sent)
        /\ meant'.key = IF sent \in Fresh THEN sent ELSE IF sent = Null THEN Unset ELSE meant.key
    BY <1>1 DEF SecretTyped
  <1> DEFINE Left == IF override.key = NoKeys THEN Unset ELSE override.key
  <1>6. override.key \in Typeds => override.key \notin Signs \cup Envs
    BY SecretsApart
  <1>7. \/ sent \in Fresh /\ override'.key = sent /\ meant'.key = sent
        \/ override'.key = Left /\ meant'.key = meant.key
        \/ override'.key = Null /\ meant'.key = Unset
        \/ override'.key = Unset /\ meant'.key = Unset
    <2>1. CASE sent \in Fresh
      <3>1. sent \notin {Mask, Omit, Null} BY <1>3, <2>1 DEF Signs
      <3> QED BY <1>5, <2>1, <3>1 DEF MergeKey
    <2>2. CASE sent = Omit
      <3>1. sent \notin Fresh /\ sent # Mask /\ sent # Null BY <1>3, <2>2, SignsApart DEF Signs
      <3> QED BY <1>5, <2>2, <3>1 DEF MergeKey
    <2>3. CASE sent = Null
      <3>1. sent \notin Fresh /\ sent # Mask /\ sent # Omit BY <1>3, <2>3, SignsApart DEF Signs
      <3> QED BY <1>5, <2>3, <3>1 DEF MergeKey
    <2>4. CASE sent = Mask
      <3>1. sent \notin Fresh /\ sent # Null BY <1>3, <2>4, SignsApart DEF Signs
      <3>2. override'.key = MergeKey(UnmaskKey) /\ meant'.key = meant.key BY <1>5, <2>4, <3>1
      <3>3. CASE UnmaskKey = Omit BY <3>2, <3>3, SignsApart DEF MergeKey
      <3>4. CASE UnmaskKey # Omit
        <4>1. UnmaskKey = EffectiveKey(override, env) /\ UnmaskKey \notin {Blank, env}
          BY <3>4 DEF UnmaskKey
        <4>2. override.key \in Typeds /\ UnmaskKey = override.key
          BY <4>1 DEF EffectiveKey, SecretTyped
        <4>3. UnmaskKey # Null /\ override.key # NoKeys BY <1>6, <4>2 DEF Signs
        <4> QED BY <3>2, <3>4, <4>2, <4>3 DEF MergeKey
      <3> QED BY <3>3, <3>4
    <2> QED BY <2>1, <2>2, <2>3, <2>4
  <1>8. SecretTyped' BY <1>2, <1>4, <1>7 DEF SecretTyped
  <1>9. KeyKept'
    <2>1. sent \in Fresh => sent \notin {Unset, NoKeys, Null} BY <1>3 DEF Signs
    <2>2. CASE override'.key = Left /\ meant'.key = meant.key
      BY <1>4, <2>2, SignsApart DEF KeyKept, EffectiveKey
    <2> QED BY <1>4, <1>7, <2>1, <2>2, SignsApart DEF KeyKept, EffectiveKey
  <1> QED BY <1>4, <1>8, <1>9 DEF RidesKept, KerbKept, EffectiveRides, EffectiveKerb

LEMMA ResetAllKeeps == ASSUME SecretInv, ResetAll PROVE SecretInv'
  <1> USE DEF SecretInv, ResetAll
  <1>1. SecretTyped' BY DEF SecretTyped
  <1>2. RidesKept' BY DEF RidesKept, EffectiveRides
  <1>3. KerbKept' BY DEF KerbKept, EffectiveKerb
  <1>4. KeyKept' BY DEF KeyKept, EffectiveKey
  <1> QED BY <1>1, <1>2, <1>3, <1>4

LEMMA NewEnvironmentKeeps == ASSUME SecretInv, NewEnvironment PROVE SecretInv'
  <1> USE DEF SecretInv
  <1>1. UNCHANGED <<override, panels, typedIn>> BY DEF NewEnvironment
  <1>2. env' \in Envs
    <2>1. PICK n \in Nat : env = Env(n) BY DEF SecretTyped, Envs
    <2>2. env' = Env(n + 1) BY <2>1 DEF NewEnvironment, Env
    <2> QED BY <2>2 DEF Envs
  <1>3. /\ meant'.rides = (IF override.rides = NoList THEN [p \in YamlIds |-> env'] ELSE meant.rides)
        /\ meant'.kerb = (IF override.kerb = Unset THEN env' ELSE meant.kerb)
        /\ meant'.key = meant.key /\ DOMAIN meant' = {"rides", "kerb", "key"}
    BY DEF NewEnvironment, SecretTyped
  <1>4. SecretTyped' BY <1>1, <1>2, <1>3 DEF SecretTyped
  <1>5. RidesKept' BY <1>1, <1>3 DEF RidesKept, EffectiveRides
  <1>6. KerbKept' BY <1>1, <1>3 DEF KerbKept, EffectiveKerb
  <1>7. KeyKept'
    <2>1. CASE override.key \in {Unset, NoKeys}
      <3>1. meant.key = Unset
        BY <2>1, SecretsApart, SignsApart DEF KeyKept, EffectiveKey, SecretTyped
      <3> QED BY <1>1, <1>3, <2>1, <3>1 DEF KeyKept, EffectiveKey
    <2>2. CASE override.key \in Typeds
      <3>1. override.key \notin Signs \cup Envs BY <2>2, SecretsApart
      <3>2. EffectiveKey(override, env) = override.key /\ EffectiveKey(override, env)' = override.key
        BY <1>1, <3>1 DEF EffectiveKey, Signs
      <3>3. meant.key = override.key /\ meant.key # Unset
        BY <3>1, <3>2 DEF KeyKept, SecretTyped, Signs
      <3> QED BY <1>3, <3>2, <3>3 DEF KeyKept
    <2> QED BY <1>1, <2>1, <2>2 DEF SecretTyped, KeyKept
  <1> QED BY <1>4, <1>5, <1>6, <1>7

\* Whatever masks, blanks, nulls and omissions editors send back from panels
\* opened before other saves and rotations of the environment (ondemand.py:73,
\* admin_config.py:793), each secret in force is the one meant, and neither a
\* mask nor the key of the environment is stored.
THEOREM SecretsAreKept == SecretSpec => []SecretsKept
  <1>1. ASSUME SecretInv, [SecretNext]_secrets PROVE SecretInv'
    <2>1. CASE UNCHANGED secrets
      BY <1>1, <2>1 DEF secrets, SecretInv, SecretTyped, RidesKept, KerbKept, KeyKept, EffectiveRides, EffectiveKerb,
         EffectiveKey
    <2>2. CASE SecretNext
      BY <1>1, <2>2, OpenPanelKeeps, PutRidesKeeps, PutKerbKeeps, PutKeyKeeps, ResetAllKeeps, NewEnvironmentKeeps
      DEF SecretNext
    <2> QED BY <1>1, <2>1, <2>2
  <1>2. ASSUME SecretInv PROVE SecretsKept
    <2>1. override.key[1] # "env"
      <3>1. Unset[1] # "env" /\ NoKeys[1] # "env" /\ Null[1] # "env" BY DEF Unset, NoKeys, Null
      <3> QED BY <1>2, <3>1, SecretsApart DEF SecretInv, SecretTyped
    <2>2. ASSUME NEW p \in RideIds PROVE Handoff(p) # Mask
      <3>1. Handoff(p) = Fallback \/ (p \in DOMAIN meant.rides /\ Handoff(p) = meant.rides[p])
        BY <1>2 DEF Handoff, SecretInv, RidesKept
      <3>2. \A x \in {Blank} \cup Envs \cup Typeds : x # Mask BY SignsApart, SecretsApart DEF Signs
      <3> QED BY <1>2, <3>1, <3>2, SignsApart DEF SecretInv, SecretTyped
    <2> QED BY <1>2, <2>1, <2>2 DEF SecretsKept, SecretInv, RidesKept, KerbKept, KeyKept
  <1> QED BY SecretFirst, <1>1, <1>2, PTL DEF SecretSpec


-----------------------------------------------------------------------------
(***************************************************************************)
(* The assistant. What has been spent, and what the replies that stream    *)
(* may still cost, fit under the budget: a reply is let in only below it.  *)
(***************************************************************************)

-----------------------------------------------------------------------------
\* The known calls up to a place are one more at each known call, so that no
\* two known calls have the same rank and no more run than a reply has left.
LEMMA RankGrows ==
    ASSUME NEW calls \in Seq(STRING), NEW j \in DOMAIN calls, NEW k \in DOMAIN calls,
           j < k, calls[k] \in Known
    PROVE  Rank(calls, j) \in Nat /\ Rank(calls, k) \in Nat /\ Rank(calls, j) < Rank(calls, k)
  <1> DEFINE Upto(n) == {i \in 1 .. n : calls[i] \in Known}
  <1>0. j \in Nat /\ k \in Nat /\ j >= 1 OBVIOUS
  <1>1. IsFiniteSet(1 .. k) BY <1>0, FS_Interval
  <1>2. Upto(k) \in SUBSET (1 .. k) OBVIOUS
  <1>3. IsFiniteSet(Upto(k)) BY <1>1, <1>2, FS_Subset
  <1>4. Upto(j) \in SUBSET Upto(k) /\ k \in Upto(k) /\ k \notin Upto(j) BY <1>0
  <1>5. /\ IsFiniteSet(Upto(j)) /\ Cardinality(Upto(j)) <= Cardinality(Upto(k))
        /\ Cardinality(Upto(k)) = Cardinality(Upto(j)) => Upto(k) = Upto(j)
    BY <1>3, <1>4, FS_Subset
  <1>6. Cardinality(Upto(j)) \in Nat /\ Cardinality(Upto(k)) \in Nat BY <1>3, <1>5, FS_CardinalityType
  <1>7. Cardinality(Upto(j)) # Cardinality(Upto(k)) BY <1>4, <1>5
  <1>8. Cardinality(Upto(j)) < Cardinality(Upto(k)) BY <1>5, <1>6, <1>7
  <1> QED BY <1>6, <1>8 DEF Rank

LEMMA RankStarts ==
    ASSUME NEW calls \in Seq(STRING), NEW j \in DOMAIN calls, calls[j] \in Known
    PROVE  Rank(calls, j) \in Nat \ {0}
  <1> DEFINE upto == {i \in 1 .. j : calls[i] \in Known}
  <1>0. j \in Nat /\ j >= 1 OBVIOUS
  <1>1. IsFiniteSet(upto)
    <2>1. IsFiniteSet(1 .. j) BY <1>0, FS_Interval
    <2>2. upto \in SUBSET (1 .. j) OBVIOUS
    <2> QED BY <2>1, <2>2, FS_Subset
  <1>2. j \in upto BY <1>0
  <1>3. Cardinality(upto) \in Nat /\ Cardinality(upto) # 0
    BY <1>1, <1>2, FS_CardinalityType, FS_EmptySet
  <1> QED BY <1>3 DEF Rank

LEMMA RunsBounded ==
    ASSUME NEW calls \in Seq(STRING), NEW used \in 0 .. PerReply
    PROVE  Cardinality(Runs(calls, used)) \in 0 .. PerReply - used
  <1> USE AssistantAssumption
  <1> DEFINE run  == Runs(calls, used)
             rank == [j \in run |-> Rank(calls, j)]
  <1>1. \A j \in run : j \in DOMAIN calls /\ calls[j] \in Known /\ Rank(calls, j) + used <= PerReply BY DEF Runs
  <1>2. rank \in [run -> 1 .. PerReply - used]
    <2> SUFFICES ASSUME NEW j \in run PROVE Rank(calls, j) \in 1 .. PerReply - used OBVIOUS
    <2>1. Rank(calls, j) \in Nat \ {0} BY <1>1, RankStarts
    <2> QED BY <1>1, <2>1
  <1>3. ASSUME NEW j \in run, NEW k \in run, rank[j] = rank[k] PROVE j = k
    <2>1. j \in Nat /\ k \in Nat BY <1>1
    <2>2. Rank(calls, j) = Rank(calls, k) BY <1>3
    <2>3. ~(j < k) BY <1>1, <2>2, RankGrows
    <2>4. ~(k < j) BY <1>1, <2>2, RankGrows
    <2> QED BY <2>1, <2>3, <2>4
  <1>4. rank \in Injection(run, 1 .. PerReply - used) BY <1>2, <1>3 DEF Injection, IsInjective
  <1>5. PerReply - used \in Nat OBVIOUS
  <1>6. IsFiniteSet(1 .. PerReply - used) /\ Cardinality(1 .. PerReply - used) = PerReply - used
    <2>1. PICK n \in Nat : n = PerReply - used BY <1>5
    <2>2. 1 \in Int /\ n \in Int BY <2>1
    <2>3. IsFiniteSet(1 .. n) BY <2>2, FS_Interval
    <2>4. Cardinality(1 .. n) = IF 1 > n THEN 0 ELSE n - 1 + 1 BY <2>2, FS_Interval, Zenon
    <2>5. Cardinality(1 .. n) = n BY <2>2, <2>4
    <2> QED BY <2>1, <2>3, <2>5
  <1>7. IsFiniteSet(run) /\ Cardinality(run) <= PerReply - used BY <1>4, <1>6, FS_Injection
  <1> QED BY <1>5, <1>7, FS_CardinalityType

-----------------------------------------------------------------------------
Fields == {"stage", "round", "usage", "used", "answered", "refused", "pressed", "calls", "run", "back", "turns"}
Turns  == Seq(Seq(STRING) \X Seq(STRING))
\* What a reply has cost so far: one turn of the model for each round, and one
\* for the last word.
Cost(t) ==
    /\ t.round \in 1 .. MaxRounds
    /\ t.stage = "model" => t.usage = t.round - 1
    /\ t.stage \in {"tools", "lastword"} => t.usage = t.round
    /\ t.stage = "done" => t.usage \in 1 .. MaxRounds + 1
Streaming(t) ==
    /\ DOMAIN t = Fields
    /\ t.stage \in {"model", "tools", "lastword", "done"}
    /\ Cost(t)
    /\ t.used \in 0 .. PerReply
    /\ t.calls \in Seq(STRING) /\ t.turns \in Turns
    /\ \A i \in DOMAIN t.turns : t.turns[i][1] = t.turns[i][2]
    /\ t.stage = "done" /\ NoProse(t) => t.pressed
Open == {r \in Replies : chats[r] # Resting}

AssistantTyped ==
    /\ today \in Nat
    /\ spend \in [day : Nat, usd : Nat, calls : Nat, errors : Nat] /\ spend.day <= today
    /\ \A k \in DOMAIN counted : counted[k] \in 0 .. PerSession
    /\ DOMAIN chats = Replies
    /\ \A r \in Replies : chats[r] = Resting \/ Streaming(chats[r])

\* What each reply that streams may still cost is set aside.
Reserve(n) == n * (MaxRounds + 1)
Reserved ==
    DailyBudget > 0 =>
        Today.usd + Reserve(Cardinality(Open)) < DailyBudget + Reserve(Cardinality(Replies))
AssistantInv == AssistantTyped /\ Reserved

LEMMA ReserveGrows == \A m, n \in Nat : m <= n => Reserve(m) \in Nat /\ Reserve(n) \in Nat /\ Reserve(m) <= Reserve(n)
  BY AssistantAssumption DEF Reserve
LEMMA ReserveOfOne == \A n \in Nat : Reserve(n + 1) = Reserve(n) + MaxRounds + 1
  BY AssistantAssumption DEF Reserve

LEMMA LiveFinite == /\ IsFiniteSet(Open) /\ Cardinality(Open) \in Nat /\ Cardinality(Open) <= Cardinality(Replies)
                    /\ IsFiniteSet(Replies) /\ Cardinality(Replies) \in Nat
                    /\ IsFiniteSet(Open') /\ Cardinality(Open') \in Nat /\ Cardinality(Open') <= Cardinality(Replies)
  <1>1. IsFiniteSet(Replies) BY AssistantAssumption
  <1>2. Open \in SUBSET Replies /\ Open' \in SUBSET Replies BY DEF Open
  <1> QED BY <1>1, <1>2, FS_Subset, FS_CardinalityType

\* A reply that ends gives back what was set aside for it.
LEMMA ReplyEnds ==
    ASSUME AssistantInv, NEW r \in Replies, chats[r] # Resting, chats' = [chats EXCEPT ![r] = Resting]
    PROVE  Cardinality(Open) = Cardinality(Open') + 1
  <1>1. Open' = Open \ {r} /\ r \in Open BY DEF Open, AssistantInv, AssistantTyped
  <1> QED BY <1>1, LiveFinite, FS_RemoveElement

\* A reply that goes on is among those that stream.
LEMMA ReplyGoesOn ==
    ASSUME AssistantInv, NEW r \in Replies, NEW t, Streaming(t), chats[r] # Resting,
           chats' = [chats EXCEPT ![r] = t], UNCHANGED <<today, spend, counted>>
    PROVE  AssistantInv'
  <1> USE DEF AssistantInv
  <1>1. t # Resting
    <2>1. t.stage # "idle" BY DEF Streaming
    <2> QED BY <2>1 DEF Resting
  <1>2. Open' = Open BY <1>1 DEF Open, AssistantTyped
  <1>3. \A q \in Replies : chats'[q] = Resting \/ Streaming(chats'[q]) BY DEF AssistantTyped
  <1>4. AssistantTyped' BY <1>3 DEF AssistantTyped, Streaming, Cost, NoProse
  <1>5. Today' = Today BY DEF Today
  <1> QED BY <1>2, <1>4, <1>5 DEF Reserved

\* A reply that ends, having cost no more than what was set aside for one.
LEMMA ReplyCharged ==
    ASSUME AssistantInv, NEW r \in Replies, chats[r] # Resting, chats' = [chats EXCEPT ![r] = Resting],
           NEW usd \in 0 .. MaxRounds + 1, NEW ok \in BOOLEAN, UNCHANGED <<today, counted>>,
           spend' = Charged(usd, ok) \/ spend' = spend
    PROVE  AssistantInv'
  <1> USE DEF AssistantInv
  <1>1. /\ Today \in [day : Nat, usd : Nat, calls : Nat, errors : Nat] /\ Today.day = today
    BY DEF Today, NoSpend, AssistantTyped
  <1>2. MaxRounds \in Nat BY AssistantAssumption
  <1>3. CASE spend' = Charged(usd, ok)
    <2>1. spend' \in [day : Nat, usd : Nat, calls : Nat, errors : Nat] /\ spend'.day = today
          /\ spend'.usd = Today.usd + usd
      <3>1. PICK e \in {0, 1} : e = IF ok THEN 0 ELSE 1 OBVIOUS
      <3>2. spend' = [Today EXCEPT !.usd = Today.usd + usd, !.calls = Today.calls + 1, !.errors = Today.errors + e]
        BY <1>3, <3>1, Zenon DEF Charged
      <3>3. usd \in Nat BY <1>2
      <3>4. PICK was : was = Today OBVIOUS
      <3>5. spend' = [was EXCEPT !.usd = was.usd + usd, !.calls = was.calls + 1, !.errors = was.errors + e]
        BY <3>2, <3>4
      <3>6. was \in [day : Nat, usd : Nat, calls : Nat, errors : Nat] /\ was.day = today BY <1>1, <3>4
      <3>7. was.calls + 1 \in Nat /\ was.errors + e \in Nat /\ was.usd + usd \in Nat BY <3>1, <3>3, <3>6
      <3>8. spend' \in [day : Nat, usd : Nat, calls : Nat, errors : Nat] BY <3>5, <3>6, <3>7
      <3>9. spend'.day = today /\ spend'.usd = was.usd + usd BY <3>5, <3>6
      <3> QED BY <3>4, <3>8, <3>9
    <2>2. Today' = spend' BY <2>1 DEF Today
    <2> QED
      <3>1. AssistantTyped' BY <2>1 DEF AssistantTyped, Streaming, Cost, NoProse
      <3>2. Reserved'
        <4>1. Reserve(Cardinality(Open)) = Reserve(Cardinality(Open')) + MaxRounds + 1
          BY ReplyEnds, LiveFinite, ReserveOfOne
        <4>2. Reserve(Cardinality(Open')) \in Nat /\ Reserve(Cardinality(Replies)) \in Nat BY LiveFinite, ReserveGrows
        <4>3. Today.usd \in Nat /\ Today'.usd = Today.usd + usd /\ usd \in Nat /\ usd <= MaxRounds + 1
          BY <1>1, <1>2, <2>1, <2>2
        <4>4. DailyBudget > 0 => Today.usd + Reserve(Cardinality(Open)) < DailyBudget + Reserve(Cardinality(Replies))
          BY DEF Reserved
        <4>5. DailyBudget \in Nat BY AssistantAssumption
        <4>6. DailyBudget > 0 => Today'.usd + Reserve(Cardinality(Open')) < DailyBudget + Reserve(Cardinality(Replies))
          BY <1>2, <4>1, <4>2, <4>3, <4>4, <4>5
        <4> QED BY <4>6 DEF Reserved
      <3> QED BY <3>1, <3>2
  <1>4. CASE spend' = spend
    <2>1. Today' = Today BY <1>4 DEF Today
    <2>2. AssistantTyped' BY <1>4 DEF AssistantTyped, Streaming, Cost, NoProse
    <2>3. Reserve(Cardinality(Open)) = Reserve(Cardinality(Open')) + MaxRounds + 1
      BY ReplyEnds, LiveFinite, ReserveOfOne
    <2>4. Reserve(Cardinality(Open')) \in Nat /\ Reserve(Cardinality(Replies)) \in Nat BY LiveFinite, ReserveGrows
    <2> QED BY <1>1, <1>2, <2>1, <2>2, <2>3, <2>4, AssistantAssumption DEF Reserved
  <1> QED BY <1>3, <1>4

LEMMA AssistantFirst == AssistantInit => AssistantInv
  <1> SUFFICES ASSUME AssistantInit PROVE AssistantInv OBVIOUS
  <1> USE AssistantAssumption DEF AssistantInit
  <1>1. AssistantTyped BY DEF AssistantTyped, NoSpend
  <1>2. Open = {} BY DEF Open
  <1>3. Today.usd = 0 BY DEF Today, NoSpend
  <1>4. Reserve(0) = 0 /\ Reserve(Cardinality(Replies)) \in Nat BY LiveFinite, ReserveGrows DEF Reserve
  <1>5. Reserved BY <1>2, <1>3, <1>4, FS_EmptySet DEF Reserved
  <1> QED BY <1>1, <1>5 DEF AssistantInv

LEMMA ChatKeeps == ASSUME AssistantInv, NEW r \in Replies, NEW s \in Sessions, Chat(r, s) PROVE AssistantInv'
  <1> USE AssistantAssumption DEF AssistantInv
  <1> DEFINE first == [stage |-> "model", round |-> 1, usage |-> 0, used |-> 0, answered |-> FALSE,
                       refused |-> FALSE, pressed |-> FALSE, calls |-> <<>>, run |-> {},
                       back |-> <<>>, turns |-> <<>>]
  <1>1. today' = today /\ ~Exhausted /\ spend' = Today /\ chats[r].stage = "idle" BY DEF Chat
  <1>2. chats' = [chats EXCEPT ![r] = first] BY DEF Chat
  <1>3. Streaming(first) BY DEF Streaming, Fields, Cost, Turns
  <1>4. first # Resting BY DEF Resting
  <1>5. chats[r] = Resting BY <1>1 DEF AssistantTyped, Streaming
  <1>6. Today \in [day : Nat, usd : Nat, calls : Nat, errors : Nat] /\ Today.day = today
    BY DEF Today, NoSpend, AssistantTyped
  <1> HIDE DEF first
  <1>7. \A q \in Replies : chats'[q] = Resting \/ Streaming(chats'[q]) BY <1>2, <1>3 DEF AssistantTyped
  <1>8. \A k \in DOMAIN counted' : counted'[k] \in 0 .. PerSession
    <2>1. RepliesOf(s) \in 0 .. PerSession - 1 BY DEF Chat, RepliesOf, AssistantTyped
    <2>2. counted' = [k \in DOMAIN counted \cup {<<s, today>>} |->
                         IF k = <<s, today>> THEN RepliesOf(s) + 1 ELSE counted[k]]
      BY DEF Chat
    <2> QED BY <2>1, <2>2 DEF AssistantTyped
  <1>9. AssistantTyped' BY <1>1, <1>2, <1>6, <1>7, <1>8 DEF AssistantTyped, Streaming, Cost, NoProse
  <1>10. Open' = Open \cup {r} /\ r \notin Open BY <1>2, <1>4, <1>5 DEF Open, AssistantTyped
  <1>11. Reserve(Cardinality(Open')) <= Reserve(Cardinality(Replies)) /\ Reserve(Cardinality(Open')) \in Nat
         /\ Reserve(Cardinality(Replies)) \in Nat
    BY LiveFinite, ReserveGrows
  <1>12. Today' = Today BY <1>1, <1>6 DEF Today
  <1>13. Reserved' BY <1>1, <1>6, <1>11, <1>12 DEF Reserved, Exhausted
  <1> QED BY <1>9, <1>13

\* A loop that is over asks for a last word, or is done with one.
LEMMA AfterLoopStreams ==
    ASSUME NEW t, DOMAIN t = Fields, t.round \in 1 .. MaxRounds, t.usage = t.round,
           t.used \in 0 .. PerReply, t.calls \in Seq(STRING), t.turns \in Turns,
           \A i \in DOMAIN t.turns : t.turns[i][1] = t.turns[i][2]
    PROVE  Streaming(AfterLoop(t))
  <1> USE AssistantAssumption
  <1>1. CASE NoProse(t)
    <2>1. AfterLoop(t) = [t EXCEPT !.stage = "lastword"] BY <1>1 DEF AfterLoop
    <2> QED BY <2>1 DEF Streaming, Cost, Fields
  <1>2. CASE ~NoProse(t)
    <2>1. AfterLoop(t) = [t EXCEPT !.stage = "done"] BY <1>2 DEF AfterLoop
    <2>2. ~NoProse(AfterLoop(t)) BY <1>2, <2>1 DEF NoProse, Fields
    <2> QED BY <2>1, <2>2 DEF Streaming, Cost, Fields
  <1> QED BY <1>1, <1>2

LEMMA NotResting == \A t : t.stage # "idle" => t # Resting
  BY DEF Resting

LEMMA StreamsUnlessRests == ASSUME AssistantInv, NEW r \in Replies, chats[r].stage # "idle"
                            PROVE  chats[r] # Resting /\ Streaming(chats[r])
  BY NotResting DEF AssistantInv, AssistantTyped

LEMMA ModelTurnKeeps ==
    ASSUME AssistantInv, NEW r \in Replies, NEW prose \in BOOLEAN, NEW refused \in BOOLEAN, NEW calls \in Asked,
           ModelTurn(r, prose, calls, refused)
    PROVE  AssistantInv'
  <1> USE AssistantAssumption
  <1>1. PICK t : t = chats[r] OBVIOUS
  <1>2. t.stage = "model" BY <1>1 DEF ModelTurn
  <1>3. Streaming(t) /\ chats[r] # Resting BY <1>1, <1>2, StreamsUnlessRests
  <1>4. PICK run : run = Runs(calls, t.used) OBVIOUS
  <1>5. calls \in Seq(STRING) OBVIOUS
  <1>6. Cardinality(run) \in 0 .. PerReply - t.used BY <1>3, <1>4, <1>5, RunsBounded DEF Streaming
  <1>7. PICK said : said = (t.answered \/ prose) OBVIOUS
  <1>8. PICK no : no = (refused /\ calls # <<>>) OBVIOUS
  <1>9. PICK nxt : nxt = [t EXCEPT !.usage = @ + 1, !.answered = said, !.calls = calls, !.run = run,
                                   !.used = @ + Cardinality(run), !.refused = no]
    OBVIOUS
  <1>10. chats' = [chats EXCEPT ![r] = IF calls = <<>> THEN AfterLoop(nxt) ELSE [nxt EXCEPT !.stage = "tools"]]
    BY <1>1, <1>4, <1>7, <1>8, <1>9, Zenon DEF ModelTurn
  <1>11. /\ DOMAIN nxt = Fields /\ nxt.round = t.round /\ nxt.usage = t.usage + 1 /\ nxt.calls = calls
         /\ nxt.used = t.used + Cardinality(run) /\ nxt.turns = t.turns
    BY <1>3, <1>9 DEF Streaming, Fields
  <1>12. /\ nxt.round \in 1 .. MaxRounds /\ nxt.usage = nxt.round
         /\ nxt.used \in 0 .. PerReply /\ nxt.calls \in Seq(STRING) /\ nxt.turns \in Turns
         /\ \A i \in DOMAIN nxt.turns : nxt.turns[i][1] = nxt.turns[i][2]
    BY <1>2, <1>3, <1>5, <1>6, <1>11 DEF Streaming, Cost
  <1>13. UNCHANGED <<today, spend, counted>> BY DEF ModelTurn
  <1>14. CASE calls = <<>>
    <2>1. Streaming(AfterLoop(nxt)) BY <1>11, <1>12, AfterLoopStreams
    <2> QED BY <1>3, <1>10, <1>13, <1>14, <2>1, ReplyGoesOn
  <1>15. CASE calls # <<>>
    <2>1. Streaming([nxt EXCEPT !.stage = "tools"]) BY <1>11, <1>12 DEF Streaming, Cost, Fields
    <2> QED BY <1>3, <1>10, <1>13, <1>15, <2>1, ReplyGoesOn
  <1> QED BY <1>14, <1>15

LEMMA ToolBackKeeps == ASSUME AssistantInv, NEW r \in Replies, ToolBack(r) PROVE AssistantInv'
  <1>1. PICK t : t = chats[r] OBVIOUS
  <1>2. t.stage = "tools" BY <1>1 DEF ToolBack
  <1>3. Streaming(t) /\ chats[r] # Resting BY <1>1, <1>2, StreamsUnlessRests
  <1>4. PICK j : chats' = [chats EXCEPT ![r].back = Append(@, j)] BY DEF ToolBack
  <1>5. chats' = [chats EXCEPT ![r] = [t EXCEPT !.back = Append(t.back, j)]] BY <1>1, <1>4
  <1>6. Streaming([t EXCEPT !.back = Append(t.back, j)]) BY <1>2, <1>3 DEF Streaming, Cost, Fields
  <1> QED BY <1>3, <1>5, <1>6, ReplyGoesOn DEF ToolBack

LEMMA ToolsDoneKeeps == ASSUME AssistantInv, NEW r \in Replies, ToolsDone(r) PROVE AssistantInv'
  <1> USE AssistantAssumption
  <1>1. PICK t : t = chats[r] OBVIOUS
  <1>2. t.stage = "tools" BY <1>1 DEF ToolsDone
  <1>3. Streaming(t) /\ chats[r] # Resting BY <1>1, <1>2, StreamsUnlessRests
  <1>4. PICK then : then = [t EXCEPT !.turns = Append(t.turns, <<t.calls, t.calls>>)] OBVIOUS
  <1>5. chats' = [chats EXCEPT ![r] = NextRound(then)] BY <1>1, <1>4 DEF ToolsDone, Shown
  <1>6. /\ DOMAIN then = Fields /\ then.round = t.round /\ then.usage = t.usage /\ then.calls = t.calls
        /\ then.used = t.used /\ then.stage = "tools" /\ then.turns = Append(t.turns, <<t.calls, t.calls>>)
    BY <1>2, <1>3, <1>4 DEF Streaming, Fields
  <1>7. then.turns \in Turns /\ \A i \in DOMAIN then.turns : then.turns[i][1] = then.turns[i][2]
    <2>1. t.turns \in Turns /\ t.calls \in Seq(STRING) /\ \A i \in DOMAIN t.turns : t.turns[i][1] = t.turns[i][2]
      BY <1>3 DEF Streaming
    <2>2. <<t.calls, t.calls>> \in Seq(STRING) \X Seq(STRING) BY <2>1
    <2>3. then.turns \in Turns BY <1>6, <2>1, <2>2 DEF Turns
    <2>4. ASSUME NEW i \in DOMAIN then.turns PROVE then.turns[i][1] = then.turns[i][2]
      <3>1. CASE i \in DOMAIN t.turns BY <1>6, <2>1, <3>1 DEF Turns
      <3>2. CASE i \notin DOMAIN t.turns
        <4>1. then.turns[i] = <<t.calls, t.calls>> BY <1>6, <2>1, <3>2 DEF Turns
        <4> QED BY <4>1
      <3> QED BY <3>1, <3>2
    <2> QED BY <2>3, <2>4
  <1>8. /\ then.round \in 1 .. MaxRounds /\ then.usage = then.round
        /\ then.used \in 0 .. PerReply /\ then.calls \in Seq(STRING)
    BY <1>2, <1>3, <1>6 DEF Streaming, Cost
  <1>9. Streaming(NextRound(then))
    <2>1. CASE then.refused \/ then.round = MaxRounds
      BY <1>6, <1>7, <1>8, <2>1, AfterLoopStreams DEF NextRound
    <2>2. CASE ~(then.refused \/ then.round = MaxRounds)
      <3>1. PICK nxt : nxt = NextRound(then) OBVIOUS
      <3>2. nxt = [then EXCEPT !.stage = "model", !.round = then.round + 1, !.calls = <<>>, !.back = <<>>]
        BY <2>2, <3>1 DEF NextRound
      <3>3. /\ DOMAIN nxt = Fields /\ nxt.stage = "model" /\ nxt.round = then.round + 1 /\ nxt.usage = then.usage
            /\ nxt.used = then.used /\ nxt.calls = <<>> /\ nxt.turns = then.turns
        BY <1>6, <3>2 DEF Fields
      <3>4. Cost(nxt) BY <1>8, <2>2, <3>3 DEF Cost
      <3> QED BY <1>7, <1>8, <3>1, <3>3, <3>4 DEF Streaming
    <2> QED BY <2>1, <2>2
  <1> QED BY <1>3, <1>5, <1>9, ReplyGoesOn DEF ToolsDone

LEMMA LastWordKeeps ==
    ASSUME AssistantInv, NEW r \in Replies, NEW prose \in BOOLEAN, LastWord(r, prose) PROVE AssistantInv'
  <1> USE AssistantAssumption
  <1>1. PICK t : t = chats[r] OBVIOUS
  <1>2. t.stage = "lastword" BY <1>1 DEF LastWord
  <1>3. Streaming(t) /\ chats[r] # Resting BY <1>1, <1>2, StreamsUnlessRests
  <1>4. PICK nxt : nxt = [t EXCEPT !.stage = "done", !.usage = t.usage + 1, !.answered = prose, !.pressed = TRUE] OBVIOUS
  <1>5. chats' = [chats EXCEPT ![r] = nxt] BY <1>1, <1>4 DEF LastWord
  <1>6. Streaming(nxt) BY <1>2, <1>3, <1>4 DEF Streaming, Cost, Fields
  <1> QED BY <1>3, <1>5, <1>6, ReplyGoesOn DEF LastWord

LEMMA DoneKeeps == ASSUME AssistantInv, NEW r \in Replies, Done(r) PROVE AssistantInv'
  <1>1. chats[r].stage = "done" BY DEF Done
  <1>2. chats[r] # Resting /\ chats[r].usage \in 0 .. MaxRounds + 1
    BY <1>1, StreamsUnlessRests, AssistantAssumption DEF Streaming, Cost
  <1> QED BY <1>2, ReplyCharged DEF Done

LEMMA UpstreamKeeps == ASSUME AssistantInv, NEW r \in Replies, Upstream(r) PROVE AssistantInv'
  <1>1. chats[r] # Resting BY StreamsUnlessRests DEF Upstream
  <1>2. 0 \in 0 .. MaxRounds + 1 BY AssistantAssumption
  <1> QED BY <1>1, <1>2, ReplyCharged DEF Upstream

LEMMA CutOffKeeps == ASSUME AssistantInv, NEW r \in Replies, CutOff(r) PROVE AssistantInv'
  <1>1. chats[r] # Resting BY StreamsUnlessRests DEF CutOff
  <1>2. 0 \in 0 .. MaxRounds + 1 BY AssistantAssumption
  <1> QED BY <1>1, <1>2, ReplyCharged DEF CutOff

LEMMA MidnightKeeps == ASSUME AssistantInv, Midnight PROVE AssistantInv'
  <1> USE AssistantAssumption DEF AssistantInv
  <1>1. today' = today + 1 /\ UNCHANGED <<spend, counted, chats>> BY DEF Midnight
  <1>2. AssistantTyped' BY <1>1 DEF AssistantTyped, Streaming, Cost, NoProse
  <1>3. Today'.usd = 0 BY <1>1 DEF Today, NoSpend, AssistantTyped
  <1>4. Open' = Open BY <1>1 DEF Open
  <1>5. Reserve(Cardinality(Open)) <= Reserve(Cardinality(Replies)) /\ Reserve(Cardinality(Open)) \in Nat
        /\ Reserve(Cardinality(Replies)) \in Nat
    BY LiveFinite, ReserveGrows
  <1>6. Reserved' BY <1>3, <1>4, <1>5 DEF Reserved
  <1> QED BY <1>2, <1>6

\* However many replies stream at once, whatever calls the model makes and in
\* whichever order its tools answer, also over midnight (routers/chat.py:80,
\* engine.py:112): the day costs no more than its budget and what the replies
\* that may stream cost, no session begins more than its share, no reply runs
\* more tools than it may, and the model sees each result beside its call.
THEOREM AssistantIsSound == AssistantSpec => []AssistantSound
  <1>1. ASSUME AssistantInv, [AssistantNext]_assistant PROVE AssistantInv'
    <2>1. CASE UNCHANGED assistant
      <3>1. AssistantTyped' BY <1>1, <2>1 DEF assistant, AssistantInv, AssistantTyped, Streaming, Cost, NoProse
      <3>2. Today' = Today /\ Open' = Open BY <2>1 DEF assistant, Today, Open
      <3> QED BY <1>1, <3>1, <3>2 DEF AssistantInv, Reserved
    <2>2. CASE AssistantNext
      BY <1>1, <2>2, ChatKeeps, ModelTurnKeeps, ToolBackKeeps, ToolsDoneKeeps, LastWordKeeps, DoneKeeps, UpstreamKeeps,
         CutOffKeeps, MidnightKeeps DEF AssistantNext
    <2> QED BY <1>1, <2>1, <2>2
  <1>2. ASSUME AssistantInv PROVE AssistantSound
    <2>1. Overshoot
      <3>1. Reserve(Cardinality(Open)) \in Nat BY LiveFinite, ReserveGrows
      <3>2. Today.usd \in Nat BY <1>2 DEF AssistantInv, AssistantTyped, Today, NoSpend
      <3>3. Reserve(Cardinality(Replies)) = Cardinality(Replies) * (MaxRounds + 1) BY DEF Reserve
      <3>4. Reserve(Cardinality(Replies)) \in Nat BY LiveFinite, ReserveGrows
      <3>5. DailyBudget > 0 => Today.usd < DailyBudget + Reserve(Cardinality(Replies))
        BY <1>2, <3>1, <3>2, <3>4, AssistantAssumption DEF AssistantInv, Reserved
      <3>6. \A k \in DOMAIN counted : counted[k] <= PerSession BY <1>2 DEF AssistantInv, AssistantTyped
      <3> QED BY <3>3, <3>5, <3>6 DEF Overshoot
    <2>2. ReplySound
      <3> SUFFICES ASSUME NEW r \in Replies, chats[r].stage # "idle"
                   PROVE  /\ \A i \in DOMAIN chats[r].turns : chats[r].turns[i][1] = chats[r].turns[i][2]
                          /\ chats[r].used <= PerReply
                          /\ chats[r].stage = "done" /\ NoProse(chats[r]) => chats[r].pressed
        BY DEF ReplySound
      <3>1. Streaming(chats[r]) BY <1>2, StreamsUnlessRests
      <3> QED BY <3>1, AssistantAssumption DEF Streaming
    <2> QED BY <2>1, <2>2 DEF AssistantSound
  <1> QED BY AssistantFirst, <1>1, <1>2, PTL DEF AssistantSpec


-----------------------------------------------------------------------------
(***************************************************************************)
(* The cache of addresses. A miss is no younger than the search that put   *)
(* it.                                                                     *)
(***************************************************************************)

LookupTypes ==
    {Waiting} \cup [stage : {"ask"}, began : Nat, cached : {"absent", "address", "miss"}]
              \cup [stage : {"put"}, began : Nat, said : {"address", "miss"}]
GeocodeTyped ==
    /\ hour \in Nat /\ addressed \in Nat /\ stalest \in Nat
    /\ row \in [result : {"absent", "address", "miss"}, at : Nat]
    /\ lookups \in [Searches -> LookupTypes]

\* A miss that is stored was put by a search that began before the address was
\* known; a search takes no longer than its flight.
RowBefore == row.at <= hour /\ (row.result = "miss" => row.at <= addressed + Flight)
LookupsInFlight ==
    \A s \in Searches : lookups[s] # Waiting =>
        /\ lookups[s].began <= hour /\ hour <= lookups[s].began + Flight
        /\ lookups[s].stage = "put" /\ lookups[s].said = "miss" => lookups[s].began <= addressed
GeocodeInv == GeocodeTyped /\ RowBefore /\ LookupsInFlight /\ MissForgotten

LEMMA DenialsBounded ==
    ASSUME GeocodeInv, NEW said, Denied(said),
           said = "address" \/ hour <= addressed + MissTtl + Flight
    PROVE  stalest' \in Nat /\ stalest' <= MissTtl + Flight
  BY GeocodeAssumption DEF GeocodeInv, GeocodeTyped, MissForgotten, Denied, KnownNow

LEMMA NotYetIsNat == NotYet \in Nat
  BY SMT DEF NotYet

LEMMA GeocodeFirst == GeocodeInit => GeocodeInv
  BY GeocodeAssumption, NotYetIsNat DEF GeocodeInit, GeocodeInv, GeocodeTyped, RowBefore, LookupsInFlight, MissForgotten,
     LookupTypes, NoRow, Waiting

LEMMA SearchAddressKeeps == ASSUME GeocodeInv, NEW s \in Searches, SearchAddress(s) PROVE GeocodeInv'
  <1> USE GeocodeAssumption DEF GeocodeInv
  <1>1. UNCHANGED <<hour, addressed, row>> BY DEF SearchAddress
  <1>2. stalest' \in Nat /\ stalest' <= MissTtl + Flight
    <2>1. CASE CacheFresh(row)
      <3>1. Denied(row.result) BY <2>1 DEF SearchAddress
      <3>2. row.result = "address" \/ hour <= addressed + MissTtl + Flight
        BY <2>1 DEF CacheFresh, RowBefore, GeocodeTyped
      <3> QED BY <3>1, <3>2, DenialsBounded
    <2> QED BY <2>1 DEF SearchAddress, GeocodeTyped, MissForgotten
  <1>3. lookups' = lookups
        \/ lookups' = [lookups EXCEPT ![s] = [stage |-> "ask", began |-> hour, cached |-> row.result]]
    BY DEF SearchAddress
  <1>4. GeocodeTyped'
    BY <1>1, <1>2, <1>3 DEF GeocodeTyped, LookupTypes
  <1>5. LookupsInFlight'
    BY <1>1, <1>3 DEF GeocodeTyped, LookupsInFlight
  <1> QED BY <1>1, <1>2, <1>4, <1>5 DEF RowBefore, MissForgotten

LEMMA AnsweredKeeps == ASSUME GeocodeInv, NEW s \in Searches, Answered(s) PROVE GeocodeInv'
  <1> USE GeocodeAssumption DEF GeocodeInv
  <1>1. UNCHANGED <<hour, addressed, row, stalest>> BY DEF Answered
  <1>2. PICK said \in {"address", "miss"} :
           /\ lookups' = [lookups EXCEPT ![s] = [stage |-> "put", began |-> lookups[s].began, said |-> said]]
           /\ said = "miss" => hour < addressed
    <2>1. CASE KnownNow BY <2>1 DEF Answered
    <2>2. CASE ~KnownNow BY <2>2 DEF Answered, KnownNow, GeocodeTyped
    <2> QED BY <2>1, <2>2
  <1>3. lookups[s] # Waiting /\ lookups[s].began \in Nat
    BY DEF Answered, Waiting, GeocodeTyped, LookupTypes
  <1>4. GeocodeTyped' BY <1>1, <1>2, <1>3 DEF GeocodeTyped, LookupTypes
  <1>5. LookupsInFlight' BY <1>1, <1>2, <1>3 DEF GeocodeTyped, LookupsInFlight
  <1> QED BY <1>1, <1>4, <1>5 DEF RowBefore, MissForgotten

LEMMA UnansweredKeeps == ASSUME GeocodeInv, NEW s \in Searches, Unanswered(s) PROVE GeocodeInv'
  BY DEF GeocodeInv, Unanswered, GeocodeTyped, LookupTypes, RowBefore, LookupsInFlight, MissForgotten

LEMMA PutAnswerKeeps ==
    ASSUME GeocodeInv, NEW s \in Searches, NEW took \in BOOLEAN, PutAnswer(s, took)
    PROVE  GeocodeInv'
  <1> USE GeocodeAssumption DEF GeocodeInv
  <1>1. UNCHANGED <<hour, addressed>> BY DEF PutAnswer
  <1>2. lookups[s] # Waiting /\ lookups[s].said \in {"address", "miss"} /\ lookups[s].began \in Nat
    BY DEF PutAnswer, Waiting, GeocodeTyped, LookupTypes
  <1>3. lookups[s].said = "address" \/ hour <= addressed + Flight
    BY <1>2 DEF LookupsInFlight, GeocodeTyped, PutAnswer
  <1>4. stalest' \in Nat /\ stalest' <= MissTtl + Flight
    BY <1>3, DenialsBounded DEF PutAnswer, GeocodeTyped
  <1>5. row' = row \/ row' = [result |-> lookups[s].said, at |-> hour] BY DEF PutAnswer
  <1>6. lookups' = [lookups EXCEPT ![s] = Waiting] BY DEF PutAnswer
  <1>7. GeocodeTyped' BY <1>1, <1>2, <1>4, <1>5, <1>6 DEF GeocodeTyped, LookupTypes
  <1>8. RowBefore' BY <1>1, <1>3, <1>5 DEF RowBefore, GeocodeTyped
  <1>9. LookupsInFlight' BY <1>1, <1>6 DEF LookupsInFlight, GeocodeTyped
  <1> QED BY <1>4, <1>7, <1>8, <1>9 DEF MissForgotten

LEMMA AssignKeeps == ASSUME GeocodeInv, Assign PROVE GeocodeInv'
  BY GeocodeAssumption
  DEF GeocodeInv, Assign, GeocodeTyped, LookupTypes, RowBefore, LookupsInFlight, MissForgotten

LEMMA GeocodeTickKeeps == ASSUME GeocodeInv, GeocodeTick PROVE GeocodeInv'
  <1> USE GeocodeAssumption DEF GeocodeInv, GeocodeTick
  <1>1. LookupsInFlight'
    <2> SUFFICES ASSUME NEW s \in Searches, lookups[s] # Waiting
                 PROVE  /\ lookups[s].began <= hour + 1 /\ hour + 1 <= lookups[s].began + Flight
                        /\ lookups[s].stage = "put" /\ lookups[s].said = "miss" => lookups[s].began <= addressed
      BY DEF LookupsInFlight
    <2>1. lookups[s].began \in Nat BY DEF GeocodeTyped, LookupTypes
    <2> QED BY <2>1 DEF LookupsInFlight, GeocodeTyped
  <1> QED BY <1>1 DEF GeocodeTyped, RowBefore, MissForgotten

\* However searches overlap while each waits for the geocoder (geocode.py:371),
\* and though a late one may store a miss over the address another has found
\* (places.py:84), an address the cadastre has come to know is denied for
\* MissTtl and the time of one search at most.
THEOREM MissesAreForgotten == GeocodeSpec => []MissForgotten
  <1>1. ASSUME GeocodeInv, [GeocodeNext]_geocode PROVE GeocodeInv'
    <2>1. CASE UNCHANGED geocode
      BY <1>1, <2>1 DEF geocode, GeocodeInv, GeocodeTyped, RowBefore, LookupsInFlight, MissForgotten
    <2>2. CASE GeocodeNext
      BY <1>1, <2>2, SearchAddressKeeps, AnsweredKeeps, UnansweredKeeps, PutAnswerKeeps, AssignKeeps,
         GeocodeTickKeeps DEF GeocodeNext
    <2> QED BY <1>1, <2>1, <2>2
  <1>2. GeocodeInv => MissForgotten BY DEF GeocodeInv
  <1> QED BY GeocodeFirst, <1>1, <1>2, PTL DEF GeocodeSpec
=============================================================================
