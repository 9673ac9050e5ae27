---------------------------- MODULE SecretSettings ----------------------------
(***************************************************************************)
(* The secrets of the editable configuration: the credentials of the       *)
(* on-demand providers, which are a list, those of the kerb source, which  *)
(* are a part of a section, and the assistant's key.  An editor is shown   *)
(* masks and sends back what the panel holds, perhaps long after; one PUT  *)
(* is one step (CityConfig has its statements).  The YAML's secrets come   *)
(* from the environment, which a restart may change.                       *)
(***************************************************************************)
EXTENDS Integers, FiniteSets

CONSTANTS
    Editors,
    RideIds,        \* providers an editor may list
    YamlIds,        \* those the YAML lists
    MaxTyped, MaxRotations      \* bounds on a behaviour
ASSUME SecretAssumption == YamlIds \subseteq RideIds /\ {MaxTyped, MaxRotations} \subseteq Nat

VARIABLES
    env,        \* the secret of the environment now
    override,   \* what is stored: rides, kerb and key
    panels,     \* editor -> the providers its panel shows, and which with a mask
    typedIn,    \* secrets typed so far
    meant       \* what the editors have asked for (history)
secrets == <<env, override, panels, typedIn, meant>>

Blank == <<"blank">>
Mask  == <<"mask">>
Env(n)   == <<"env", n>>
Typed(n) == <<"typed", n>>
\* Not stored: the YAML's applies.  The key may also be stored as null.
Unset  == <<"unset">>
NoKeys == <<"no assistant section">>
Null   == <<"null">>
Omit   == <<"omit">>
Gone   == <<"gone">>
Fallback == <<"fallback">>
NoList == <<>>

\* deep_merge of the YAML's sections and the override: a list replaces the other.
EffectiveRides(o, e) == IF o.rides = NoList THEN [p \in YamlIds |-> e] ELSE o.rides[1]
EffectiveKerb(o, e)  == IF o.kerb = Unset THEN e ELSE o.kerb
EffectiveKey(o, e)   == IF o.key \in {Unset, NoKeys} THEN e ELSE IF o.key = Null THEN Blank ELSE o.key

Masked(v) == IF v = Blank THEN Blank ELSE Mask
\* describe: every secret masked, the override's as the YAML's.
ShownMasks == [p \in DOMAIN EffectiveRides(override, env) |-> Masked(EffectiveRides(override, env)[p])]

SecretInit ==
    /\ env = Env(0) /\ override = [rides |-> NoList, kerb |-> Unset, key |-> NoKeys]
    /\ panels = [a \in Editors |-> [p \in YamlIds |-> Mask]]
    /\ typedIn = 0
    /\ meant = [rides |-> [p \in YamlIds |-> Env(0)], kerb |-> Env(0), key |-> Unset]

OpenPanel(a) ==
    /\ panels' = [panels EXCEPT ![a] = ShownMasks]
    /\ UNCHANGED <<env, override, typedIn, meant>>

\* Mutant: a mask keeps what the sender was shown, so it is stored as it is.
KeepMask(sent, stored) ==
    CASE sent = Omit -> stored [] sent = Null -> Blank [] sent = Mask -> Mask [] OTHER -> sent

\* apply_credential_rules, for a provider and for one of its keys.
CredentialRule(sent, stored) ==
    CASE sent = Omit -> stored [] sent = Null -> Blank [] sent = Mask -> stored [] OTHER -> sent

Fresh == IF typedIn < MaxTyped THEN {Typed(typedIn + 1)} ELSE {}
Uses(sent) == typedIn' = IF sent \in Fresh THEN typedIn + 1 ELSE typedIn

\* A PUT of mobility.onDemand: the providers of the panel, one of them edited,
\* added or left out.  Providers the city knows are looked up by their ids.
PutRides(a) ==
    \E p \in RideIds, sent \in {Omit, Null, Gone, Mask} \cup Fresh :
        LET known == EffectiveRides(override, env)
            Stored(q) == IF q \in DOMAIN known THEN known[q] ELSE Blank
            ids == IF sent = Gone THEN DOMAIN panels[a] \ {p} ELSE DOMAIN panels[a] \cup {p}
            Sent(q) == IF q = p THEN sent ELSE panels[a][q]
        IN  /\ override' = [override EXCEPT !.rides = <<[q \in ids |-> CredentialRule(Sent(q), Stored(q))]>>]
            /\ meant' = [meant EXCEPT !.rides =
                 [q \in ids |-> IF Sent(q) \in Fresh THEN Sent(q)
                                ELSE IF Sent(q) \in {Null, Blank} \/ q \notin DOMAIN meant.rides THEN Blank
                                ELSE meant.rides[q]]]
            /\ Uses(sent)
            /\ UNCHANGED <<env, panels>>

\* A PUT of openMobility.cds.curbs: what the rules leave is merged into what is
\* stored, so that a key they remove stays.
PutKerb ==
    \E sent \in {Omit, Null, Mask} \cup Fresh :
        LET kept == CredentialRule(sent, EffectiveKerb(override, env))
        IN  /\ override' = IF kept = Blank THEN override ELSE [override EXCEPT !.kerb = kept]
            /\ meant' = IF sent \in Fresh THEN [meant EXCEPT !.kerb = sent] ELSE meant
            /\ Uses(sent)
            /\ UNCHANGED <<env, panels>>

\* unmask_assistant_patch: a mask keeps the stored key, but one that is the
\* environment's is not copied.
UnmaskKey == IF EffectiveKey(override, env) \in {Blank, env} THEN Omit ELSE EffectiveKey(override, env)

\* Where no assistant section is stored the sent one is taken as it is, null included.
MergeKey(sent) ==
    CASE sent = Omit -> IF override.key = NoKeys THEN Unset ELSE override.key
      [] sent = Null -> IF override.key = NoKeys THEN Null ELSE Unset
      [] OTHER -> sent

PutKey ==
    \E sent \in {Omit, Null, Mask} \cup Fresh :
        /\ override' = [override EXCEPT !.key = MergeKey(IF sent = Mask THEN UnmaskKey ELSE sent)]
        /\ meant' = [meant EXCEPT !.key = IF sent \in Fresh THEN sent
                                          ELSE IF sent = Null THEN Unset ELSE @]
        /\ Uses(sent)
        /\ UNCHANGED <<env, panels>>

\* DELETE: nothing is stored.
ResetAll ==
    /\ override' = [rides |-> NoList, kerb |-> Unset, key |-> NoKeys]
    /\ meant' = [rides |-> [p \in YamlIds |-> env], kerb |-> env, key |-> Unset]
    /\ UNCHANGED <<env, panels, typedIn>>

\* The process starts with another environment.  What was never stored follows it.
NewEnvironment ==
    /\ env[2] < MaxRotations
    /\ env' = Env(env[2] + 1)
    /\ meant' = [meant EXCEPT !.rides = IF override.rides = NoList THEN [p \in YamlIds |-> env'] ELSE @,
                              !.kerb = IF override.kerb = Unset THEN env' ELSE @]
    /\ UNCHANGED <<override, panels, typedIn>>

SecretNext == (\E a \in Editors : OpenPanel(a) \/ PutRides(a)) \/ PutKerb \/ PutKey \/ ResetAll \/ NewEnvironment
SecretSpec == SecretInit /\ [][SecretNext]_secrets

(***************************************************************************)
(* build_handoff: a link that needs a secret the city lacks is not made.   *)
(***************************************************************************)
Handoff(p) == LET known == EffectiveRides(override, env)
              IN  IF p \notin DOMAIN known \/ known[p] = Blank THEN Fallback ELSE known[p]

\* Whatever stale panels editors send back, each secret in force is the one last
\* typed for it, none where it was cleared, or the one it had when it was last
\* listed: no mask is ever stored, no other provider's secret moves, and the key
\* of the environment, which an unset key follows, is never stored.  (ondemand.py:73,
\* admin_config.py:793.  A null stored for want of a section blanks the key.)
SecretsKept ==
    /\ EffectiveRides(override, env) = meant.rides
    /\ EffectiveKerb(override, env) = meant.kerb
    /\ override.key = Null \/ EffectiveKey(override, env) = IF meant.key = Unset THEN env ELSE meant.key
    /\ override.key[1] # "env"
    /\ \A p \in RideIds : Handoff(p) # Mask
=============================================================================
