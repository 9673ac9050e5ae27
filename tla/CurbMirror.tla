------------------------------ MODULE CurbMirror ------------------------------
(***************************************************************************)
(* The curbs of one city (app/openmobility.py, its router and              *)
(* _open_mobility_loop of app/main.py) mirrored from PIM, the city's API,  *)
(* which publishes two layers: policies, and curb zones that refer to      *)
(* them.  A request names the etag of what was fetched last and is         *)
(* answered 304 if the layer still is that.  The operator loads documents  *)
(* and deletes zones.                                                      *)
(*                                                                         *)
(* A step ends at an await.  A transaction is a step, and so is each of    *)
(* the reads of PgOpenMobilityStore.curbs, which are not in one.  An etag  *)
(* is the layer it stands for; of a policy the model knows whether its     *)
(* rule is the placeholder, and of a zone its policies.                    *)
(***************************************************************************)
EXTENDS Integers, FiniteSets

CONSTANTS
    Zones, Policies,    \* ids
    Rules,              \* what policies say
    Placeholder,        \* what the placeholder says
    NotModified, None,  \* a 304; no etag, nothing fetched
    PolicyLayers,       \* the layers PIM may publish: rules by policy ...
    CurbLayers,         \* ... and sets of policies by zone
    Documents,          \* what the operator may load: [zones, policies]
    Admins,             \* requests of the operator
    Overlap,            \* a request may begin while another or a refresh is under way
    MaxPublished, MaxEdits, MaxFailures     \* bounds on a behaviour

\* The rows of f in place of g's, and the others of g.
Over(f, g) == [x \in DOMAIN f \cup DOMAIN g |-> IF x \in DOMAIN f THEN f[x] ELSE g[x]]

PartialFunctions(S, T) == UNION {[R -> T] : R \in SUBSET S}
CurbLayer == PartialFunctions(Zones, SUBSET Policies)
PolicyLayer == PartialFunctions(Policies, Rules)

ASSUME ConstantsDistinct ==
    /\ Placeholder \notin Rules /\ "loop" \notin Admins
    /\ {NotModified, None} \cap (CurbLayer \cup PolicyLayer) = {} /\ NotModified # None
ASSUME LayersAssumption == PolicyLayers \subseteq PolicyLayer /\ CurbLayers \subseteq CurbLayer
ASSUME DocumentsAssumption == Documents \subseteq [zones : CurbLayer, policies : PolicyLayer]
ASSUME BoundsAssumption == Overlap \in BOOLEAN /\ {MaxPublished, MaxEdits, MaxFailures} \subseteq Nat

VARIABLES
    pim,        \* what PIM publishes: [policies, curbs]
    zones,      \* curb_zone: the policies of each zone
    policies,   \* curb_policy: the rule of each policy
    etags,      \* the process's, of each layer
    at,         \* where the loop and each request are
    got,        \* the answers to the loop's two requests
    read,       \* the zones it read
    plan,       \* what each will store
    replace,    \* whether in place of what is there
    \* history and bounds:
    spoiled,    \* layers stored otherwise than their etag says: edited, or not stored
    published, edits, failures

Writers == {"loop"} \cup Admins
Layers == {"policies", "curbs"}
Nothing == [zones |-> <<>>, policies |-> <<>>]
\* What the loop holds while it refreshes; a request writes "plan" alone.
loopVars == <<etags, got, read>>
storeVars == <<zones, policies>>
bounds == <<published, edits, failures>>
vars == <<pim, storeVars, loopVars, at, plan, replace, spoiled, bounds>>

Resting == \A w \in Writers : at[w] = "idle"
MayStart(w) == at[w] = "idle" /\ (Overlap \/ Resting)
Goto(w, place) == at' = [at EXCEPT ![w] = place]

-----------------------------------------------------------------------------
Publish ==
    /\ published < MaxPublished /\ published' = published + 1
    /\ \/ \E l \in PolicyLayers : pim' = [pim EXCEPT !.policies = l]
       \/ \E l \in CurbLayers : pim' = [pim EXCEPT !.curbs = l]
    /\ UNCHANGED <<storeVars, loopVars, at, plan, replace, spoiled, edits, failures>>

\* PimClient.layer.
Answer(layer) == IF etags[layer] = pim[layer] THEN NotModified ELSE pim[layer]

(* refresh_from_pim.                                                       *)

GetPolicies ==
    /\ MayStart("loop")
    /\ got' = [policies |-> Answer("policies"), curbs |-> None]
    /\ Goto("loop", "curbs")
    /\ UNCHANGED <<pim, storeVars, etags, read, plan, replace, spoiled, bounds>>

\* Two 304s are the end of it.
GetCurbs ==
    /\ at["loop"] = "curbs"
    /\ IF got.policies = NotModified /\ Answer("curbs") = NotModified
       THEN got' = [l \in Layers |-> None] /\ Goto("loop", "idle")
       ELSE got' = [got EXCEPT !.curbs = Answer("curbs")] /\ Goto("loop", "zones")
    /\ UNCHANGED <<pim, storeVars, etags, read, plan, replace, spoiled, bounds>>

ReadZones ==
    /\ at["loop"] = "zones"
    /\ read' = zones
    /\ Goto("loop", "policies")
    /\ UNCHANGED <<pim, storeVars, etags, got, plan, replace, spoiled, bounds>>

Fetched(layer) == got[layer] # NotModified
Referenced(zs) == UNION {zs[z] : z \in DOMAIN zs}

\* PIM's word beats a placeholder or a stale copy.
Known == IF Fetched("policies") THEN Over(got.policies, policies) ELSE policies

\* Mutant: none.
PlaceholdersNever(zs) == <<>>

Placeholders(zs) == [p \in Referenced(zs) \ DOMAIN Known |-> Placeholder]

\* Only what a zone refers to is kept.
Kept(zs, byId) == [p \in DOMAIN byId \cap Referenced(zs) |-> byId[p]]

Inventory ==
    IF Fetched("curbs")
    THEN [zones |-> got.curbs, policies |-> Kept(got.curbs, Over(Placeholders(got.curbs), Known))]
    ELSE [zones |-> read, policies |-> Kept(read, Known)]

\* Mutant: the etag is asked for when both layers have been read.
EtagsAskedLater == [l \in Layers |-> pim[l]]

Etags == [l \in Layers |-> IF Fetched(l) THEN got[l] ELSE etags[l]]

\* The second read, and everything up to the transaction: the etags move before it.
ReadPolicies ==
    /\ at["loop"] = "policies"
    /\ plan' = [plan EXCEPT !["loop"] = Inventory]
    /\ replace' = [replace EXCEPT !["loop"] = TRUE]
    /\ etags' = Etags
    /\ Goto("loop", "put")
    /\ UNCHANGED <<pim, storeVars, got, read, spoiled, bounds>>

-----------------------------------------------------------------------------
(* The operator.                                                           *)

Edit == edits < MaxEdits /\ edits' = edits + 1

Unknown(zs, known) == ~ Referenced(zs) \subseteq known

\* put_curbs: with replace, the document is checked and stored without a look
\* at what is there.
StartPut(a) ==
    /\ MayStart(a) /\ Edit
    /\ \E d \in Documents, r \in BOOLEAN :
          /\ r => ~Unknown(d.zones, DOMAIN d.policies)
          /\ plan' = [plan EXCEPT ![a] = d]
          /\ replace' = [replace EXCEPT ![a] = r]
          /\ Goto(a, IF r THEN "put" ELSE "known")
    /\ UNCHANGED <<pim, storeVars, loopVars, spoiled, published, failures>>

ReadKnown(a) ==
    /\ at[a] = "known"
    /\ IF Unknown(plan[a].zones, DOMAIN plan[a].policies \cup DOMAIN policies)
       THEN Goto(a, "idle") /\ plan' = [plan EXCEPT ![a] = Nothing]
       ELSE Goto(a, "put") /\ UNCHANGED plan
    /\ UNCHANGED <<pim, storeVars, loopVars, replace, spoiled, bounds>>

DeleteZone(a) ==
    /\ MayStart(a) /\ Edit
    /\ \E z \in DOMAIN zones : zones' = [y \in DOMAIN zones \ {z} |-> zones[y]]
    /\ spoiled' = Layers
    /\ UNCHANGED <<pim, policies, loopVars, at, plan, replace, published, failures>>

Clear(a) ==
    /\ MayStart(a) /\ Edit
    /\ zones' = <<>> /\ policies' = <<>>
    /\ spoiled' = Layers
    /\ UNCHANGED <<pim, loopVars, at, plan, replace, published, failures>>

-----------------------------------------------------------------------------
\* Mutant: without a DELETE.
OldRowsKept(w, old) == old

OldRows(w, old) == IF replace[w] THEN <<>> ELSE old

Done(w) ==
    /\ Goto(w, "idle")
    /\ plan' = [plan EXCEPT ![w] = Nothing]
    /\ IF w = "loop" THEN got' = [l \in Layers |-> None] /\ read' = <<>> ELSE UNCHANGED <<got, read>>

FetchedLayers == {l \in Layers : Fetched(l)}

\* PgOpenMobilityStore.put_curbs.
Put(w) ==
    /\ at[w] = "put"
    /\ zones' = Over(plan[w].zones, OldRows(w, zones))
    /\ policies' = Over(plan[w].policies, OldRows(w, policies))
    /\ spoiled' = IF w = "loop" THEN spoiled \ FetchedLayers ELSE Layers
    /\ Done(w)
    /\ UNCHANGED <<pim, etags, replace, bounds>>

\* A request or a statement fails; the etags stay.
Fail(w) ==
    /\ at[w] # "idle" /\ failures < MaxFailures /\ failures' = failures + 1
    /\ spoiled' = IF w = "loop" /\ at[w] = "put" THEN spoiled \cup FetchedLayers ELSE spoiled
    /\ Done(w)
    /\ UNCHANGED <<pim, storeVars, etags, replace, published, edits>>

Restart ==
    /\ failures < MaxFailures /\ failures' = failures + 1
    /\ etags' = [l \in Layers |-> None]
    /\ at' = [w \in Writers |-> "idle"] /\ plan' = [w \in Writers |-> Nothing]
    /\ got' = [l \in Layers |-> None] /\ read' = <<>>
    /\ spoiled' = {}
    /\ UNCHANGED <<pim, storeVars, replace, published, edits>>

Init ==
    /\ pim \in [policies : PolicyLayers, curbs : CurbLayers]
    /\ zones = <<>> /\ policies = <<>>
    /\ etags = [l \in Layers |-> None] /\ got = [l \in Layers |-> None] /\ read = <<>>
    /\ at = [w \in Writers |-> "idle"] /\ plan = [w \in Writers |-> Nothing]
    /\ replace = [w \in Writers |-> TRUE]
    /\ spoiled = {} /\ published = 0 /\ edits = 0 /\ failures = 0

Refresh == GetPolicies \/ GetCurbs \/ ReadZones \/ ReadPolicies \/ Put("loop")
Request(a) == StartPut(a) \/ ReadKnown(a) \/ DeleteZone(a) \/ Clear(a) \/ Put(a)
Next == \/ Publish \/ Refresh \/ Restart
        \/ \E a \in Admins : Request(a)
        \/ \E w \in Writers : Fail(w)

Spec == Init /\ [][Next]_vars
\* The loop comes round, and what has begun goes on.
FairSpec == /\ Spec
            /\ SF_vars(Refresh)
            /\ \A a \in Admins : WF_vars(ReadKnown(a) \/ Put(a))

-----------------------------------------------------------------------------
(* Properties.                                                             *)

\* openmobility.py:1122, "so every id a kerb references resolves": a stored
\* zone has its policies, whatever changed or failed between any two steps.
Resolved == Referenced(zones) \subseteq DOMAIN policies

\* Rows say what a layer says, or that it is not known.
Agree(layer, rows) == \A p \in DOMAIN layer \cap DOMAIN rows : rows[p] \in {layer[p], Placeholder}

CurbsHonest == etags.curbs # None /\ "curbs" \notin spoiled => zones = etags.curbs
PoliciesHonest == etags.policies # None /\ "policies" \notin spoiled => Agree(etags.policies, policies)

\* "an unchanged layer is a 304 and nothing is rewritten" (:1125) is right only
\* if what is stored is what the etag stands for: the zones exactly, and of a
\* policy at worst the placeholder - unless an operator edited it, or that layer
\* failed to be stored.
EtagsHonest == at["loop"] # "put" => CurbsHonest /\ PoliciesHonest

\* A layer of zones that stays published is stored in the end, whatever fails
\* to be fetched and whenever the process restarts - unless it was fetched and
\* failed to be stored, or an operator edits it.
Mirrored ==
    \A c \in CurbLayers :
        (pim.curbs = c) ~> (zones = c \/ pim.curbs # c \/ "curbs" \in spoiled)

\* API.md:343, "with a placeholder only for a policy id PIM does not describe".
PlaceholderOnlyUnknown ==
    Resting /\ spoiled = {} /\ etags.policies # None =>
        \A p \in DOMAIN policies : policies[p] = Placeholder => p \notin DOMAIN etags.policies

=============================================================================
