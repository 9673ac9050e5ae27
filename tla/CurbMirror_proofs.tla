-------------------------- MODULE CurbMirror_proofs --------------------------
(***************************************************************************)
(* CurbMirror: while requests and refreshes take turns, every policy a     *)
(* stored zone refers to is stored, for any layers PIM publishes and any   *)
(* documents the operator loads; and an etag stands for what is stored.    *)
(*                                                                         *)
(* Resolved alone is not inductive: a transaction writes what its writer   *)
(* computed earlier.  PlanSound says that it will refer to nothing that is *)
(* neither in it nor still stored then, which Alone keeps.  EtagsHonest    *)
(* needs the same of what is planned while the etags have moved already.   *)
(***************************************************************************)
EXTENDS CurbMirror, TLAPS

Places ==
    /\ DOMAIN at = Writers /\ DOMAIN plan = Writers /\ DOMAIN replace = Writers
    /\ at["loop"] # "known"
    /\ at["loop"] = "put" => replace["loop"]
    /\ \A w \in Writers : at[w] = "known" => ~replace[w]

\* Whoever is under way is alone.
Alone == \A w, v \in Writers : at[w] # "idle" /\ at[v] # "idle" => w = v

\* What the loop has read is still so.
ReadCurrent == at["loop"] = "policies" => read = zones

PlanSound ==
    \A w \in Writers :
        at[w] = "put" => Referenced(plan[w].zones) \subseteq
                            DOMAIN plan[w].policies \cup (IF replace[w] THEN {} ELSE DOMAIN policies)

ResolvedInv == Places /\ Alone /\ ReadCurrent /\ PlanSound /\ Resolved

-----------------------------------------------------------------------------
\* Rows laid over others have the ids of both, and refer to what either does.
LEMMA OverDomain == \A f, g : DOMAIN Over(f, g) = DOMAIN f \cup DOMAIN g
  BY DEF Over

LEMMA OverReferenced == \A f, g : Referenced(Over(f, g)) \subseteq Referenced(f) \cup Referenced(g)
  BY DEF Over, Referenced

LEMMA EmptyReferenced == DOMAIN <<>> = {} /\ Referenced(<<>>) = {}
  BY DEF Referenced

\* What the loop is about to store resolves by itself: what is not known gets a
\* placeholder, and the zones it read have their policies.
LEMMA InventorySound ==
    ASSUME Resolved, read = zones
    PROVE  Referenced(Inventory.zones) \subseteq DOMAIN Inventory.policies
<1>1. CASE Fetched("curbs")
  <2> DEFINE byId == Over(Placeholders(got.curbs), Known)
  <2>1. Inventory.zones = got.curbs /\ Inventory.policies = Kept(got.curbs, byId)
    BY <1>1 DEF Inventory
  <2>2. DOMAIN byId = (Referenced(got.curbs) \ DOMAIN Known) \cup DOMAIN Known
    <3>1. DOMAIN Placeholders(got.curbs) = Referenced(got.curbs) \ DOMAIN Known
      BY DEF Placeholders
    <3>2. DOMAIN byId = DOMAIN Placeholders(got.curbs) \cup DOMAIN Known
      BY OverDomain
    <3> QED BY <3>1, <3>2
  <2>3. DOMAIN Kept(got.curbs, byId) = DOMAIN byId \cap Referenced(got.curbs)
    BY DEF Kept
  <2> QED BY <2>1, <2>2, <2>3
<1>2. CASE ~Fetched("curbs")
  <2>1. Inventory.zones = zones /\ Inventory.policies = Kept(zones, Known)
    BY <1>2 DEF Inventory
  <2>2. DOMAIN policies \subseteq DOMAIN Known
    BY OverDomain DEF Known
  <2>3. DOMAIN Kept(zones, Known) = DOMAIN Known \cap Referenced(zones)
    BY DEF Kept
  <2> QED BY <2>1, <2>2, <2>3 DEF Resolved
<1> QED BY <1>1, <1>2

LEMMA ResolvedInit == Init => ResolvedInv
<1> SUFFICES ASSUME Init PROVE ResolvedInv
  OBVIOUS
<1>1. Places /\ Alone /\ ReadCurrent /\ PlanSound
  BY DEF Init, Places, Alone, ReadCurrent, PlanSound, Writers
<1>2. Resolved
  BY EmptyReferenced DEF Init, Resolved
<1> QED BY <1>1, <1>2 DEF ResolvedInv

-----------------------------------------------------------------------------
\* Each of the loop's own steps.
LEMMA LoopStep ==
    ASSUME ~Overlap, ResolvedInv, GetPolicies \/ GetCurbs \/ ReadZones \/ ReadPolicies
    PROVE  ResolvedInv'
<1> USE DEF ResolvedInv, Writers
<1>1. UNCHANGED <<zones, policies>>
  BY DEF GetPolicies, GetCurbs, ReadZones, ReadPolicies, storeVars
<1>2. Alone' /\ \A w \in Writers \ {"loop"} : at'[w] = "idle"
  <2>1. \A w \in Writers \ {"loop"} : at[w] = "idle"
    BY DEF GetPolicies, GetCurbs, ReadZones, ReadPolicies, MayStart, Resting, Alone
  <2>2. \E p : at' = [at EXCEPT !["loop"] = p]
    BY DEF GetPolicies, GetCurbs, ReadZones, ReadPolicies, Goto
  <2> QED BY <2>1, <2>2 DEF Alone, Places
<1>3. Resolved'
  BY <1>1 DEF Resolved, Referenced
<1>4. Places' /\ ReadCurrent' /\ PlanSound'
  <2>1. CASE GetPolicies
    BY <2>1, <1>2, ConstantsDistinct DEF GetPolicies, Goto, Places, ReadCurrent, PlanSound
  <2>2. CASE GetCurbs
    BY <2>2, <1>2, ConstantsDistinct DEF GetCurbs, Goto, Places, ReadCurrent, PlanSound
  <2>3. CASE ReadZones
    BY <2>3, <1>2, ConstantsDistinct DEF ReadZones, Goto, Places, ReadCurrent, PlanSound, storeVars
  <2>4. CASE ReadPolicies
    <3>1. Referenced(Inventory.zones) \subseteq DOMAIN Inventory.policies
      BY <2>4, InventorySound DEF ReadPolicies, ReadCurrent
    <3>2. /\ at' = [at EXCEPT !["loop"] = "put"] /\ plan' = [plan EXCEPT !["loop"] = Inventory]
          /\ replace' = [replace EXCEPT !["loop"] = TRUE]
      BY <2>4 DEF ReadPolicies, Goto
    <3>3. Places' /\ ReadCurrent'
      BY <3>2, <1>2, ConstantsDistinct DEF Places, ReadCurrent
    <3>4. plan'["loop"] = Inventory /\ replace'["loop"]
      BY <3>2 DEF Places
    <3>5. PlanSound'
      BY <3>1, <3>4, <1>2 DEF PlanSound
    <3> QED BY <3>3, <3>5
  <2> QED BY <2>1, <2>2, <2>3, <2>4
<1> QED BY <1>2, <1>3, <1>4

\* A transaction writes what was sound to write.
LEMMA PutStep ==
    ASSUME ~Overlap, ResolvedInv, NEW w \in Writers, Put(w)
    PROVE  ResolvedInv'
<1> USE DEF ResolvedInv
<1>1. /\ at[w] = "put" /\ at' = [at EXCEPT ![w] = "idle"] /\ plan' = [plan EXCEPT ![w] = Nothing]
      /\ replace' = replace
  BY DEF Put, Done, Goto
<1>2. \A v \in Writers : at'[v] = "idle"
  BY <1>1 DEF Alone, Places
<1>3. Resolved'
  <2>1. /\ DOMAIN policies' = DOMAIN plan[w].policies \cup DOMAIN OldRows(w, policies)
        /\ Referenced(zones') \subseteq Referenced(plan[w].zones) \cup Referenced(OldRows(w, zones))
    BY OverDomain, OverReferenced DEF Put
  <2>2. Referenced(OldRows(w, zones)) \subseteq DOMAIN OldRows(w, policies)
    BY EmptyReferenced DEF OldRows, Resolved
  <2>3. DOMAIN OldRows(w, policies) = IF replace[w] THEN {} ELSE DOMAIN policies
    BY EmptyReferenced DEF OldRows
  <2>4. Referenced(plan[w].zones) \subseteq DOMAIN plan[w].policies \cup DOMAIN OldRows(w, policies)
    BY <1>1, <2>3 DEF PlanSound
  <2>5. Referenced(zones') \subseteq DOMAIN policies'
    BY <2>1, <2>2, <2>4
  <2> QED BY <2>5 DEF Resolved, Referenced
<1>4. Places' /\ Alone' /\ ReadCurrent' /\ PlanSound'
  BY <1>1, <1>2 DEF Places, Alone, ReadCurrent, PlanSound, Writers
<1> QED BY <1>3, <1>4

\* Each step of a request before its transaction.
LEMMA RequestStep ==
    ASSUME ~Overlap, ResolvedInv, NEW a \in Admins,
           StartPut(a) \/ ReadKnown(a) \/ DeleteZone(a) \/ Clear(a)
    PROVE  ResolvedInv'
<1> USE DEF ResolvedInv
<1>1. a \in Writers /\ a # "loop" /\ "loop" \in Writers
  BY ConstantsDistinct DEF Writers
<1>2. \A w \in Writers \ {a} : at[w] = "idle"
  BY <1>1 DEF StartPut, ReadKnown, DeleteZone, Clear, MayStart, Resting, Alone
<1>3. CASE StartPut(a)
  <2>1. /\ UNCHANGED <<zones, policies, read>>
        /\ \E d \in Documents, r \in BOOLEAN :
              /\ r => Referenced(d.zones) \subseteq DOMAIN d.policies
              /\ plan' = [plan EXCEPT ![a] = d] /\ replace' = [replace EXCEPT ![a] = r]
              /\ at' = [at EXCEPT ![a] = IF r THEN "put" ELSE "known"]
    BY <1>3 DEF StartPut, Goto, Unknown, storeVars, loopVars
  <2>2. PICK d \in Documents, r \in BOOLEAN :
              /\ r => Referenced(d.zones) \subseteq DOMAIN d.policies
              /\ plan' = [plan EXCEPT ![a] = d] /\ replace' = [replace EXCEPT ![a] = r]
              /\ at' = [at EXCEPT ![a] = IF r THEN "put" ELSE "known"]
    BY <2>1
  <2>3. Places' /\ Alone' /\ ReadCurrent'
    BY <1>1, <1>2, <2>2 DEF Places, Alone, ReadCurrent
  <2>4. plan'[a] = d /\ replace'[a] = r /\ at'[a] = (IF r THEN "put" ELSE "known")
    BY <1>1, <2>2 DEF Places
  <2>5. \A w \in Writers \ {a} : at'[w] = "idle"
    BY <1>2, <2>2 DEF Places
  <2>6. PlanSound'
    BY <2>2, <2>4, <2>5 DEF PlanSound
  <2>7. Resolved'
    BY <2>1 DEF Resolved, Referenced
  <2> QED BY <2>3, <2>6, <2>7
<1>4. CASE ReadKnown(a)
  <2>1. UNCHANGED <<zones, policies, read, replace>> /\ at[a] = "known" /\ ~replace[a]
    BY <1>1, <1>4 DEF ReadKnown, storeVars, loopVars, Places
  <2>2. Resolved'
    BY <2>1 DEF Resolved, Referenced
  <2>3. CASE Unknown(plan[a].zones, DOMAIN plan[a].policies \cup DOMAIN policies)
    <3>1. at' = [at EXCEPT ![a] = "idle"] /\ plan' = [plan EXCEPT ![a] = Nothing]
      BY <1>4, <2>3 DEF ReadKnown, Goto
    <3> QED BY <1>1, <1>2, <2>1, <2>2, <3>1 DEF Places, Alone, ReadCurrent, PlanSound
  <2>4. CASE ~Unknown(plan[a].zones, DOMAIN plan[a].policies \cup DOMAIN policies)
    <3>1. at' = [at EXCEPT ![a] = "put"] /\ plan' = plan
      BY <1>4, <2>4 DEF ReadKnown, Goto
    <3>2. Referenced(plan[a].zones) \subseteq DOMAIN plan[a].policies \cup DOMAIN policies
      BY <2>4 DEF Unknown
    <3>3. PlanSound'
      BY <1>2, <2>1, <3>1, <3>2 DEF PlanSound, Places
    <3>4. Places' /\ Alone' /\ ReadCurrent'
      BY <1>1, <1>2, <2>1, <3>1 DEF Places, Alone, ReadCurrent
    <3> QED BY <2>2, <3>3, <3>4
  <2> QED BY <2>3, <2>4
<1>5. CASE DeleteZone(a) \/ Clear(a)
  <2>1. UNCHANGED <<at, plan, replace>> /\ \A w \in Writers : at[w] = "idle"
    BY <1>2, <1>5 DEF DeleteZone, Clear, MayStart
  <2>2. CASE DeleteZone(a)
    <3>1. PICK z \in DOMAIN zones : zones' = [y \in DOMAIN zones \ {z} |-> zones[y]]
      BY <2>2 DEF DeleteZone
    <3>2. Referenced(zones') \subseteq Referenced(zones) /\ policies' = policies
      BY <2>2, <3>1 DEF DeleteZone, Referenced
    <3> QED BY <1>1, <2>1, <3>2 DEF Places, Alone, ReadCurrent, PlanSound, Resolved, Referenced
  <2>3. CASE Clear(a)
    <3>1. zones' = <<>> /\ policies' = <<>>
      BY <2>3 DEF Clear
    <3>2. Resolved'
      BY <3>1, EmptyReferenced DEF Resolved, Referenced
    <3> QED BY <1>1, <2>1, <3>2 DEF Places, Alone, ReadCurrent, PlanSound
  <2> QED BY <1>5, <2>2, <2>3
<1> QED BY <1>3, <1>4, <1>5

\* Failures and restarts end what was under way and store nothing; what PIM
\* publishes touches nothing here.
LEMMA OutsideStep ==
    ASSUME ResolvedInv, Publish \/ Restart \/ (\E w \in Writers : Fail(w)) \/ UNCHANGED vars
    PROVE  ResolvedInv'
<1> USE DEF ResolvedInv, Writers
<1>1. UNCHANGED <<zones, policies>>
  BY DEF Publish, Restart, Fail, vars, storeVars
<1>2. Resolved'
  BY <1>1 DEF Resolved, Referenced
<1>3. CASE Publish \/ UNCHANGED vars
  <2>1. UNCHANGED <<at, plan, replace, read>>
    BY <1>3 DEF Publish, vars, loopVars
  <2> QED BY <1>1, <1>2, <2>1 DEF Places, Alone, ReadCurrent, PlanSound
<1>4. CASE Restart
  <2>1. /\ at' = [w \in Writers |-> "idle"] /\ plan' = [w \in Writers |-> Nothing] /\ replace' = replace
    BY <1>4 DEF Restart
  <2> QED BY <1>2, <2>1 DEF Places, Alone, ReadCurrent, PlanSound
<1>5. ASSUME NEW w \in Writers, Fail(w) PROVE ResolvedInv'
  <2>1. /\ at' = [at EXCEPT ![w] = "idle"] /\ plan' = [plan EXCEPT ![w] = Nothing] /\ replace' = replace
        /\ w # "loop" => read' = read
    BY <1>5 DEF Fail, Done, Goto
  <2>2. Places' /\ Alone' /\ ReadCurrent'
    BY <1>1, <2>1 DEF Places, Alone, ReadCurrent
  <2>3. PlanSound'
    BY <1>1, <2>1 DEF PlanSound, Places
  <2> QED BY <1>2, <2>2, <2>3
<1> QED BY <1>3, <1>4, <1>5

LEMMA ResolvedStep == ~Overlap /\ ResolvedInv /\ [Next]_vars => ResolvedInv'
<1> SUFFICES ASSUME ~Overlap, ResolvedInv, [Next]_vars PROVE ResolvedInv'
  OBVIOUS
<1>1. CASE Refresh
  BY <1>1, LoopStep, PutStep DEF Refresh, Writers
<1>2. ASSUME NEW a \in Admins, Request(a) PROVE ResolvedInv'
  BY <1>2, RequestStep, PutStep DEF Request, Writers
<1>3. CASE Publish \/ Restart \/ (\E w \in Writers : Fail(w)) \/ UNCHANGED vars
  BY <1>3, OutsideStep
<1> QED BY <1>1, <1>2, <1>3 DEF Next

\* While refreshes and requests take turns, every policy a stored zone refers to
\* is stored: openmobility.py:1122, "every id a kerb references resolves".
THEOREM ResolvedCorrect == ~Overlap => (Spec => []Resolved)
<1> SUFFICES ASSUME ~Overlap PROVE Spec => []Resolved
  OBVIOUS
<1>1. ResolvedInv /\ [Next]_vars => ResolvedInv'
  BY ResolvedStep
<1>2. ResolvedInv => Resolved
  BY DEF ResolvedInv
<1> QED BY <1>1, <1>2, ResolvedInit, PTL DEF Spec

-----------------------------------------------------------------------------
\* What the loop is about to store, with the etags already moved: what it fetched
\* is what the etag stands for, and what it did not is as it was.
Prepared ==
    /\ IF Fetched("curbs") THEN etags.curbs = got.curbs /\ plan["loop"].zones = got.curbs
                           ELSE CurbsHonest /\ plan["loop"].zones = zones
    /\ IF Fetched("policies")
       THEN etags.policies = got.policies /\ Agree(got.policies, plan["loop"].policies)
       ELSE /\ PoliciesHonest
            /\ etags.policies # None /\ "policies" \notin spoiled =>
                  Agree(etags.policies, plan["loop"].policies)

Rows(f) == f = [x \in DOMAIN f |-> f[x]]

HonestInv ==
    /\ ResolvedInv
    /\ DOMAIN etags = Layers /\ DOMAIN got = Layers
    /\ pim \in [policies : PolicyLayers, curbs : CurbLayers]
    /\ Rows(zones)
    /\ at["loop"] \in {"zones", "policies", "put"} /\ Fetched("curbs") => Rows(got.curbs)
    /\ IF at["loop"] = "put" THEN Prepared ELSE CurbsHonest /\ PoliciesHonest

LEMMA LayersAreRows == \A c \in CurbLayers : Rows(c)
<1> SUFFICES ASSUME NEW c \in CurbLayers PROVE Rows(c)
  OBVIOUS
<1>1. PICK R \in SUBSET Zones : c \in [R -> SUBSET Policies]
  BY LayersAssumption DEF CurbLayer, PartialFunctions
<1> QED BY <1>1 DEF Rows

LEMMA OverNothing == \A f : Rows(f) => Over(f, <<>>) = f
<1> SUFFICES ASSUME NEW f, Rows(f) PROVE Over(f, <<>>) = f
  OBVIOUS
<1>1. Over(f, <<>>) = [x \in DOMAIN f |-> f[x]]
  BY EmptyReferenced DEF Over
<1> QED BY <1>1 DEF Rows

LEMMA OverRows == \A f, g : Rows(Over(f, g))
  BY DEF Over, Rows

LEMMA HonestInitial == Init => HonestInv
<1> SUFFICES ASSUME Init PROVE HonestInv
  OBVIOUS
<1>1. Rows(zones)
  BY DEF Init, Rows
<1> QED BY <1>1, ResolvedInit DEF Init, HonestInv, CurbsHonest, PoliciesHonest, Layers, Writers

-----------------------------------------------------------------------------
\* The rows the loop plans agree with the policies it fetched; or, when it fetched
\* none, with whatever those stored agree with.
LEMMA InventoryAgrees ==
    /\ Fetched("policies") => Agree(got.policies, Inventory.policies)
    /\ ~Fetched("policies") =>
          \A layer : Agree(layer, policies) => Agree(layer, Inventory.policies)
<1> DEFINE byId == IF Fetched("curbs") THEN Over(Placeholders(got.curbs), Known) ELSE Known
           zs == IF Fetched("curbs") THEN got.curbs ELSE read
<1>1. Inventory.policies = Kept(zs, byId)
  BY DEF Inventory
<1>2. \A p \in DOMAIN Inventory.policies : p \in DOMAIN byId /\ Inventory.policies[p] = byId[p]
  BY <1>1 DEF Kept
<1>3. \A p \in DOMAIN byId : byId[p] = Placeholder \/ (p \in DOMAIN Known /\ byId[p] = Known[p])
  BY DEF Over, Placeholders
<1>4. \A p \in DOMAIN Known : p \in DOMAIN byId => byId[p] = Known[p]
  BY DEF Over, Placeholders
<1> HIDE DEF byId, zs
<1>5. ASSUME Fetched("policies") PROVE Agree(got.policies, Inventory.policies)
  <2>1. Known = Over(got.policies, policies)
    BY <1>5 DEF Known
  <2>2. \A p \in DOMAIN got.policies : p \in DOMAIN Known /\ Known[p] = got.policies[p]
    BY <2>1 DEF Over
  <2> QED BY <1>2, <1>4, <2>2 DEF Agree
<1>6. ASSUME ~Fetched("policies"), NEW layer, Agree(layer, policies) PROVE Agree(layer, Inventory.policies)
  <2>1. Known = policies
    BY <1>6 DEF Known
  <2> QED BY <1>2, <1>3, <1>6, <2>1 DEF Agree
<1> QED BY <1>5, <1>6

LEMMA HonestLoopStep ==
    ASSUME ~Overlap, HonestInv, ResolvedInv', GetPolicies \/ GetCurbs \/ ReadZones \/ ReadPolicies
    PROVE  HonestInv'
<1> USE DEF HonestInv
<1>2. Rows(zones)' /\ UNCHANGED <<pim, zones, policies, spoiled>>
  <2>1. UNCHANGED <<pim, zones, policies, spoiled>>
    BY DEF GetPolicies, GetCurbs, ReadZones, ReadPolicies, storeVars
  <2> QED BY <2>1 DEF Rows
<1>3. "loop" \in DOMAIN at /\ "loop" \in DOMAIN plan
  BY DEF ResolvedInv, Places, Writers
<1>4. CASE GetPolicies
  <2>1. at'["loop"] = "curbs" /\ etags' = etags /\ DOMAIN got' = Layers /\ at["loop"] = "idle"
    BY <1>3, <1>4 DEF GetPolicies, Goto, MayStart, Layers
  <2> QED BY <1>2, <2>1 DEF CurbsHonest, PoliciesHonest, Agree
<1>5. CASE GetCurbs
  <2>1. /\ at'["loop"] \in {"idle", "zones"} /\ etags' = etags /\ DOMAIN got' = Layers /\ at["loop"] = "curbs"
        /\ at'["loop"] = "zones" => got'.curbs = Answer("curbs")
    BY <1>3, <1>5 DEF GetCurbs, Goto, Layers
  <2>2. at'["loop"] = "zones" /\ Fetched("curbs")' => Rows(got.curbs)'
    BY <2>1, LayersAreRows DEF Answer, Fetched, Rows
  <2> QED BY <1>2, <2>1, <2>2 DEF CurbsHonest, PoliciesHonest, Agree
<1>6. CASE ReadZones
  <2>1. at'["loop"] = "policies" /\ UNCHANGED <<etags, got>> /\ at["loop"] = "zones"
    BY <1>3, <1>6 DEF ReadZones, Goto
  <2> QED BY <1>2, <2>1 DEF CurbsHonest, PoliciesHonest, Agree, Fetched, Rows
<1>7. CASE ReadPolicies
  <2>1. /\ at'["loop"] = "put" /\ UNCHANGED got /\ at["loop"] = "policies"
        /\ plan'["loop"] = Inventory /\ etags' = Etags
    BY <1>3, <1>7 DEF ReadPolicies, Goto
  <2>2. DOMAIN etags' = Layers /\ \A l \in Layers : etags'[l] = IF Fetched(l) THEN got[l] ELSE etags[l]
    BY <2>1 DEF Etags
  <2>3. read = zones
    BY <2>1 DEF ResolvedInv, ReadCurrent
  <2>4. Inventory.zones = IF Fetched("curbs") THEN got.curbs ELSE zones
    BY <2>3 DEF Inventory
  <2>5. CurbsHonest /\ PoliciesHonest
    BY <2>1
  <2>6. IF Fetched("curbs") THEN etags'.curbs = got.curbs /\ Inventory.zones = got.curbs
                            ELSE CurbsHonest' /\ Inventory.zones = zones
    BY <1>2, <2>2, <2>4, <2>5 DEF CurbsHonest, Layers
  <2>7. IF Fetched("policies")
        THEN etags'.policies = got.policies /\ Agree(got.policies, Inventory.policies)
        ELSE /\ PoliciesHonest'
             /\ etags'.policies # None /\ "policies" \notin spoiled => Agree(etags'.policies, Inventory.policies)
    <3>1. CASE Fetched("policies")
      BY <2>2, <3>1, InventoryAgrees DEF Layers
    <3>2. CASE ~Fetched("policies")
      <4>1. etags'.policies = etags.policies
        BY <2>2, <3>2 DEF Layers
      <4>2. PoliciesHonest'
        BY <1>2, <2>5, <4>1 DEF PoliciesHonest, Agree
      <4>3. etags.policies # None /\ "policies" \notin spoiled => Agree(etags.policies, Inventory.policies)
        BY <2>5, <3>2, InventoryAgrees DEF PoliciesHonest
      <4> QED BY <3>2, <4>1, <4>2, <4>3
    <3> QED BY <3>1, <3>2
  <2>8. Fetched("curbs") => Rows(got.curbs)'
    BY <2>1 DEF Rows
  <2>9. Prepared'
    BY <1>2, <2>1, <2>6, <2>7 DEF Prepared, Fetched, Agree
  <2> QED BY <1>2, <2>1, <2>2, <2>8, <2>9 DEF Fetched
<1> QED BY <1>4, <1>5, <1>6, <1>7

\* The transaction stores what was prepared; one that fails leaves the layers it
\* had fetched spoiled.
LEMMA HonestPut ==
    ASSUME ~Overlap, HonestInv, ResolvedInv', Put("loop")
    PROVE  HonestInv'
<1> USE DEF HonestInv
<1>1. /\ at["loop"] = "put" /\ at'["loop"] = "idle" /\ replace["loop"]
      /\ UNCHANGED <<pim, etags>> /\ DOMAIN got' = Layers
      /\ zones' = Over(plan["loop"].zones, <<>>) /\ policies' = Over(plan["loop"].policies, <<>>)
      /\ spoiled' = spoiled \ FetchedLayers
  BY DEF Put, Done, Goto, OldRows, ResolvedInv, Places, Writers
<1>2. Prepared
  BY <1>1
<1>3. Rows(plan["loop"].zones)
  BY <1>1, <1>2 DEF Prepared
<1>4. zones' = plan["loop"].zones /\ Rows(zones)'
  BY <1>1, <1>3, OverNothing DEF Rows
<1>5. \A layer : Agree(layer, plan["loop"].policies) => Agree(layer, policies')
  BY <1>1, EmptyReferenced DEF Over, Agree
<1>6. CurbsHonest'
  <2>1. CASE Fetched("curbs")
    BY <1>1, <1>2, <1>4, <2>1 DEF Prepared, CurbsHonest
  <2>2. CASE ~Fetched("curbs")
    <3>1. "curbs" \notin spoiled' => "curbs" \notin spoiled
      BY <1>1, <2>2 DEF FetchedLayers
    <3> QED BY <1>1, <1>2, <1>4, <2>2, <3>1 DEF Prepared, CurbsHonest
  <2> QED BY <2>1, <2>2
<1>7. PoliciesHonest'
  <2> SUFFICES ASSUME etags.policies # None, "policies" \notin spoiled' PROVE Agree(etags.policies, policies')
    BY <1>1 DEF PoliciesHonest, Agree
  <2>1. CASE Fetched("policies")
    BY <1>2, <1>5, <2>1 DEF Prepared
  <2>2. CASE ~Fetched("policies")
    <3>1. "policies" \notin spoiled
      BY <1>1, <2>2 DEF FetchedLayers
    <3> QED BY <1>2, <1>5, <2>2, <3>1 DEF Prepared
  <2> QED BY <2>1, <2>2
<1> QED BY <1>1, <1>4, <1>6, <1>7

LEMMA HonestFail ==
    ASSUME ~Overlap, HonestInv, ResolvedInv', NEW w \in Writers, Fail(w)
    PROVE  HonestInv'
<1> USE DEF HonestInv
<1>1. /\ UNCHANGED <<pim, zones, policies, etags>> /\ DOMAIN got' = Layers
      /\ at'["loop"] = "idle" /\ Rows(zones)'
  <2>1. at'["loop"] = "idle"
    BY DEF Fail, Done, Goto, ResolvedInv, Places, Alone, Writers
  <2> QED BY <2>1 DEF Fail, Done, storeVars, Rows
<1>2. CASE w = "loop" /\ at["loop"] = "put"
  <2>1. Prepared /\ spoiled' = spoiled \cup FetchedLayers
    BY <1>2 DEF Fail
  <2>2. CurbsHonest'
    BY <1>1, <2>1 DEF Prepared, CurbsHonest, FetchedLayers, Layers
  <2>3. PoliciesHonest'
    BY <1>1, <2>1 DEF Prepared, PoliciesHonest, Agree, FetchedLayers, Layers
  <2> QED BY <1>1, <2>2, <2>3
<1>3. CASE ~(w = "loop" /\ at["loop"] = "put")
  <2>1. spoiled' = spoiled /\ at["loop"] # "put"
    BY <1>3 DEF Fail, ResolvedInv, Alone, Writers
  <2> QED BY <1>1, <2>1 DEF CurbsHonest, PoliciesHonest, Agree
<1> QED BY <1>2, <1>3

\* What the operator does comes between two refreshes, and spoils both layers if it
\* stores anything.
LEMMA HonestRequest ==
    ASSUME ~Overlap, HonestInv, ResolvedInv', NEW a \in Admins, Request(a)
    PROVE  HonestInv'
<1> USE DEF HonestInv
<1>1. a \in Writers /\ a # "loop" /\ "loop" \in Writers /\ DOMAIN at = Writers
  BY ConstantsDistinct DEF Writers, ResolvedInv, Places
<1>2. at["loop"] = "idle" /\ at'["loop"] = "idle"
  <2>1. at["loop"] = "idle"
    BY <1>1 DEF Request, StartPut, ReadKnown, DeleteZone, Clear, Put, MayStart, Resting, ResolvedInv, Alone
  <2>2. at' = at \/ \E l : at' = [at EXCEPT ![a] = l]
    BY DEF Request, StartPut, ReadKnown, DeleteZone, Clear, Put, Done, Goto
  <2> QED BY <1>1, <2>1, <2>2
<1>3. UNCHANGED <<pim, etags, got>>
  BY <1>1 DEF Request, StartPut, ReadKnown, DeleteZone, Clear, Put, Done, loopVars
<1>4. CASE StartPut(a) \/ ReadKnown(a)
  <2>1. UNCHANGED <<zones, policies, spoiled>>
    BY <1>4 DEF StartPut, ReadKnown, storeVars
  <2> QED BY <1>2, <1>3, <2>1 DEF CurbsHonest, PoliciesHonest, Agree, Rows
<1>5. CASE DeleteZone(a) \/ Clear(a) \/ Put(a)
  <2>1. spoiled' = Layers
    BY <1>1, <1>5 DEF DeleteZone, Clear, Put
  <2>2. Rows(zones')
    <3>1. CASE DeleteZone(a)
      BY <3>1 DEF DeleteZone, Rows
    <3>2. CASE Clear(a)
      BY <3>2 DEF Clear, Rows
    <3>3. CASE Put(a)
      BY <3>3, OverRows DEF Put
    <3> QED BY <1>5, <3>1, <3>2, <3>3
  <2> QED BY <1>2, <1>3, <2>1, <2>2 DEF CurbsHonest, PoliciesHonest, Layers, Rows
<1> QED BY <1>4, <1>5 DEF Request

LEMMA HonestStep == ~Overlap /\ HonestInv /\ [Next]_vars => HonestInv'
<1> SUFFICES ASSUME ~Overlap, HonestInv, [Next]_vars PROVE HonestInv'
  OBVIOUS
<1>0. ResolvedInv'
  BY ResolvedStep DEF HonestInv
<1>1. CASE Refresh
  BY <1>0, <1>1, HonestLoopStep, HonestPut DEF Refresh
<1>2. CASE (\E a \in Admins : Request(a)) \/ \E w \in Writers : Fail(w)
  BY <1>0, <1>2, HonestRequest, HonestFail
<1>3. CASE UNCHANGED vars \/ Publish
  <2>1. UNCHANGED <<zones, policies, etags, got, at, plan, spoiled>>
    BY <1>3 DEF vars, Publish, storeVars, loopVars
  <2>2. pim' \in [policies : PolicyLayers, curbs : CurbLayers]
    BY <1>3 DEF vars, Publish, HonestInv
  <2>3. CurbsHonest' = CurbsHonest /\ PoliciesHonest' = PoliciesHonest /\ Prepared' = Prepared
    BY <2>1 DEF CurbsHonest, PoliciesHonest, Prepared, Agree, Fetched
  <2> QED BY <1>0, <2>1, <2>2, <2>3 DEF HonestInv, Fetched, Rows
<1>4. CASE Restart
  <2>1. /\ etags' = [l \in Layers |-> None] /\ DOMAIN got' = Layers /\ at'["loop"] = "idle"
        /\ UNCHANGED <<pim, zones>>
    BY <1>4 DEF Restart, storeVars, Writers
  <2> QED BY <1>0, <2>1 DEF HonestInv, CurbsHonest, PoliciesHonest, Layers, Rows
<1> QED BY <1>1, <1>2, <1>3, <1>4 DEF Next

\* While refreshes and requests take turns, whatever PIM publishes between two
\* fetches and whatever fails: what an etag makes a refresh skip is stored as it
\* was fetched, unless it is known to be spoiled (openmobility.py:1125).
THEOREM EtagsCorrect == ~Overlap => (Spec => []EtagsHonest)
<1> SUFFICES ASSUME ~Overlap PROVE Spec => []EtagsHonest
  OBVIOUS
<1>1. HonestInv /\ [Next]_vars => HonestInv'
  BY HonestStep
<1>2. HonestInv => EtagsHonest
  BY DEF HonestInv, EtagsHonest
<1> QED BY <1>1, <1>2, HonestInitial, PTL DEF Spec
=============================================================================
