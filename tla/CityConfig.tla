----------------------------- MODULE CityConfig -----------------------------
(***************************************************************************)
(* The editable configuration of one city: PUT and DELETE of the admin's   *)
(* config endpoint (app/routers/admin.py), the table behind it and the     *)
(* override each process keeps in memory (app/admin_config.py).            *)
(*                                                                         *)
(* An override maps sections to keys to values; absent sections and keys   *)
(* leave the YAML's.  Null is JSON's null.  Every await of a call is the   *)
(* boundary of a step, and so is every statement that another call's       *)
(* transaction may come before.                                            *)
(***************************************************************************)
EXTENDS Integers, Sequences, FiniteSets

CONSTANTS
    Calls,          \* requests of editors
    Sections, Keys, Values,
    Required,       \* keys a valid section has
    Null,
    Overlapping,        \* TRUE: a request may arrive while another is under way
    FailingStarts,  \* TRUE: the override may fail to load when the process starts
    MaxWrites, MaxRestarts      \* bounds on a behaviour

ASSUME ConfigAssumption ==
    /\ Required \subseteq Keys /\ Null \notin Values /\ "yaml" \notin Values \cup {Null}
    /\ Overlapping \in BOOLEAN /\ FailingStarts \in BOOLEAN
    /\ {MaxWrites, MaxRestarts} \subseteq Nat

VARIABLES
    row,        \* city_config_override: [data, revision], or NoRow
    history,    \* city_config_history, in the order of its ids: [revision, data]
    memory,     \* rt.override and rt.config_revision: [data, revision]
    pc,         \* call -> where it is
    patch,      \* call -> the body of its PUT
    merged,     \* call -> new_override
    result,     \* call -> what the store returned; for a DELETE, its revision so far
    astray,     \* a process has started without the stored override
    writes, restarts    \* used of the bounds

configCallVars == <<pc, patch, merged, result>>
boundVars == <<writes, restarts>>
configVars == <<row, history, memory, configCallVars, astray, boundVars>>

Empty == [s \in {} |-> Null]
NoRow == [data |-> Empty, revision |-> 0]
NoOverride == NoRow

\* The partial functions from S to T.
Partial(S, T) == UNION {[D -> T] : D \in SUBSET S}
Section == Partial(Keys, Values \cup {Null})
Override == Partial(Sections, Section)
\* A patch names at least one section; null stands for a whole section.
Patch == Partial(Sections, (Section \ {Empty}) \cup {Null}) \ {Empty}

\* Mutant: a section is replaced by the one sent.
ReplaceKeys(base, p) == [k \in {k \in DOMAIN p : p[k] # Null} |-> p[k]]

\* deep_merge on the keys of a section, then on sections: null removes, and a
\* section the override does not have is taken as it is sent, nulls included.
MergeKeys(base, p) ==
    [k \in {k \in DOMAIN base \cup DOMAIN p : k \in DOMAIN p => p[k] # Null} |->
       IF k \in DOMAIN p THEN p[k] ELSE base[k]]

Merge(base, p) ==
    [s \in {s \in DOMAIN base \cup DOMAIN p : s \in DOMAIN p => p[s] # Null} |->
       IF s \notin DOMAIN p THEN base[s]
       ELSE IF s \notin DOMAIN base THEN p[s]
       ELSE MergeKeys(base[s], p[s])]

\* yaml_sections has every key of every section.
Yaml == [s \in Sections |-> [k \in Keys |-> "yaml"]]
Effective(override) == Merge(Yaml, override)
Valid(override) == \A s \in Sections : Required \subseteq DOMAIN Effective(override)[s]

ConfigInit ==
    /\ row = NoRow /\ history = <<>> /\ memory = NoOverride
    /\ pc = [c \in Calls |-> "idle"] /\ patch = [c \in Calls |-> Empty]
    /\ merged = [c \in Calls |-> Empty] /\ result = [c \in Calls |-> NoRow]
    /\ astray = FALSE
    /\ writes = 0 /\ restarts = 0

Resting == \A c \in Calls : pc[c] = "idle"
Go(c, l) == pc' = [pc EXCEPT ![c] = l]
MayStart(c) == pc[c] = "idle" /\ (Overlapping \/ Resting) /\ writes < MaxWrites

-----------------------------------------------------------------------------

Accepts(new) == Valid(new)

\* put_config up to its first await: the patch is merged into the override in
\* memory, and the city that would result is validated.
Put(c) ==
    /\ MayStart(c)
    /\ \E p \in Patch :
          LET new == Merge(memory.data, p)
          IN  /\ Accepts(new)
              /\ patch' = [patch EXCEPT ![c] = p]
              /\ merged' = [merged EXCEPT ![c] = new]
    /\ Go(c, "save")
    /\ writes' = writes + 1
    /\ UNCHANGED <<row, history, memory, result, astray, restarts>>

\* save's transaction: the row replaced and counted on, the history row.
Save(c) ==
    LET revision == row.revision + 1
    IN  /\ pc[c] = "save"
        /\ row' = [data |-> merged[c], revision |-> revision]
        /\ history' = Append(history, [revision |-> revision, data |-> merged[c]])
        /\ Go(c, "load")
        /\ UNCHANGED <<memory, patch, merged, result, astray, boundVars>>

\* Mutant: the revision is counted on from the one in memory.
Recounted(c) == [data |-> merged[c], revision |-> memory.revision + 1]

\* save ends with a load of its own: the row as it is by then.
Reread(c) == row

Load(c) ==
    /\ pc[c] = "load"
    /\ result' = [result EXCEPT ![c] = Reread(c)]
    /\ Go(c, "apply")
    /\ UNCHANGED <<row, history, memory, patch, merged, astray, boundVars>>

\* delete_config, clear: the revision is read, then the row is deleted and the
\* history row written.  No row is left to carry the revision on.
Delete(c) ==
    /\ MayStart(c)
    /\ result' = [result EXCEPT ![c] = [data |-> Empty, revision |-> row.revision + 1]]
    /\ Go(c, "clear")
    /\ writes' = writes + 1
    /\ UNCHANGED <<row, history, memory, patch, merged, astray, restarts>>

Clear(c) ==
    /\ pc[c] = "clear"
    /\ row' = NoRow
    /\ history' = Append(history, result[c])
    /\ Go(c, "apply")
    /\ UNCHANGED <<memory, patch, merged, result, astray, boundVars>>

\* apply_to_runtime, when the call runs again with what the store returned.
Apply(c) ==
    /\ pc[c] = "apply"
    /\ memory' = result[c]
    /\ patch' = [patch EXCEPT ![c] = Empty] /\ merged' = [merged EXCEPT ![c] = Empty]
    /\ result' = [result EXCEPT ![c] = NoRow]
    /\ Go(c, "idle")
    /\ UNCHANGED <<row, history, astray, boundVars>>

\* The process stops, wherever its calls are, and load_overrides runs: a load
\* that fails leaves the YAML in force.
Restart ==
    /\ restarts < MaxRestarts
    /\ restarts' = restarts + 1
    /\ pc' = [c \in Calls |-> "idle"] /\ patch' = [c \in Calls |-> Empty]
    /\ merged' = [c \in Calls |-> Empty] /\ result' = [c \in Calls |-> NoRow]
    /\ \/ memory' = row /\ astray' = FALSE
       \/ FailingStarts /\ memory' = NoOverride /\ astray' = TRUE
    /\ UNCHANGED <<row, history, writes>>

ConfigNext ==
    \/ Restart
    \/ \E c \in Calls : Put(c) \/ Save(c) \/ Load(c) \/ Delete(c) \/ Clear(c) \/ Apply(c)

ConfigSpec == ConfigInit /\ [][ConfigNext]_configVars

-----------------------------------------------------------------------------
\* validate_sections sees the whole of what would be in force: what the table and
\* the memory hold is always an override whose city is valid, nulls included, so
\* that no restart is left without one.
StoredValid == Valid(row.data) /\ Valid(memory.data)

\* API.md:171, the stored override is "swapped into memory": with no request
\* under way, and the last start able to load it, the process serves what the
\* table holds.  A reset leaves no row, so its revision is not compared.
MemoryMatches ==
    Resting /\ ~astray => /\ memory.data = row.data
                          /\ row.revision # 0 => memory.revision = row.revision

\* put_config, "Partial deep-merge into the stored override": a save changes
\* no key of the stored override that its body does not name, as long as the
\* process could load that override when it started.
At(override, s, k) ==
    IF s \in DOMAIN override /\ k \in DOMAIN override[s] THEN override[s][k] ELSE "absent"
Named(p, s, k) == s \in DOMAIN p /\ (p[s] = Null \/ k \in DOMAIN p[s])

SaveIsPartial ==
    [][\A c \in Calls : Save(c) /\ ~astray =>
          \A s \in Sections, k \in Keys :
             ~Named(patch[c], s, k) => At(row'.data, s, k) = At(row.data, s, k)]_configVars

=============================================================================
