------------------------------ MODULE PlaceAreas ------------------------------
(***************************************************************************)
(* The mirror of a city's named areas (app/places.py, _place_areas_loop of *)
(* app/main.py, ingest_places of routers/admin.py): the loop, daily, and a *)
(* person, at any time, fetch the layer of districts, then that of         *)
(* quarters, and name each quarter's district.  A fetch may fail, or be    *)
(* answered with no features, and the two refreshes may be under way at    *)
(* once.  A layer is the number of the edition it was fetched in; the      *)
(* transactions that replace a layer are taken one after the other.        *)
(***************************************************************************)
EXTENDS Integers, FiniteSets

CONSTANTS
    RefreshDays,             \* geocoder.areas.refresh_days
    MaxEditions, MaxFaults   \* bounds of a behaviour

ASSUME AreasAssumption == RefreshDays \in Nat \ {0} /\ MaxEditions \in Nat \ {0} /\ MaxFaults \in Nat

VARIABLES
    edition,      \* what the city's server publishes
    districts,    \* place_area, kind 'localidad': edition and days since
    quarters,     \* kind 'barrio': edition, days since, edition of the parents
    refresh,      \* who -> where the refresh is, and what it has fetched
    checkDue,     \* the loop's wait of a day is over
    areaFaults    \* used of the bound

areas == <<edition, districts, quarters, refresh, checkDue, areaFaults>>

Nothing == 0      \* no rows: no edition, no parent
Refreshers == {"loop", "person"}
AtRest == [place |-> "rest", got |-> Nothing]

AreasInit ==
    /\ edition = 1
    /\ districts = [of |-> Nothing, age |-> 0] /\ quarters = [of |-> Nothing, age |-> 0, parents |-> Nothing]
    /\ refresh = [w \in Refreshers |-> AtRest]
    /\ checkDue = TRUE /\ areaFaults = 0

-----------------------------------------------------------------------------
\* stats: the age is that of the rows written last, of either kind.
Written == {l \in {[of |-> districts.of, age |-> districts.age], [of |-> quarters.of, age |-> quarters.age]} :
              l.of # Nothing}
\* Mutant: what is there is fresh, however old.
MirrorFreshForever == Written # {} /\ quarters.of # Nothing
MirrorFresh == (\E l \in Written : l.age < RefreshDays) /\ quarters.of # Nothing

Go(w, next, got) == refresh' = [refresh EXCEPT ![w] = [place |-> next, got |-> got]]

\* The loop looks once a day, and leaves what is fresh.
CheckAreas ==
    /\ refresh["loop"] = AtRest /\ checkDue
    /\ checkDue' = FALSE
    /\ IF MirrorFresh THEN UNCHANGED refresh ELSE Go("loop", "districts", Nothing)
    /\ UNCHANGED <<edition, districts, quarters, areaFaults>>

IngestPlaces ==
    /\ refresh["person"] = AtRest
    /\ Go("person", "districts", Nothing)
    /\ UNCHANGED <<edition, districts, quarters, checkDue, areaFaults>>

\* What a fetch is answered: the edition of the day or, at fault, no features.
Fetched(w, from, to) ==
    /\ refresh[w].place = from
    /\ \/ Go(w, to, edition) /\ UNCHANGED areaFaults
       \/ areaFaults < MaxFaults /\ areaFaults' = areaFaults + 1 /\ Go(w, to, Nothing)
    /\ UNCHANGED <<edition, districts, quarters, checkDue>>

\* DELETE and INSERT: the layer is what was fetched, be it nothing.
PutDistricts(w) ==
    /\ refresh[w].place = "putDistricts"
    /\ districts' = [of |-> refresh[w].got, age |-> 0]
    /\ Go(w, "quarters", Nothing)
    /\ UNCHANGED <<edition, quarters, checkDue, areaFaults>>

PutQuarters(w) ==
    /\ refresh[w].place = "putQuarters"
    /\ quarters' = [of |-> refresh[w].got, age |-> 0, parents |-> Nothing]
    /\ Go(w, "parents", Nothing)
    /\ UNCHANGED <<edition, districts, checkDue, areaFaults>>

\* The quarters inside a district are given its name; with no district there,
\* none is.
AssignParents(w) ==
    /\ refresh[w].place = "parents"
    /\ quarters' = [quarters EXCEPT !.parents = IF districts.of # Nothing /\ quarters.of # Nothing
                                                THEN districts.of ELSE @]
    /\ Go(w, "rest", Nothing)
    /\ UNCHANGED <<edition, districts, checkDue, areaFaults>>

\* A fetch or a statement fails: what was replaced stays so, the rest is left.
RefreshFails(w) ==
    /\ refresh[w] # AtRest /\ areaFaults < MaxFaults
    /\ areaFaults' = areaFaults + 1
    /\ Go(w, "rest", Nothing)
    /\ UNCHANGED <<edition, districts, quarters, checkDue>>

\* What is older than the refresh takes is old.
Older(age) == IF age < RefreshDays THEN age + 1 ELSE age
NextDay ==
    /\ districts' = [districts EXCEPT !.age = Older(@)] /\ quarters' = [quarters EXCEPT !.age = Older(@)]
    /\ checkDue' = TRUE
    /\ UNCHANGED <<edition, refresh, areaFaults>>

NewEdition ==
    /\ edition < MaxEditions /\ edition' = edition + 1
    /\ UNCHANGED <<districts, quarters, refresh, checkDue, areaFaults>>

FetchDistricts(w) == Fetched(w, "districts", "putDistricts")
FetchQuarters(w) == Fetched(w, "quarters", "putQuarters")
RefreshPlaceAreas(w) ==
    FetchDistricts(w) \/ PutDistricts(w) \/ FetchQuarters(w) \/ PutQuarters(w) \/ AssignParents(w)

AreasNext ==
    \/ CheckAreas \/ IngestPlaces \/ NextDay \/ NewEdition
    \/ \E w \in Refreshers : RefreshPlaceAreas(w) \/ RefreshFails(w)

-----------------------------------------------------------------------------
(***************************************************************************)
(* docs/API.md:89, "mirrored from their ArcGIS layers every refreshDays":  *)
(* an edition that stays is in the end the one searched, in both layers,   *)
(* and again and again every quarter is named after its district of it -   *)
(* though a refresh that loses its second layer counts as a fresh one      *)
(* (places.py:237), an empty answer empties a layer, and a person's        *)
(* refresh overlaps the loop's.                                            *)
(***************************************************************************)
MirrorFollows ==
    \A e \in 1 .. MaxEditions :
        <>[](edition = e) =>
            /\ <>[](districts.of = e /\ quarters.of = e)
            /\ []<>(quarters.parents = e)
==============================================================================
