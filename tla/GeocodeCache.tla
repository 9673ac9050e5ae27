------------------------------ MODULE GeocodeCache ------------------------------
(***************************************************************************)
(* The cache before the cadastral geocoder (geocode.search_ideca, the      *)
(* geocode cache of places.py), for one query.  A search reads the cache,  *)
(* asks the geocoder, and stores the answer, with other searches between.  *)
(* The cadastre does not move an address, but it may come to know one.     *)
(***************************************************************************)
EXTENDS Integers

CONSTANTS
    Searches,     \* searches that may be in progress at once
    HitTtl, MissTtl,
    Flight,       \* how long a search may take
    LastHour      \* bound of the clock

ASSUME GeocodeAssumption == {HitTtl, MissTtl, Flight, LastHour} \subseteq Nat /\ MissTtl <= HitTtl

VARIABLES
    hour,
    addressed,    \* since when the cadastre knows the address, or NotYet
    row,          \* geocode_cache: what is stored, and since when
    lookups,      \* what each search has read and been answered
    stalest       \* how long a known address was denied at most (history)

geocode == <<hour, addressed, row, lookups, stalest>>
NotYet == 1000000
NoRow == [result |-> "absent", at |-> 0]
Waiting == [stage |-> "free"]
KnownNow == hour >= addressed

CacheFreshAlike(r) == r.result # "absent" /\ hour - r.at <= HitTtl
CacheFresh(r) ==
    /\ r.result # "absent"
    /\ hour - r.at <= (IF r.result = "address" THEN HitTtl ELSE MissTtl)

GeocodeInit ==
    /\ hour = 0 /\ addressed = NotYet
    /\ row = NoRow
    /\ lookups = [s \in Searches |-> Waiting]
    /\ stalest = 0

\* The rider is told there is no such address.
Denied(said) == stalest' = IF said # "address" /\ KnownNow /\ hour - addressed > stalest
                           THEN hour - addressed ELSE stalest

SearchAddress(s) ==
    /\ lookups[s] = Waiting
    /\ IF CacheFresh(row)
       THEN Denied(row.result) /\ UNCHANGED lookups
       ELSE lookups' = [lookups EXCEPT ![s] = [stage |-> "ask", began |-> hour, cached |-> row.result]]
            /\ UNCHANGED stalest
    /\ UNCHANGED <<hour, addressed, row>>

\* The geocoder answers, with the address or with none.
Answered(s) ==
    /\ lookups[s].stage = "ask"
    /\ lookups' = [lookups EXCEPT ![s] = [stage |-> "put", began |-> @.began,
                                            said |-> IF KnownNow THEN "address" ELSE "miss"]]
    /\ UNCHANGED <<hour, addressed, row, stalest>>

\* It fails, and the search falls back on what it had read, however old.
Unanswered(s) ==
    /\ lookups[s].stage = "ask"
    /\ lookups' = [lookups EXCEPT ![s] = Waiting]
    /\ UNCHANGED <<hour, addressed, row, stalest>>

\* The answer goes out whether the store takes it or not.
PutAnswer(s, stored) ==
    /\ lookups[s].stage = "put"
    /\ row' = IF stored THEN [result |-> lookups[s].said, at |-> hour] ELSE row
    /\ lookups' = [lookups EXCEPT ![s] = Waiting]
    /\ Denied(lookups[s].said)
    /\ UNCHANGED <<hour, addressed>>

Assign ==
    /\ addressed = NotYet
    /\ addressed' = hour
    /\ UNCHANGED <<hour, row, lookups, stalest>>

GeocodeTick ==
    /\ hour < LastHour
    /\ \A s \in Searches : lookups[s] # Waiting => hour - lookups[s].began < Flight
    /\ hour' = hour + 1
    /\ UNCHANGED <<addressed, row, lookups, stalest>>

GeocodeNext ==
    \/ \E s \in Searches : SearchAddress(s) \/ Answered(s) \/ Unanswered(s)
    \/ \E s \in Searches, stored \in BOOLEAN : PutAnswer(s, stored)
    \/ Assign \/ GeocodeTick
GeocodeSpec == GeocodeInit /\ [][GeocodeNext]_geocode

(***************************************************************************)
(* While its geocoder answers, an address the cadastre has come to know is *)
(* denied for a miss's time to live and the time of one search at most,    *)
(* though a late search may store a miss over the address another has      *)
(* found (places.py:84).                                                   *)
(***************************************************************************)
MissForgotten == stalest <= MissTtl + Flight
=============================================================================
