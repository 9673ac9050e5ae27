------------------------------ MODULE GbfsNetwork ------------------------------
(***************************************************************************)
(* One rental network (gbfs.GbfsNetwork).  A refresh, under the network's  *)
(* lock, loads the files that are stale in a fixed order, and stops at the *)
(* first one that fails; what it loaded before is kept, and what it did    *)
(* not load stays as old as it was.  Requests read the memory meanwhile.   *)
(* The operator describes vehicle types, and has vehicles of some of them  *)
(* at its stations.                                                        *)
(***************************************************************************)
EXTENDS Integers, Sequences, FiniteSets

CONSTANTS
    Types,         \* the vehicle types an operator may describe
    Bicycles       \* those of them that are bicycles

ASSUME GbfsAssumption == Bicycles \subseteq Types

\* The order of refresh: the discovery first; system_information and the pricing plans go as the
\* stations' information does, and none of the three says what is in stock.
FilesByHaste == <<"gbfs", "station_status", "station_information", "vehicle_types">>
Files == <<"gbfs", "vehicle_types", "station_information", "station_status">>

VARIABLES
    published,   \* the operator's documents: described types, and those in stock
    gone,        \* the feed is broken: fetches fail, documents cannot be read
    memory,      \* what the network holds: types and stock
    fresh,       \* files fetched less than their time to live ago
    at,          \* which file the refresh is at; 0 when the lock is free
    due,         \* the types described when the file of the types last became stale (history)
    dueThen,     \* due, when the status was last read (history)
    spoiled      \* the types were marked as fetched, and what came was of no use (history)

gbfs == <<published, gone, memory, fresh, at, due, dueThen, spoiled>>

Unloaded == {"none"}
GbfsInit ==
    /\ published = [types |-> {}, stock |-> {}]
    /\ gone = FALSE
    /\ memory = [types |-> {}, stock |-> Unloaded]
    /\ fresh = {} /\ at = 0
    /\ due = {} /\ dueThen = {} /\ spoiled = FALSE

Refresh ==
    /\ at = 0
    /\ at' = 1
    /\ UNCHANGED <<published, gone, memory, fresh, due, dueThen, spoiled>>

Step(next) == at' = IF next > Len(Files) THEN 0 ELSE next
File == Files[at]
\* The lock is left however the refresh ends; the mutated form keeps it.
FailHolding == at' = -1
Fail == at' = 0

\* _load: not before its time, and not a file the discovery does not name.
Skip ==
    /\ at > 0
    /\ File \in fresh
    /\ Step(at + 1)
    /\ UNCHANGED <<published, gone, memory, fresh, due, dueThen, spoiled>>

Held(file) ==
    CASE file = "vehicle_types"  -> [memory EXCEPT !.types = published.types]
      [] file = "station_status" -> [memory EXCEPT !.stock = published.stock]
      [] OTHER                   -> memory

Load ==
    /\ at > 0 /\ ~gone
    /\ File \notin fresh
    /\ memory' = Held(File)
    /\ fresh' = fresh \cup {File}
    /\ dueThen' = IF File = "station_status" THEN due ELSE dueThen
    /\ spoiled' = (spoiled /\ File # "vehicle_types")
    /\ Step(at + 1)
    /\ UNCHANGED <<published, gone, due>>

\* The fetch fails; or it is marked, and then the document cannot be read.
Broken(marked) ==
    /\ at > 0 /\ gone
    /\ File \notin fresh
    /\ marked => File # "gbfs"
    /\ fresh' = IF marked THEN fresh \cup {File} ELSE fresh
    /\ spoiled' = (spoiled \/ (marked /\ File = "vehicle_types"))
    /\ Fail
    /\ UNCHANGED <<published, gone, memory, due, dueThen>>

\* A document without data is marked, and what is held is kept.
Empty ==
    /\ at > 0 /\ gone
    /\ File \notin fresh \cup {"gbfs"}
    /\ fresh' = fresh \cup {File}
    /\ spoiled' = (spoiled \/ File = "vehicle_types")
    /\ Step(at + 1)
    /\ UNCHANGED <<published, gone, memory, due, dueThen>>

\* A file's time to live is over; a refresh takes less than that.
Ages(file) ==
    /\ at = 0
    /\ file \in fresh
    /\ fresh' = fresh \ {file}
    /\ due' = IF file = "vehicle_types" THEN published.types ELSE due
    /\ UNCHANGED <<published, gone, memory, at, dueThen, spoiled>>

\* The operator describes more types, and moves vehicles of the types it describes.
Publish(types, stock) ==
    /\ published.types \subseteq types /\ stock \subseteq types
    /\ published' = [types |-> types, stock |-> stock]
    /\ published' # published
    /\ UNCHANGED <<gone, memory, fresh, at, due, dueThen, spoiled>>

FeedBreaks ==
    /\ gone' = ~gone
    /\ UNCHANGED <<published, memory, fresh, at, due, dueThen, spoiled>>

GbfsNext ==
    \/ Refresh \/ Skip \/ Load \/ Empty
    \/ \E marked \in BOOLEAN : Broken(marked)
    \/ \E f \in {Files[i] : i \in DOMAIN Files} : Ages(f)
    \/ \E t, s \in SUBSET Types : Publish(t, s)
    \/ FeedBreaks
GbfsSpec == GbfsInit /\ [][GbfsNext]_gbfs

\* mode_available: unknown before the first status, else vehicles of a type that is known.
ModeAvailable ==
    IF memory.stock = Unloaded THEN "unknown"
    ELSE IF memory.stock \cap memory.types \cap Bicycles # {} THEN "yes" ELSE "no"

(***************************************************************************)
(* A refresh that loses one of its files mixes old and new ones            *)
(* (gbfs.py:163).  Still a planner is told that a network has no bicycle   *)
(* only if its status shows none, or shows some of a type that was not yet *)
(* described when the types were last due, or the types were fetched and   *)
(* of no use: the status is never taken in beside types that are overdue.  *)
(***************************************************************************)
ModeHonest ==
    ModeAvailable = "no" /\ ~spoiled => memory.stock \cap Bicycles \cap dueThen = {}

(***************************************************************************)
(* Once the feed works and its stock stays as it is, that stock is what    *)
(* planners are told, whatever was lost, marked or spoiled before.         *)
(***************************************************************************)
StockFollows ==
    \A s \in SUBSET Types : <>[](~gone /\ published.stock = s) => <>[](memory.stock = s)
=============================================================================
