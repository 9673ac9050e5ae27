----------------------------- MODULE MCOpsAlert -----------------------------
(***************************************************************************)
(* Instances of OpsAlert for TLC: a full feed, half of one as a            *)
(* publication read too early leaves it, and the feed of the next season;  *)
(* a graph built from the full feed and one built from the next.           *)
(***************************************************************************)
EXTENDS OpsAlert, TLC

FeedTrips == ("full" :> 10) @@ ("half" :> 5) @@ ("next" :> 10)
Recognised ==
    ("old" :> (("full" :> 10) @@ ("half" :> 5) @@ ("next" :> 8)))
 @@ ("new" :> (("full" :> 6) @@ ("half" :> 3) @@ ("next" :> 10)))

=============================================================================
