--------------------------- MODULE MCPushDelivery ---------------------------
(* Small instances of PushDelivery: see README.md for what each one shows. *)
EXTENDS PushDelivery, TLC

\* Wake-ups only: phones follow no route.
NoAlertRoutes == [a \in {} |-> {}]
FollowNothing == {{}}
NoNames == [r \in {} |-> r]

\* Alerts that share a route.
TwoAlerts == 1 :> {"G30"} @@ 2 :> {"G30", "H13"}
FeedNames == {{"G30"}, {}}
NameOf == "G30" :> "G30" @@ "H13" :> "H13"

=============================================================================
