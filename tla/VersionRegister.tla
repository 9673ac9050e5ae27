--------------------------- MODULE VersionRegister ---------------------------
(***************************************************************************)
(* What FeedIngest promises about the versions of a city's feed, whatever  *)
(* statements, failures and restarts it takes: riders are answered from    *)
(* one version, replaced in one step, and the version it replaced is kept  *)
(* so that a person can compare them, until the next one is.               *)
(***************************************************************************)
CONSTANT Feeds
VARIABLES
    serving,    \* at most one feed: the one answered from
    replaced    \* at most one feed: the one answered from before it

RegisterInit == serving = {} /\ replaced = {}

\* A feed is adopted; adopting the one that serves changes nothing.
Adopt(f) ==
    /\ f \notin serving
    /\ serving' = {f}
    /\ replaced' = serving

RegisterNext == \E f \in Feeds : Adopt(f)
Register == RegisterInit /\ [][RegisterNext]_<<serving, replaced>>
=============================================================================
