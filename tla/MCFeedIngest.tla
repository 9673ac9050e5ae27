---------------------------- MODULE MCFeedIngest ----------------------------
(***************************************************************************)
(* Instances of FeedIngest for TLC.                                        *)
(***************************************************************************)
EXTENDS FeedIngest, TLC

BootAndAdmin == {"boot", "admin"}

=============================================================================
