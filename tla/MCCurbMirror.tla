----------------------------- MODULE MCCurbMirror -----------------------------
(***************************************************************************)
(* Instances of CurbMirror for TLC.                                        *)
(***************************************************************************)
EXTENDS CurbMirror, TLC

CONSTANTS z1, z2, p1, p2, r1, r2

\* One policy described, the other one too, the first described otherwise.
SomePolicies == {p1 :> r1, (p1 :> r1) @@ (p2 :> r1), p1 :> r2}
\* A zone of one policy, of the other, and a second zone.
SomeCurbs == {z1 :> {p1}, z1 :> {p2}, (z1 :> {p1}) @@ (z2 :> {p2})}
\* A document that is whole, and one that needs a policy that is there.
SomeDocuments == {[zones |-> z2 :> {p2}, policies |-> p2 :> r2],
                  [zones |-> z2 :> {p1}, policies |-> <<>>]}
=============================================================================
