--------------------------- MODULE MCConfigStore ----------------------------
(* ConfigStore on two options, one of them global-only, with and without a  *)
(* monitor; the .cfg files choose the monitors and the bounds.              *)
EXTENDS ConfigStore, TLC

CONSTANTS k1, k2, v0, v1

MCKeys == {k1, k2}
MCValues == {v0, v1}
MCGlobalOnly == {k2}
MCDefault == [k \in MCKeys |-> v0]

\* The files another program leaves: none, a torn one, one that cannot be opened, and one
\* that sets both options.
MCContents == {Missing, Torn, Locked, (k1 :> v1) @@ (k2 :> v1)}

\* Without those that cannot be read, and with an empty object.
MCFewContents == {Missing, [k \in {} |-> v0], (k1 :> v1) @@ (k2 :> v1)}
=============================================================================
