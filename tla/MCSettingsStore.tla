-------------------------- MODULE MCSettingsStore ---------------------------
(* SettingsStore on two options, one of them global-only, and short lists;  *)
(* the .cfg files choose the bounds.                                        *)
EXTENDS SettingsStore

CONSTANTS k1, k2, v0, v1

MCOptions == {k1, k2}
MCGlobalOnly == {k2}
MCValues == {v0, v1}
MCDefault == [k \in MCOptions |-> v0]
MCDefaultList == <<v0>>

\* Files: one with an unknown option, a global-only option and a list; one with an
\* option and a list that does not decode; and those that cannot be read.
MCListed == Foreign :> v1 @@ k2 :> v1 @@ Members :> <<v1>>
MCContents == {Missing, Torn, Locked, MCListed, k1 :> v1 @@ Members :> Bad}
MCStartContents == {Missing, MCListed}
=============================================================================
