----------------------------- MODULE MCServices -----------------------------
(* An instance of Services for TLC; the sets of names are in the cfg.      *)
EXTENDS Services

\* An asset of an old snapshot and one of a snapshot a reset has not listed.
TwoAssets == <<"old", "new">>

\* Two assets with a target.
TwoMeasurable == <<"a1", "a2">>
=============================================================================
