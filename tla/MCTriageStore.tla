---------------------------- MODULE MCTriageStore ----------------------------
(***************************************************************************)
(* Two analysts, two ingesters and results of up to two findings.          *)
(***************************************************************************)
EXTENDS TriageStore, TLC

CONSTANTS k1, k2, alice, bob, cli, scan

Unique == {<<k1, k2>>, <<k2>>, <<k2, k1>>}
\* Analysts are interchangeable, and so are ingesters.
Alike == Permutations(Analysts) \union Permutations(Ingesters)

Twice == {<<k1, k1>>}
=============================================================================
