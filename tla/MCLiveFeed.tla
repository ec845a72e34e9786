----------------------------- MODULE MCLiveFeed -----------------------------
(***************************************************************************)
(* Two scans of up to three stages, on one host or each in a container.    *)
(***************************************************************************)
EXTENDS LiveFeed, TLC

CONSTANTS lab, shop

OneHost == (lab :> 11) @@ (shop :> 12)

\* In a container of its own every scan is the first process.
Containers == (lab :> 1) @@ (shop :> 1)
=============================================================================
