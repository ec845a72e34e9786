---------------------------- MODULE ScanRegistry ----------------------------
(***************************************************************************)
(* What the observability store promises for one scan, whatever runs       *)
(* underneath: readers see either nothing or one whole result; an analyst's *)
(* verdict on a finding takes effect at once, and on that finding alone; a *)
(* publisher of the scan takes a snapshot of the verdicts when it begins   *)
(* and replaces the result, in one step, by one that keeps them.           *)
(***************************************************************************)
CONSTANTS
    Keys,          \* the dedup keys of findings
    Verdicts,      \* what an analyst may decide
    Results,       \* the sets of keys a result may consist of
    Publishers

VARIABLES
    catalog,       \* the verdict of every finding of the scan, by key
    held           \* per publisher: is it at work, and its snapshot

vars == <<catalog, held>>

Free == [busy |-> FALSE, snapshot |-> <<>>]

Init ==
    /\ catalog = <<>>
    /\ held = [p \in Publishers |-> Free]

Begin(p) ==
    /\ ~held[p].busy
    /\ held' = [held EXCEPT ![p] = [busy |-> TRUE, snapshot |-> catalog]]
    /\ UNCHANGED catalog

Publish(p, result) ==
    /\ held[p].busy
    /\ LET old == held[p].snapshot
       IN  catalog' = [k \in result |-> IF k \in DOMAIN old THEN old[k] ELSE "open"]
    /\ held' = [held EXCEPT ![p] = Free]

Abandon(p) ==
    /\ held[p].busy
    /\ held' = [held EXCEPT ![p] = Free]
    /\ UNCHANGED catalog

Judge(k, v) ==
    /\ k \in DOMAIN catalog
    /\ catalog' = [catalog EXCEPT ![k] = v]
    /\ UNCHANGED held

Next ==
    \/ \E p \in Publishers : \/ Begin(p) \/ Abandon(p)
                             \/ \E result \in Results : Publish(p, result)
    \/ \E k \in Keys, v \in Verdicts : Judge(k, v)

Spec == Init /\ [][Next]_vars
=============================================================================
