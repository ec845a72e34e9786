----------------------------- MODULE TriageStore -----------------------------
(***************************************************************************)
(* The rows of one scan in the SQLite store (d4st/store.py), written by     *)
(* ingest() when a scan ends or is ingested again, and by the console's    *)
(* analysts (d4st/server.py) who look at a finding and then judge it.      *)
(*                                                                         *)
(* The database runs in WAL mode: a reader sees the last commit, one       *)
(* connection writes at a time, and Python's sqlite3 opens the write       *)
(* transaction at the first DELETE.  The SELECT that saves the analysts'   *)
(* work comes before that, outside the transaction.                        *)
(***************************************************************************)
EXTENDS Integers, FiniteSets, Sequences, FiniteSetsExt

CONSTANTS
    Keys,          \* dedup keys
    Verdicts,      \* TRIAGE_STATES
    Results,       \* the findings, in order, of the results that get ingested
    Analysts, Ingesters,
    MaxIngests,    \* bound on ingests begun
    MaxJudgements  \* bound on verdicts given

Nobody == "nobody"

ASSUME StoreAssumption ==
    /\ "open" \in Verdicts
    /\ Nobody \notin Ingesters
    /\ Results \subseteq Seq(Keys)
    /\ MaxIngests \in Nat /\ MaxJudgements \in Nat

VARIABLES
    rows,          \* committed rows of the scan: [id, key, verdict]
    lock,          \* the connection inside a write transaction, or Nobody
    pending,       \* the rows that connection would commit
    ing,           \* per ingester: where it stands, its result, its carry
    desk,          \* per analyst: the finding looked at and how far the request got
    ingests, judgements,
    judged,        \* history: the last verdict acknowledged per key
    disturbed      \* history: keys judged, or dropped from the scan, while some
                   \* ingest held an older carry; keys mistaken for one another

vars == <<rows, lock, pending, ing, desk, ingests, judgements, judged, disturbed>>

KeysOf(R) == {r.key : r \in R}
RowsOf(R, k) == {r \in R : r.key = k}

\* The row of a key with the highest id: the one a later assignment to the
\* carry dictionary leaves there.
LastRow(R, k) == CHOOSE r \in RowsOf(R, k) : \A s \in RowsOf(R, k) : s.id <= r.id

Quiet == \A p \in Ingesters : ing[p].at = "idle"

AtRest == [at |-> "idle", result |-> <<>>, carry |-> <<>>, next |-> 1]
Away == [at |-> "away", id |-> 0, finding |-> "none"]

Init ==
    /\ rows = {}
    /\ lock = Nobody
    /\ pending = {}
    /\ ing = [p \in Ingesters |-> AtRest]
    /\ desk = [a \in Analysts |-> Away]
    /\ ingests = 0
    /\ judgements = 0
    /\ judged = [k \in Keys |-> "open"]
    /\ disturbed = {}
-----------------------------------------------------------------------------
\* Wrong variant, kept for mutation: nothing carried.
CarryNothing(R) == <<>>

\* The snapshot of the analysts' work: dedup_key -> verdict.
Carry(R) == [k \in KeysOf(R) |-> LastRow(R, k).verdict]

\* The verdict a finding is inserted with.
Carried(p, k) == IF k \in DOMAIN ing[p].carry THEN ing[p].carry[k] ELSE "open"

\* ingest() up to the wipe: the schema is ensured, the carry is read.
ReadCarry(p, result) ==
    /\ ing[p].at = "idle"
    /\ ingests < MaxIngests
    /\ ingests' = ingests + 1
    /\ ing' = [ing EXCEPT ![p] = [at |-> "carried", result |-> result,
                                  carry |-> Carry(rows), next |-> 1]]
    /\ UNCHANGED <<rows, lock, pending, desk, judgements, judged, disturbed>>

\* The first DELETE takes the write lock; the wipe is not visible to others.
Wipe(p) ==
    /\ ing[p].at = "carried"
    /\ lock = Nobody
    /\ lock' = p
    /\ pending' = {}
    /\ ing' = [ing EXCEPT ![p].at = "writing"]
    /\ UNCHANGED <<rows, desk, ingests, judgements, judged, disturbed>>

\* INSERT of the next finding, under the next free id.
InsertFinding(p) ==
    /\ ing[p].at = "writing"
    /\ ing[p].next <= Len(ing[p].result)
    /\ LET k == ing[p].result[ing[p].next]
       IN  pending' = pending \union {[id |-> Max({r.id : r \in pending} \union {0}) + 1,
                                       key |-> k, verdict |-> Carried(p, k)]}
    /\ ing' = [ing EXCEPT ![p].next = @ + 1]
    /\ UNCHANGED <<rows, lock, desk, ingests, judgements, judged, disturbed>>

\* Wrong variant, kept for mutation: every insert visible at once (no transaction around them).
CommitEarly(p) == ing[p].next > 1

\* All findings are in: con.commit() may follow.
CommitReady(p) == ing[p].next > Len(ing[p].result)

Commit(p) ==
    /\ ing[p].at = "writing"
    /\ CommitReady(p)
    /\ rows' = pending
    /\ lock' = Nobody
    /\ pending' = {}
    /\ ing' = [ing EXCEPT ![p] = AtRest]
    /\ judged' = [k \in Keys |-> IF k \in KeysOf(pending) THEN judged[k] ELSE "open"]
    /\ disturbed' = IF \A q \in Ingesters \ {p} : ing[q].at = "idle" THEN disturbed
                    ELSE disturbed \union (KeysOf(rows) \ KeysOf(pending))
    /\ UNCHANGED <<desk, ingests, judgements>>

\* The process dies, or gives up on a locked database: the transaction, if
\* any, is rolled back.
Crash(p) ==
    /\ ing[p].at # "idle"
    /\ ing' = [ing EXCEPT ![p] = AtRest]
    /\ IF lock = p THEN lock' = Nobody /\ pending' = {} ELSE UNCHANGED <<lock, pending>>
    /\ UNCHANGED <<rows, desk, ingests, judgements, judged, disturbed>>
-----------------------------------------------------------------------------
\* The analyst has the console open on a finding.
Look(a) ==
    /\ desk[a].at = "away"
    /\ judgements < MaxJudgements
    /\ \E r \in rows :
          desk' = [desk EXCEPT ![a] = [at |-> "looking", id |-> r.id, finding |-> r.key]]
    /\ UNCHANGED <<rows, lock, pending, ing, ingests, judgements, judged, disturbed>>

\* POST /triage, first statement: 404 unless the finding is there.
CheckFinding(a) ==
    /\ desk[a].at = "looking"
    /\ desk' = [desk EXCEPT ![a] = IF \E r \in rows : r.id = @.id
                                   THEN [@ EXCEPT !.at = "checked"] ELSE Away]
    /\ UNCHANGED <<rows, lock, pending, ing, ingests, judgements, judged, disturbed>>

Judged(R, id, v) == {IF r.id = id THEN [r EXCEPT !.verdict = v] ELSE r : r \in R}

\* Second statement: UPDATE and commit, in a transaction of its own.  The
\* answer is "ok" whether or not a row was hit.
UpdateVerdict(a, v) ==
    /\ desk[a].at = "checked"
    /\ lock = Nobody
    /\ judgements < MaxJudgements
    /\ judgements' = judgements + 1
    /\ rows' = Judged(rows, desk[a].id, v)
    /\ judged' = [judged EXCEPT ![desk[a].finding] = v]
    /\ LET hit == {r.key : r \in {s \in rows : s.id = desk[a].id}}
           meant == {desk[a].finding}
       IN  disturbed' = IF Quiet /\ hit = meant THEN disturbed \ meant
                        ELSE disturbed \union hit \union meant
    /\ desk' = [desk EXCEPT ![a] = Away]
    /\ UNCHANGED <<lock, pending, ing, ingests>>

\* The database stays locked for 30 s: the request fails.
GiveUp(a) ==
    /\ desk[a].at = "checked"
    /\ lock # Nobody
    /\ desk' = [desk EXCEPT ![a] = Away]
    /\ UNCHANGED <<rows, lock, pending, ing, ingests, judgements, judged, disturbed>>

Next ==
    \/ \E p \in Ingesters : \/ \E result \in Results : ReadCarry(p, result)
                            \/ Wipe(p) \/ InsertFinding(p) \/ Commit(p) \/ Crash(p)
    \/ \E a \in Analysts : \/ Look(a) \/ CheckFinding(a) \/ GiveUp(a)
                           \/ \E v \in Verdicts : UpdateVerdict(a, v)

Spec == Init /\ [][Next]_vars
-----------------------------------------------------------------------------
Rows == [id : Nat \ {0}, key : Keys, verdict : Verdicts]

TypeOK ==
    /\ rows \subseteq Rows /\ pending \subseteq Rows
    /\ lock \in Ingesters \union {Nobody}
    /\ \A p \in Ingesters : /\ ing[p].at \in {"idle", "carried", "writing"}
                            /\ ing[p].result \in Results \union {<<>>}
                            /\ ing[p].at = "writing" <=> lock = p
    /\ \A a \in Analysts : desk[a].at \in {"away", "looking", "checked"}
    /\ ingests \in 0..MaxIngests /\ judgements \in 0..MaxJudgements
    /\ judged \in [Keys -> Verdicts] /\ disturbed \subseteq Keys

\* A reader of the console never sees a scan half rewritten: the committed
\* findings are none, or those of one whole result, each under an id of its own.
PublishedIsWhole ==
    \/ rows = {}
    \/ \E result \in Results :
          /\ \A n \in 1..Len(result) : \E r \in rows : r.id = n /\ r.key = result[n]
          /\ Cardinality(rows) = Len(result)

\* Triage survives re-ingestion: a verdict acknowledged while no ingest was
\* between its snapshot and its commit, on a finding whose id was still the one
\* the analyst had seen, stays on that finding through any number of later
\* ingests and crashes, as long as results keep reporting it; only an ingest
\* still holding an older snapshot can bring back a key that another dropped.
VerdictsSurviveQuietIngest ==
    \A r \in rows : r.key \notin disturbed => r.verdict = judged[r.key]

\* "re-ingesting a scan_id replaces its rows and carries analyst triage_status
\* forward by dedup_key" (store.py:14): the verdict acknowledged last for a
\* finding is on a row of that finding as long as results keep reporting it.
VerdictsSurvive ==
    \A k \in KeysOf(rows) : \E r \in RowsOf(rows, k) : r.verdict = judged[k]

\* The store is that registry, seen through its committed rows: each finding
\* has the verdict of its key's last row, and a publisher at work its carry.
Registry == INSTANCE ScanRegistry WITH
    catalog <- [k \in KeysOf(rows) |-> LastRow(rows, k).verdict],
    held <- [p \in Ingesters |-> [busy |-> ing[p].at # "idle", snapshot |-> ing[p].carry]],
    Results <- {{result[n] : n \in DOMAIN result} : result \in Results},
    Publishers <- Ingesters

ImplementsRegistry == Registry!Spec
=============================================================================
