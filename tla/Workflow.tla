------------------------------ MODULE Workflow ------------------------------
(***************************************************************************)
(* The convergence loop of `d4st launch`: WorkflowRunner.run               *)
(* (orchestrator/workflow.py) driving tool adapters over the shared URL    *)
(* frontier (orchestrator/frontier.py), gated by the engagement scope      *)
(* (scope.py).                                                             *)
(*                                                                         *)
(* A URL as a tool reports it is a member of Raws; Key[u] is what           *)
(* normalize_url makes of it, Blank for nothing at all.  Tools are external: *)
(* each reports any batch of URLs.  The frontier's parameter set is not    *)
(* modelled: add_url derives it from the URL and the runner never reads it. *)
(***************************************************************************)
EXTENDS Integers, Sequences, FiniteSets

CONSTANTS
    Raws,          \* URLs as tools, operators and seed lists write them
    Key,           \* normalize_url
    Blank,         \* the key of an empty URL
    InScope,       \* those in_scope() accepts
    Malformed,     \* those urlsplit refuses
    Target,        \* the operator's explicit target
    Discoverers, Detectors,   \* the tools of the stages, in order
    Active,        \* tools that emit attack traffic
    AllowActive, DryRun,
    MaxRounds

Tools == {Discoverers[n] : n \in DOMAIN Discoverers} \union
         {Detectors[n] : n \in DOMAIN Detectors}

ASSUME WorkflowAssumption ==
    /\ IsFiniteSet(Raws) /\ InScope \subseteq Raws
    /\ Target \in Raws \ Malformed /\ Key[Target] # Blank
    /\ Malformed \subseteq InScope    \* a host that cannot be read is let in,
    /\ \A u \in Raws : Key[u] = Blank => u \in InScope     \* and so is none
    /\ Discoverers \in Seq(Tools) /\ Detectors \in Seq(Tools)
    /\ AllowActive \in BOOLEAN /\ DryRun \in BOOLEAN
    /\ MaxRounds \in Nat

Keys == {Key[u] : u \in Raws} \ {Blank}

VARIABLES
    phase,         \* where run() stands
    next,          \* the tool of the stages that is up
    urls,          \* Frontier._urls
    round,         \* Frontier._round
    fresh,         \* Frontier._new_since_consume
    dropped,       \* Frontier._off_scope_dropped
    caps,          \* Frontier.caps: how many were recorded
    base,          \* history: the frontier when the round began
    seen,          \* history: the frontier each tool was last given
    found          \* history: every in-scope key a tool has reported

vars == <<phase, next, urls, round, fresh, dropped, caps, base, seen, found>>

\* _run_tool: an active tool runs only when allowed, or in a dry run.
Permitted(tool) == tool \in Active => AllowActive \/ DryRun

\* What a tool may report: nothing unless it really runs.
Batches(tool) == IF Permitted(tool) /\ ~DryRun THEN SUBSET Raws ELSE {{}}

Init ==
    /\ phase = "seed"
    /\ next = 1
    /\ urls = {}
    /\ round = 0
    /\ fresh = FALSE
    /\ dropped = 0
    /\ caps = 0
    /\ base = {}
    /\ seen = [t \in Tools |-> {}]
    /\ found = {}
-----------------------------------------------------------------------------
\* Wrong variant, kept for mutation: no scope gate.
AdmittedAll(batch) == {Key[u] : u \in batch} \ {Blank}

\* The keys a batch leaves once the scope gate and normalize_url are through.
Admitted(batch) == {Key[u] : u \in batch \cap InScope} \ {Blank}

\* Wrong variant, kept for mutation: the flag reflects only the last batch.
FreshOverwritten(batch) == ~(Admitted(batch) \subseteq urls)

\* _new_since_consume once a batch is in: set by a new key, cleared by no batch.
Fresh(batch) == fresh \/ ~(Admitted(batch) \subseteq urls)

\* Frontier.add_urls: fails on the first URL that urlsplit refuses.
AddUrls(batch) ==
    /\ batch \cap Malformed = {}
    /\ urls' = urls \union Admitted(batch)
    /\ fresh' = Fresh(batch)
    /\ dropped' = dropped + Cardinality(batch \ InScope)

\* run() down to the loop: the target is forced in, seeds pass the gate.
Seed(seeds) ==
    /\ phase = "seed"
    /\ seeds \cap Malformed = {}
    /\ phase' = "round"
    /\ urls' = {Key[Target]} \union Admitted(seeds)
    /\ fresh' = TRUE
    /\ dropped' = Cardinality(seeds \ InScope)
    /\ UNCHANGED <<next, round, caps, base, seen, found>>

\* begin_round consumes the news.
BeginRound ==
    /\ phase = "round"
    /\ phase' = "discover"
    /\ next' = 1
    /\ round' = round + 1
    /\ fresh' = FALSE
    /\ base' = urls
    /\ UNCHANGED <<urls, dropped, caps, seen, found>>

Seen(tool) == [seen EXCEPT ![tool] = IF Permitted(tool) THEN urls ELSE @]

\* One discovery tool: given the frontier, its URLs feed it.
Discover(batch) ==
    /\ phase = "discover"
    /\ next <= Len(Discoverers)
    /\ LET tool == Discoverers[next]
       IN  /\ batch \in Batches(tool)
           /\ seen' = Seen(tool)
    /\ AddUrls(batch)
    /\ found' = found \union Admitted(batch)
    /\ next' = next + 1
    /\ UNCHANGED <<phase, round, caps, base>>

\* A malformed URL among the seeds or a tool's: ValueError leaves run().
Abort ==
    /\ \/ phase = "seed"
       \/ /\ phase = "discover" /\ next <= Len(Discoverers)
          /\ \E batch \in Batches(Discoverers[next]) : batch \cap Malformed # {}
    /\ Malformed # {}
    /\ phase' = "aborted"
    /\ UNCHANGED <<next, urls, round, fresh, dropped, caps, base, seen, found>>

AtCap == round >= MaxRounds
PendingAtCap == fresh

\* should_continue, at the end of a round.
Decide ==
    /\ phase = "discover"
    /\ next = Len(Discoverers) + 1
    /\ phase' = IF fresh /\ ~AtCap THEN "round" ELSE "detect"
    /\ caps' = IF AtCap /\ PendingAtCap THEN caps + 1 ELSE caps
    /\ next' = 1
    /\ UNCHANGED <<urls, round, fresh, dropped, base, seen, found>>

\* One detection tool over the frontier; the URLs it reports go nowhere.
Detect(batch) ==
    /\ phase = "detect"
    /\ next <= Len(Detectors)
    /\ LET tool == Detectors[next]
       IN  /\ batch \in Batches(tool)
           /\ seen' = Seen(tool)
    /\ found' = found \union Admitted(batch)
    /\ next' = next + 1
    /\ UNCHANGED <<phase, urls, round, fresh, dropped, caps, base>>

Finish ==
    /\ phase = "detect"
    /\ next = Len(Detectors) + 1
    /\ phase' = "done"
    /\ UNCHANGED <<next, urls, round, fresh, dropped, caps, base, seen, found>>

Next ==
    \/ \E batch \in SUBSET Raws : Seed(batch) \/ Discover(batch) \/ Detect(batch)
    \/ BeginRound \/ Decide \/ Abort \/ Finish

Spec == Init /\ [][Next]_vars
-----------------------------------------------------------------------------
Settled == phase \in {"detect", "done"}

TypeOK ==
    /\ phase \in {"seed", "round", "discover", "detect", "done", "aborted"}
    /\ next \in Nat \ {0}
    /\ urls \subseteq Keys /\ base \subseteq Keys /\ found \subseteq Keys
    /\ round \in Nat /\ dropped \in Nat /\ caps \in Nat
    /\ fresh \in BOOLEAN
    /\ seen \in [Tools -> SUBSET Keys]

\* "Scope is enforced at the frontier so every downstream consumer only ever
\* sees in-scope targets" (scope.py): whatever is found in whichever round, no
\* tool is handed a URL that is neither in scope nor the operator's target.
ToolsStayInScope ==
    \A t \in Tools : seen[t] \subseteq {Key[u] : u \in InScope \union {Target}}

\* Coverage is never cut silently: when detection starts with no cap recorded,
\* every discovery tool that may run has been given the whole frontier, later
\* tools' finds included.
SilenceMeansConverged ==
    Settled /\ caps = 0 =>
        \A n \in DOMAIN Discoverers :
            Permitted(Discoverers[n]) => seen[Discoverers[n]] = urls

\* ... and a recorded cap is no false alarm: the round cap was reached with
\* surface that was not there when the last round began.
CapMeansPending == caps > 0 => round >= MaxRounds /\ urls # base

\* The caps on record say neither too little nor too much about coverage.
CapsAreHonest == SilenceMeansConverged /\ CapMeansPending

\* The loop is bounded by max_rounds; the first round runs whatever it is.
RoundsWithinCap == round <= MaxRounds \/ round <= 1

\* "zap also discovers; it runs in the scan stage but feeds the frontier too"
\* (workflows/core.yaml): what any tool found in scope is in the frontier.
FindsFeedFrontier == found \subseteq urls

\* "one tool failing never sinks the workflow" (adapters/base.py): past its
\* seeds, a run is not lost to what a tool reports.
NeverSunk == round > 0 => phase # "aborted"
=============================================================================
