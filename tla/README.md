# d4st in TLA+

A verification project for d4st, a command-line scanner that drives external
tools and its own detectors against a web application it is authorised to test,
watches that it does not wear the application out, keeps its session alive, and
stores what it finds in a database read through a web console.

The modules model the *control* of the program: which stage runs when, with which
depth and which session, what is refused, retried, recorded or rolled back; for the
active detectors, which requests they compare and what they conclude; and what
becomes of a finding on its way to the report. How payloads are worded, how bodies
are matched and how reports look is left out.
File names below are relative to `d4st/`.

## 1. Inventory

### 1.1 Parts, their state, operations and hard behaviours

| Part | State | Operations | What is hard about it | What makes it right |
|---|---|---|---|---|
| Engagement, `engagement.py: run_engagement` (2639-3675) | its local variables: policy, cookie, targets, findings; the engine list it reports | about 40 stages in a fixed order, three of them loops | every stage asks for permission its own way (policy flag, monitor, session, binary); state read in one stage is used many stages later; any stage may fail on its own | the policy and the halt are respected by every engine they are about; engines hold a current session; the report says what happened; it ends |
| Stress monitor, `safety.py: TargetHealth` | stage 0..2, strikes, events | `check`, `halted`, `sqlmap_level` | strikes decay, stages do not; the order of answers decides | no false alarm, no missed alarm, no way back |
| Adaptive throttle, `safety.py: AdaptiveThrottle` | delay, healthy streak, backoffs | `record`, `wait`/`pace` | one object shared by all stages of the depth suite; doubling, floor, cap and zero meet | never faster than the base, relaxations earned, returns to the base |
| Session keeper, `engagement.py: SessionKeeper` | cookie, number of re-authentications | `alive`, `ensure` | the application may drop the session at any moment, probes mislead, logins fail in several ways, and callers keep copies of the cookie | no needless login, a loss soon noticed, engines use the current session |
| Stall watchdog, `engagement.py: _run_stalled` | clocks of last output and last work, shared by a reader thread and the poll loop | read a line, poll, kill, complete | hung or merely slow? CPU probes fail, children end and take their CPU time along, the reader ends before the process | a working process is spared, a hung one is not waited for |
| Live progress, `engagement.py: _Progress`, `server.py: _live_records` | step counter; one JSON file per process id | `update`, `summary`, list | killed between any two steps; several scans and containers share a directory | the record is whole and the latest, running scans are listed, dead ones fade |
| Store, `store.py`, and the triage requests of `server.py` | rows of scans, findings, their verdicts | `ingest`, `set_triage`, queries | re-ingest while analysts judge; ids handed out afresh; rollback | readers see whole scans; verdicts survive |
| Workflow runner, `orchestrator/workflow.py` and `frontier.py`, `scope.py` | URL set, round, news flag, caps, out-of-scope count | seed, begin round, add URLs, continue?, detect | a fixpoint cut by a cap, tools that report anything, scope | tools stay in scope, coverage is never cut silently, it ends |
| Target filters, `safety.py` and `engagement.py` 2860-2889, 2966-2980 | none (pure), and the list of active targets | filter, seed from OpenAPI | the filters run at several places, in an order that matters | no state-changing or credential form is attacked |
| Evidence pipeline, `engagement.py: verify_finding` and 3508-3636, `evidence.py` | the list of findings, answers per URL | replay, soft-404 guard, merge, assess, capture, header gate, shell dedup, backfill | each step rewrites the list; capture, gate and dedup share one `try`; requests get lost | no finding lost, each ships with evidence, what was proved stays proved |
| Worker pools, `engagement.py: probe_targets`, `adapters/base.py: map_bounded`, `safety.py: Politeness` | per thread an evidence buffer and an injection shape; the findings of each target | bounded parallel map, ordered collection, collapse of CSRF hits | several threads under global names; a thread is reused from target to target; checks raise | the result is that of one thread, each proof is its finding's own, it comes to an end |
| Launch gate, `auth/validity.py`, used by `cli.py` | none | `is_session_valid` | three kinds of session, with and without a marker, judged by one page | live sessions pass, dead ones are refused |
| Active depth suite, `activetests.py`, `auth/authz.py`, `jwtattacks.py`, `wstests.py`, `apiexposure.py`, `formchecks.py`, and `engagement.py: run_api_authz_tests` | what a stage notes from URL to URL; global auth headers | about twenty stages of a few requests each, under varied identities | a verdict compares answers that may be lost, blocked, cached or vary by themselves; the session may end | what is reported is so; what is open is reported; other users are not harmed |
| Authentication, `auth/` | session files, tokens and their lifetime | capture, mint, probe | browser automation | - |
| Decision tables, `auth/differential.py`, `scoring/` | none | pure | used by commands of their own, not by a scan | - |
| Lockout monitor, `safety.py: LockoutMonitor` | failures per account | `record` | tested, but no code of the program calls it | - |
| Passive detectors: `passive`, `dom`, `pii`, `jsanalysis`, `tlsscan`, `fingerprint`, `oast` | none | recognise | text matching in one response | out of a model's reach |
| Adapters, `orchestrator/adapters/` | none | build a command line, parse output | external tools | they never raise |
| Reports and exports, `report`, `export`, `webui`, `art` | none | render | - | - |
| Command line, configuration, updater, self-test | files | parse, install | - | - |

### 1.2 How they interact

`d4st engagement` checks the captured session, then calls `run_engagement` in one
thread. That thread owns the stress monitor, the throttle and the session keeper;
it calls each at stage boundaries, and passes the *cookie as a value* to the
engines, so a refresh reaches an engine only if the engine's caller asked for it.
`discover_targets` and `run_roster` get the keeper and refresh a cookie variable
of their own. ZAP runs as a child process under the watchdog, whose reader
thread shares two clocks with the poll loop. After each stage `_Progress` rewrites
a file; the console, a process of its own, reads these files and the database. `probe_targets`
hands targets to a pool of threads and goes on when the last has reported; what the
stages find goes into one list, which `verify_finding` and the steps after ZAP rewrite
until it is written out. The stages of the depth suite run one after the other with
the captured session; only `run_api_authz_tests` and the probes read the global
headers that `set_auth_header` replaces. At
the end the command line ingests the result into the database; `d4st ingest` may
do the same at any time, and analysts' requests update rows of it meanwhile.
`d4st launch` is a separate program over the adapters: the workflow runner.

## 2. Modules

| Module | Models | Composes |
|---|---|---|
| `HealthRules` | the arithmetic of the stress monitor, as operators | |
| `TargetHealth` | the monitor alone, under any order of answers | extends `HealthRules` |
| `SessionKeeper` | the keeper and the application's sessions | |
| `Engagement` | `run_engagement`, stage by stage | extends `HealthRules` and `SessionKeeper` |
| `AdaptiveThrottle` | the backoff governor of the depth suite | |
| `StallWatch` | the watchdog around ZAP | |
| `LiveFeed` | `_Progress`, the console's live list and the final ingest, for several scans | |
| `ScanRegistry` | abstract: what the store promises for one scan | |
| `TriageStore` | `ingest` and the triage requests, transaction by transaction | refines `ScanRegistry` |
| `ActiveTargets` | which target gets to which engine: discovery, filters, OpenAPI seeding | |
| `Workflow` | the convergence loop and the frontier | |
| `Sublists` | the elements of a sequence that pass a test, in their order, with the set they form in the open | |
| `Replays` | the replay checks (`verify_cmdi` to `verify_disclosure_live`), each as a script of requests and its verdict | |
| `ProbeList` | abstract: the list one thread would build | |
| `ProbePool` | `probe_targets`: threads, evidence buffers, injection shapes, ordered collection | extends `Replays` and `Sublists`, refines `ProbeList` |
| `Findings` | a finding from its detection to the report | extends `Replays` and `Sublists` |
| `DepthStages` | launch gate, API tests and the stages of the depth suite, as decision procedures over answers | |
| `DepthSuite` | those stages in their order, against a server, its shared cache and a session that may end | extends `DepthStages` and `Sublists` |
| `MCEngagement`, `MCTriageStore`, `MCLiveFeed`, `MCWorkflow`, `MCActiveTargets`, `MCProbePool`, `MCFindings`, `MCDepthSuite` | the values of the constants for TLC | |
| `Supervision_proofs` | theorems about `TargetHealth`, `AdaptiveThrottle`, `StallWatch`, `LiveFeed` and `TriageStore` | extends all five |
| `Engagement_proofs`, `Workflow_proofs`, `ActiveTargets_proofs`, `ProbePool_proofs`, `Findings_proofs`, `DepthSuite_proofs`, `Sublists_proofs` | theorems about the module each is named after | |

The definitions of the first four modules of `Supervision_proofs` carry a letter of their
module (`HInit`, `TNext`, `WInv`, `LTypeOK`), so that one module can extend them all.

Definitions whose comment begins "Wrong variant" are plausible mistakes next to the
definition they would replace. No specification uses them; putting one in the
place of its neighbour must break the property named for it in `PROJECT.json`, which
shows that the property can tell a good program from a bad one.

### 2.1 Correspondence with the code

**Engagement.** One action per stage of `run_engagement`, or per turn of a stage's
loop, under the label `pc`; the order of the labels is the order of the function.
`cookie` is the function's local variable; `local` is the one of `discover_targets`
and later of `run_roster`, whose refreshes the caller does not see. `level` is the
depth `run_roster` was entered with. `launch` names the engine the step ran, with
the depth and the cookie it was given, and is the subject of most properties; `ran`
is the history of engines, `blind` counts those that ran since the session ended and
nobody looked. `HasUrls` and `gets` decide whether nuclei and the stages fed by URLs
have anything to do: without a URL, or without a GET target that has parameters, they
return before they start a tool. A stage that calls `ensure`, `check` and an engine does
all three in one action, in that order, because nothing else runs in that process;
the application, however, may end the session between any two actions
(`SessionDies`). The stages of the active depth suite are the elements of
its definition `DepthSuite` (not the module of that name), in order. `Claimed` is the arithmetic of the engine report: recon and
ZAP are asked what they did, the other engines count as run whenever active scanning
was on. What engines find, which targets they get and the evidence steps are in the
other modules. Left out: a stage that leaves the scan by an exception nobody catches.

**SessionKeeper.** `keeper` and `reauths` are the object's fields, `valid` the set of
cookies the application honours. A probe tells the truth, fails (the code then
assumes the session alive), or is misread (the page hides the marker, or redirects
to an address that contains "auth"). A login fails, returns the same cookie, opens a
session beside the old one, replaces it, or returns a cookie that does not work; and
since the command may be cut off after three minutes or print nothing usable, it may
also open or replace a session that nobody gets to know of ("unseen"). Cookies are
numbered in the order they are issued. `unnoticed` is a history: the session has
ended and `ensure` has not been called since.

**TargetHealth.** `check()` in one action: a halted monitor returns before it pings;
a hard failure costs two strikes, a slow answer one, a good one takes one back. `seen`
counts the answers and is what the properties compare the stage with.

**AdaptiveThrottle.** `record()` split by what was answered. The streak is counted up
to five, the only value the code asks for. Delays are in ticks, so that every halving
reached is exact.

**StallWatch.** Time is counted in polls of 15 seconds. Between two polls, the
process may write lines, burn CPU (none, up to a second, more: the threshold of
`_did_work`), lose children (whose CPU time leaves the sum), or close its output;
`Poll` is one turn of the loop. `ReaderEnds` is the reader thread ending while the
process runs, and `Wait` and `KillAfterwards` are what follows: half a minute for the
process to end, then a kill, still reported as completed. `Blind` lets the CPU probe fail, `Container` asks
`docker stats` in place of `ps`.

**LiveFeed.** The three steps of `_Progress._write` (open for writing, dump, replace)
are separate actions, and a scan may be killed between any two. An open file keeps its
identity when another process renames it, hence the case in `Dump`.

**TriageStore.** The committed rows of one scan, the write lock, and the rows of the
transaction in progress. Python's `sqlite3` opens a transaction at the first DELETE,
so `ReadCarry` lies outside and `Wipe`, `InsertFinding`, `Commit` inside. Ids are
handed out afresh after the wipe, as SQLite does for a table without AUTOINCREMENT
when it is empty; with other scans in the table, ids start higher and the same reuse
happens at its end. `Crash` is a killed process or one that gave up on a lock. A triage
request checks the row in one step and updates it in another, as the endpoint does.

**ActiveTargets.** The path of data through the stages that `Engagement` models as
control. A target is a path (for host and path), a method, the kinds of its
parameters, and the `query` its address brings along (all of them for a link, none or
some for a form); `Targets` abstracts `Target`. nuclei is handed the bare address, the
roster and sqlmap what `_materialize_url` makes of it: the parameters in the address,
unless a form's action has a query of its own, which is then left as it is. `FetchForms` is one turn of the loop of
`discover_targets`: the page's forms, those of the login page when the session is
lost by then, or none. `DropSoft404` may take any paths for catch-alls.
`ExcludeUnsafe` is the chain of filters, in its order (`OffAuth`, `CredPathsOf`,
`NoChange`, `Allowed`); `SeedFromOpenAPI` has the shorter chain of its own
(`Seedable`). Every engine stage records in `hits` what it sends where, and takes its
input from where the code does: `active` (nuclei, roster, probes, sqlmap), the crawled
pages (form security), `document` (api-authz) or `urls` (ZAP). `ZapFeed` and `ZapReaches` have
ZAP's two fallbacks: the target itself when nothing is left to feed it, its spider when
there is no frontier at all. Left out: the DOM pass
and the sampling under `D4ST_INJECT_CAP`, which is off by default. `found` is a history of what discovery
ended with.

**Workflow.** `Raws` are URLs as reported, `Key` the function that `normalize_url`
is on them. Each tool reports any batch; `AddUrls` is the whole of `add_urls`, scope
gate and news flag included. A batch with a URL that `urlsplit` refuses ends the run
(`Abort`).

**Replays.** A check of `engagement.py` is a record: the payloads it sends in order
(one for each kind of payload in the code's list), which sets of telling answers prove
at once or only when the script is used up, which lost answers end it, which answers
it must have to go on, whether it records its exchanges, and whether it follows the
target's shape. `Verdict` reads that record after each answer. `verify_sqli`, for
instance, is proved by an error on the quote, by a page that differs between true and
false and sides with the benign one, or by a delay that a second payload confirms.

**ProbePool.** `Take`, `SetShape`, `Begin`, `Send`, `Raise`, `Return` are the steps of a
thread of the pool, one request each; `Gather` is the caller's loop over `ex.map`.
`buf` and `ctx` are `_EVID.buf` and `_INJ.ctx`, which are thread-local: `Slot(w)` says
whose copy a thread uses. A thread keeps its shape from target to target until it sets
the next one, after two checks that do not read it. `Program` is the order of checks
of a target; CSRF hits are held back and collapsed at the end (`CsrfFindings`).

**Findings.** One action per step, one turn of the loop per action where a step asks
the application. A finding is a record of what the steps look at: its class, place and
parameter, what proves it (`evid`: exchanges, captures, tool output, placeholders), the
header it is about (`says`), and whether it claims a file (`exists`) or discloses a
key (`secret`). `EndingsOf` computes from `Replays` how each replay can end.
`CaptureRaises` leaves the shared `try` at any turn; the captures made so far stay, gate
and dedup are skipped, the backfill runs. `heard` is a history: whether a
refutation rests on answers to every request.

**DepthStages and DepthSuite.** A stage is an operator of the current unit (a URL, or a
URL and a header), the answers so far and the session: it says what to report and
what to ask next, so one operator is the decision procedure of one function of the
code. A request is its credentials, method, input, forged header and cache-buster; an
answer is a status, a size in units of 100 bytes (`_similar` compares lengths) and
marks, the facts that text matching looks for. `DepthSuite` runs the stages in the order of
the code (`NextStage`, `Request`). The server side is environment: per URL a guard, a
way to refuse, *flaws* (what a stage looks for) and *habits* (what resembles it: pages
that vary, errors that are always there, a catch-all page); which of the three
credentials it honours; a shared cache that other users fill (`Visit`), also of the
login page; a session that may end (`SessionEnds`). A stage that follows redirects takes
its headers to the login page (`LoginPage`), whose cache entry it may fill
(`FillsLogin`). A refusal page may be as long as the data (`lookalike`), and a directory
may have a page of its own for what it lacks (`local`), while the stage takes its
baseline at `Root`. `Units` are the URLs a stage considers: of its kind, and among the
first `Cap` allows, counted as each stage counts (`First`, `WithId`, `NewPaths`). `Runs`
has the condition of the whole suite: something of the session in the browser's
storage, or the wish to go deep without one. Left out: the bounds on findings of a
stage (12, 15 or 10), which only stop it early after that many reports, and the bound of
four objects a write test tries, which ends it after A's own. At most `MaxAdverse` answers per unit are lost or are an
overload block. `Bearer` is the token `set_auth_header` was given: from the session,
from a crawled URL, or from the hook.

## 3. Runs

Each `.cfg` is named `MC` and the name of the run.

| Run | Question | Instance | Result |
|---|---|---|---|
| `Engagement` | Do all engines respect policy, halt and session, is a lost session soon noticed, is the report true, does the scan end? | 12 configurations (named policies, with and without keeper, API, session, GET targets, engines), any answer to any ping, roster of 3 tools, 1 page, 5 targets, 2 new cookies, all kinds of misleading probes and failing logins | 798,468 states; holds |
| `TargetHealth` | Is the alarm neither false nor missed, and one-way? | every order of up to 8 answers | 272 states; holds |
| `AdaptiveThrottle` | Are relaxations earned, does stress slow it, does it return? | base 0.1 s, cap 5 s, up to 9 refusals | 355 states; holds |
| `TriageStore` | Is the store an atomic registry, and which verdicts survive? | 2 keys, 2 verdicts, 2 analysts, 2 ingesters, 3 ingests, 2 judgements, crashes | 130,303 states up to symmetry; holds |
| `Workflow` | Does the loop stay in scope, and admit what it cut? | 7 URLs, 2 crawlers, 2 scanners, 2 rounds | 2,970 states; holds |
| `StallWatch` | Who is killed and who is spared? | window of 2 polls, ceiling of 6, a last wait of 2, children ending, the reader ending early | 40,730 states; holds |
| `LiveFeed` | Is the record whole and latest, do dead scans fade? | 2 scans on one host, 2 stages each | 5,184 states; holds |
| `ActiveTargets` | Which engine may touch which target, and does every target get to its engines? | 7 paths, crawled whole or from the start page alone, 4 kinds of policy, sessions lost at any page, any catch-alls, with and without an API document | 1,084,841 states; holds |
| `ProbePool` | Is each proof its finding's own, and the result that of one thread? | 2 threads; a path target, a login, a JSON target; CSRF, DOM, SQL and stored-XSS checks; any answer lost, any check raising; 3 exchanges kept | 228,991 states; holds |
| `Findings` | Is a finding lost, left without proof, or unproved on its way? | 10 findings, 2 URLs, 3 pages each, any not-found page, any answer lost, any turn raising | 23,832 states; holds |
| `DepthSuite` | Is what the suite reports so, and what is open reported? | 4 URLs, one of them beyond most caps, all 20 stages, 1,925 initial states (a server, what it trusts, the session), up to 2 adverse answers per unit, session ending at any time | 844,789 states; holds |
| `TriageStoreRace` | Does a verdict given during an ingest survive? | 1 analyst, 1 ingester | violated, see 5 |

**Why the bounds are enough.** `SqlTargets = 5` reaches the re-probe at the fourth
target and one turn after it; three tools give an active one before and after one
that is not, and one that is not installed; two new cookies let a session be lost,
replaced and lost again. Four strikes halt the monitor, so eight pings allow four
decays. Nine refusals take the throttle from the base to the cap (64 to 3,200 ticks
is six doublings) and past it three times. Three ingests are a first one, one that
carries, and one that overlaps it or comes after it; two judgements conflict or
chain; two keys are enough to confuse one row with another. In `Workflow`, two rounds
are one that is allowed to continue and one at the cap. In `StallWatch`, a ceiling of
three windows lets a window start, be renewed and run out. The site of `ActiveTargets`
has a path for each combination of filters that behaves differently: plain, login,
state-changing, a password form on a plain path and one on an authentication path (as
a GET and as a POST), a static file, and another host; a GET form whose action has a
query of its own, and crawls that leave ZAP with nothing but noted paths or static ones. In `ProbePool`, two threads and two targets of
different shape, around one that is skipped, give every way in which one target's
exchanges or shape could reach another's; three kept exchanges are fewer than the
seven of the SQL check, so the buffer overflows. The findings of `Findings` are one per
way a step can treat one: replayed or not, proved or not, the same place twice, with
and without a response, a header on one page or two, a file that may not exist, a key.
The servers of `DepthSuite` are a sound one, each flaw alone, and each flaw with the
habit that hides or mimics it; the fourth URL is open, and lies beyond the cap of most
stages or repeats a path, so that one of the first must be told from one that is not; two adverse answers are what it takes to blind both sides
of a comparison. The proofs of section 4 remove these bounds for every safety property
of these runs.

**Deadlock** is checked for `AdaptiveThrottle`. In the others the
system does stop: a scan ends (`Engagement`, `ActiveTargets`), a monitor that has halted pings no more, a process is
gone, a pool has drained, the list is written out, the suite is through,
analysts and ingesters reach their bounds.

**Fairness.** `Engagement!FairSpec` asks that the scan takes its next step when there
is one: it is a single thread, and every engine it waits for has a timeout of its
own. Nothing is assumed about the application. `AdaptiveThrottle!FairSpec` asks that
clean answers keep being recorded: the suite sends further requests, and the bound on
refusals stands for a target that recovers. `LiveFeed!FairSpec` asks only that time
passes. `ProbePool!PSpec` asks that each thread which can take a step takes one, since
every request has a timeout, and that the caller does; no thread is assumed to be
faster than another.

**Properties.** `GatedEnginesRespectHalt` is about engines that *are* guarded by the
monitor, in five ways at five places. `EnsuredEnginesHoldSession` compares two
copies of the cookie in the presence of refreshes made elsewhere. `ReportIsHonest`
compares what the scan says of its engines with the history, in a scan that was never
halted, lacks no engine and has a target for each (5.2 and 5.3 say what happens otherwise).
`LossIsSoonNoticed` bounds how many of the engines the keeper looks after run between the
end of a session and the next look, over the loops of tools and targets and whatever is
skipped; `NoThrashOnBlip` relates the keeper to the application.
`AlarmFitsHistory` bounds the stage from both sides by the answers heard.
`VerdictsSurviveQuietIngest` says exactly which verdicts are safe: those given while
no ingest is between snapshot and commit. `ImplementsRegistry` says that, seen through
committed rows, the store is the atomic registry of `ScanRegistry`, in which a
publisher keeps the verdicts *of the moment it began*. `FoundIsTested` and
`PolicyIsKept` pull in opposite directions: nothing the policy spares gets to the
engines, and nothing else is lost on the way. What is sent counts with its parameters;
nuclei is only promised the address, and the roster and sqlmap not the fields of a GET form
whose action has a query. `ZapSparesNotedPaths` names both fallbacks of `run_zap`. `CapsAreHonest` says
that without a recorded cap every discovery tool has been given everything, that a
recorded cap was really hit, and that no more rounds ran than it allows.

`ProofIsOwn` is about the reuse of threads: the proof of a finding holds exchanges of
one check on one target, and in that target's shape although the thread's shape was
another's before. `ToldByItsProof` says the exchange that proves is the last one shown, from a buffer
that forgets the oldest; only the XSS check tries on behind it. `OneByOne` is the refinement of `ProbeList`; `Drained` its
liveness. `NothingIsLost` accounts for every finding a detector raised: it is in the list, or an
earlier one stands for it, or a response on record about it (its own page, or one it or a
duplicate arrived with) speaks against it, or the same header on the same body is listed.
`ProvenStaysProven` asks of every step that a finding that counts as proved stays so, and
names the four ways in which the code lets it go (`YieldsInMerge`, `YieldsAtGate` twice,
`YieldsInDedup`): the merge keeps an earlier finding of the same place with whatever
verdict that has. `NativeProofSurvives` follows a proof through seven steps that rewrite it.

`ReportedIsSo` and `ExposureIsReported` are soundness and completeness of the suite.
Neither holds without exception, and the exceptions are the content: `Misled` names the
ways in which an answer is not what a stage takes it for, one by one, and any wrong
report outside that list is a violation; `ExposureIsReported` asks for a stage that runs
and heard every answer with its session alive, is about the URLs its cap lets it
consider, and excepts only a session whose headers were `Displaced` by another bearer. `GateKnowsTheSession` says the same, both ways, of the
launch gate. `OthersAreSpared` follows what a cache-poisoning probe leaves behind, also where it is
redirected to: it names the login page's own entry.

## 4. Theorems

All hold for every value of the constants that the named assumptions allow. A
hypothesis beyond them is in the last column.

| Module | Theorem | Says |
|---|---|---|
| `Supervision_proofs` | `AlarmsAreSound` | `AlarmFitsHistory`, over any number of pings |
| | `DepthIsMonotone` | `NeverDeeperAgain`: the stage never falls and the depth never rises, whatever the base level |
| | `DelayStaysInBounds` | the delay stays between `Base` and `Cap`, when Base <= Cap |
| | `StressIsProtective`, `RelaxationsAreEarned` | `StressNeverSpeedsUp`, `RelaxationIsEarned`, when Base <= Cap |
| | `WatchIsPrompt` | `HungIsNoticed`, with any probe |
| | `WatchIsPatient` | `BusyIsSpared`, for a process tree whose CPU probe always answers (`Sighted`) |
| | `RecordsAreLatest` | `RecordIsLatest`, when no two scans have one process id |
| | `StoreIsRegistry` | `ImplementsRegistry`: every behaviour of the store is one of `ScanRegistry` |
| | `QuietVerdictsSurvive` | `VerdictsSurviveQuietIngest`, when the keys of a result are distinct (`KeysDistinct`) |
| | `RowsAreWhole` | `PublishedIsWhole` |
| `Engagement_proofs` | `HaltIsRespected` | `GatedEnginesRespectHalt` |
| | `PassiveIsSilent` | `PassiveOnlyIsSilent` |
| | `SessionIsHeld` | `EnsuredEnginesHoldSession` |
| | `SessionsAreNotThrashed` | `NoThrashOnBlip`, for the keeper inside a scan |
| | `LossesAreNoticed` | `LossIsSoonNoticed`, for any roster and any number of pages and targets |
| | `ReportsAreHonest` | `ReportIsHonest`, when `SqlTargets > 0` |
| `Workflow_proofs` | `ScopeHolds`, `CoverageIsHonest` | `ToolsStayInScope`, `CapsAreHonest` |
| | `RoundsAreBounded` | the part of `CapsAreHonest` about rounds, by itself |
| `ActiveTargets_proofs` | `PolicyHolds` | `PolicyIsKept`, for any site, document and policy |
| | `OnlyDocumentRestores` | `FoundCredentialFormsAreSpared` |
| | `ZapKeepsOff` | `ZapSparesNotedPaths` |
| | `NothingFoundIsLost` | `FoundIsTested` |
| `ProbePool_proofs` | `ProofStaysOwn` | `ProofIsOwn`, for any number of threads and targets |
| | `ProofTells` | `ToldByItsProof`, when at least two exchanges are kept |
| | `PoolIsList` | `OneByOne`: every behaviour of the pool is one of `ProbeList` |
| `Findings_proofs` | `EveryFindingHasAProof` | `ShippedWithProof` |
| | `EveryFindingIsAccounted` | `NothingIsLost` |
| | `DetectorProofStays` | `NativeProofSurvives` |
| | `ProofIsNotTakenBack` | `ProvenStaysProven`, a property of steps |
| | `PipelineInvariance` | the invariant of the four: what each step of the pipeline keeps of the list |
| `DepthSuite_proofs` | `FindingsAreSo` | `ReportedIsSo`, for any crawl, server, cache, loss and session |
| | `CacheOfOthersIsSpared` | `OthersAreSpared`: the login page's entry at most |
| | `GateIsRight` | `GateKnowsTheSession` |
| | `DepthInvariance` | the invariant of the three: what a stage has heard and noted fits the server it asks |
| | `NothingHides` | `ExposureIsReported`, for any crawl, caps, server, session, second account and bearer |
| | `ExposureInvariance` | its invariant, on top of the other: a stage that hears every answer has reported what it owes to the units behind it |

The type invariants are theorems too: `HealthTypes`, `ThrottleTypes`, `WatchTypes`,
`FeedTypes`, and `TypeCorrect` for the store, for `Workflow` and for `ActiveTargets`. In the
other modules types are part of the inductive invariant.

**The hypotheses** are about the code's own constants or its environment. `SqlTargets > 0`:
with no target for sqlmap the loop is empty, but the code still claims that sqlmap ran
(`MissingToolIsAlarm` in section 5.2 is the like case of a tool that is absent). Two kept exchanges: a check that
decides by comparison needs the last two; the code keeps 40 (`engagement.py:992`).
Distinct process ids: containers break it (`MCLiveFeedShared`). `Base <= Cap`, `Sighted` and
`KeysDistinct` are refuted without by `MCAdaptiveThrottleSlow`, `MCStallWatchBlind` and
`MCTriageStoreTwice`.

**The arguments.** Each `_proofs` module has an inductive invariant (`IInv`, or one for each
theorem) and a lemma that a step preserves it, with one step per action.

- *TargetHealth.* The stage alone says nothing about the answers. `HInv` ties it to
  the strikes (`StageMatchesStrikes`) and the strikes to the history
  (`StrikesAccountForPings`: the load is at least the strikes and exceeds them by at
  most the good answers). With these, soundness of the alarm is arithmetic.
- *Engagement.* `IInv` adds to the first three properties, for each label of `pc`, what the
  stages before it have established: the cookie is the keeper's at the labels that
  follow a refresh, and the labels of the active scan are reached only under a policy
  that allows it. `EngineRoles` says which names are which kind of engine, from the
  assumption that roster tools have names of their own. `NoThrashOnBlip` holds of any `ensure`
  on any probe and any login (`EnsureKeeps`), whichever stage calls it. `LossInv` counts the
  engines since the last look from label to label: none is left over where a stage has just
  looked, and in the loop of sqlmap their number follows the turn modulo four. `ChainInv` carries
  the history of engines from label to label: past a stage its engine has run, unless it
  was not installed or the monitor had halted; so what `Claimed` computes at the end from
  policy and outcome agrees with `ran`, as long as no engine and no target is missing.
- *AdaptiveThrottle.* The delay lies between base and cap, and the streak the code
  keeps equals the calm since the delay last changed, which is what earns a relaxation.
- *StallWatch.* `ClockInv` bounds the work clock from both sides while the process
  runs: never behind the last real work a sighted probe has seen (so a busy process is
  spared), never ahead of the last line or the period after the last CPU burned (so a
  hung one is not waited for).
- *LiveFeed.* `LInv` says what the temporary file of a scan may hold at each step of a
  write: an open file, maybe torn, at the dump, and a whole record of that scan and of that
  moment at the rename. A kill leaves the scan where it stands, so the record in
  place is the last one renamed.
- *Workflow.* `RoundInv` says what each tool has seen: as long as the news flag is
  down, every discovery tool that has had its turn in this round was given all of the
  frontier; once it is up, the frontier has grown since the round began.
- *TriageStore.* One lemma per action. `IInv` says what a transaction holds at any point:
  `Inserted`, exactly the first findings of its result, each under its position and with
  the verdict carried. From it a commit is a whole result (`WholeResult`), which gives the
  refinement (`Begin` is the reading of the carry, `Publish` the commit, `Abandon` the
  crash, `Judge` an UPDATE that hits the last row of its key; the rest stutters) and the
  count of the rows. `Kept` follows the verdict of an undisturbed key wherever it is, in
  a row or in the carry of an ingest. `KeysDistinct` is needed: `MCTriageStoreTwice`
  refutes the claim without it. `Sane` keeps "every key has a row with the highest id",
  which a finite table has anyway, as part of the invariant.

- *ActiveTargets.* `IInv` says that every active target is `Clean`: the policy allows
  it, and it changes no credential unless the document brought it back. Filters and
  seeding both establish it (`FilterPreserves`, `SeedPreserves`), and an engine sends
  nothing but active targets (`SendPreserves`, `RosterIsFedByTargets`). `ZapKeepsOff` needs
  that the noted paths are those of all found credential forms once the filters have run,
  that no later step notes or forgets one (`ZapInv`), and what is left to ZAP when the
  noted paths are all there is (`ZapMaySee`). `NothingFoundIsLost` follows a found target through the labels:
  it stays in `active` from the filters on, and once a stage is behind it, the stage has
  hit it, unless the monitor halted the scan (`TestedInv`).
- *ProbePool.* `PInv` has four parts besides the types: between checks a thread's buffer
  is empty; during one it holds only exchanges of that check on that target
  (`BufferIsOwn`); after the shape step the thread's shape is its target's
  (`ShapeIsOwn`); and what was found obeys the property (`FoundIsOwn`). `ShapeIsOwn` is
  what makes the reuse of threads harmless: it relates the step a thread is at to the place
  of the shape step in the target's program, before every shaped check.
  `ProgramAssumption` states the type of `ParamProgram`, a definition by a fold that the
  prover cannot unfold; TLC evaluates the assumption on every run.
  `ToldInv` is about the buffer: while a check goes on nothing it heard has settled it
  (`StillOpen`), so the exchange that settles it is the last one recorded; the XSS check
  keeps a suspicion while it tries on, and shows what it tried behind it. The refinement needs
  three more: a target that waits has no findings and a taken one has a single thread
  (`Assigned`); what a target's list holds is in the order of its program and from steps
  its thread has behind it (`Ordered`); and no CSRF hit is in the caller's list before the
  last target is read (`Collected`).
- *Findings.* `FInv` knows three ages of the list. Until ZAP has reported it is what arrived,
  index by index (`InPlace`); at the merge it is that in the same order, less what ZAP
  claimed and the application denies (`InOrder`); from then on every arrival is denied,
  accounted for through the one that stands for it (`AllAccounted`), and a listed finding
  holds the exchanges of its own or of a duplicate that had any (`AllPaid`). The order matters:
  the merge keeps the first, and only in arrival order is that the one the property names.
- *DepthSuite.* `SInv` says what a unit has heard so far (`Heeded`): each answer came to the
  request the stage asks at that point, and `Past` says what it shows of the server. One
  lemma per stage (`GateIsSound` to `BackupIsSound`) then follows its decision table and
  shows that a report is so or `Misled`. Between units only the caches and the notes carry
  over: the cache-poisoning probe left no entry but the login page's (`Caches`), and the page
  that stands for a missing file at the root is noted before the first copy is asked for
  (`AfterBaseline`).

  `ExposureIsReported` needs the converse: the stage that should report does. `XInv` says
  it in progress. While the stage is `Listening` (no answer lost or blocked, session
  alive), every unit behind it is `Paid`: what the stage `Owes` it has been `Shown`, and a
  listing the session opens has named somebody else's object. What the present unit has
  told is `ToldOf`: the first answer was A's whole page, the next ones refusals. The
  invariant rests on `SInv`, whose `Past` says what each answer was. One lemma per stage
  (`ApiExposureIsFaithful` to `OthersIsFaithful`) follows the decision table the other
  way: the stage asks on until it has said what it owes. `UnitsCover` and `ApiUnits` show
  that no URL the property is about, within the caps, was left out of the units, and `ListingsFirst` that
  every listing is read before the first write to somebody else's object. Only the token
  stage may leave units out: it stops after the first URL that refused a request without a
  token. That URL is gated (`JwtGates`), which is why the property asks that no other API is.

- *Sublists.* `Nth` counts through a set of indices; the lemmas say that a sublist has exactly
  the selected elements, in their order and as often. They take the place of facts about
  `SelectSeq`, whose definition by recursion the provers cannot use.

**What the proofs corrected.** Several definitions changed because their theorem failed.
`Misled` lacked the refusal page that a registration is answered with, the cached listing
in which it is looked up, and pages that vary where a missing file is asked for; TLC had no
server with those habits, and has them now. `GateKnowsTheSession` lacked the cached home
page. `NothingIsLost` compared whole pages where the dedup of shells compares bodies, and
`NativeProofSurvives` forgot that a duplicate may be denied before the merge; `MCFindings`
gained the two findings that tell the difference. `Misled` also lost two cases no
behaviour needs.

**Only model-checked.** Termination of a scan, the return to the base pace, the fading
of dead records and the draining of the pool (`Termination`, `ReturnsToBase`, `GhostsFade`,
`Drained`): liveness is beyond the prover. Every other property of the passing runs,
invariant, action property or refinement, is the statement of a theorem above. Nothing
modelled is recursive.

## 5. What the runs found

### 5.1 Listed

A verdict given between the snapshot and the wipe of a re-ingest is acknowledged and lost
(`TriageStoreRace`, `store.py:149`).

### 5.2 Configurations to be run by hand

The following end in a counterexample (`tlc -config X.cfg M`). Where the first column
says "in", the property takes the place of the properties of that configuration.

| Configuration (module) | Property | What is promised | What happens |
|---|---|---|---|
| `MCEngagementHalt` (`MCEngagement`) | `HaltStopsActiveScan` | stage 2 means "halt active scanning" (`safety.py:314-317`) | api-authz, authz, the depth suite and the replays do not ask the monitor |
| in `MCEngagementHalt` | `MissingToolIsAlarm` | "a missing tool shows up as an alarm rather than a silent gap" (`README.md:130-131`) | nuclei-dast and sqlmap count as run whenever active scanning was on, installed or not |
| in `MCEngagementHalt` | `RosterDepthFollowsStress` | "level_override caps injection depth under target stress" (`engagement.py:2081`) | the depth is read once, before the first tool |
| `MCEngagementCookie` (`MCEngagement`) | `CookieReachesEveryTool` | the cookie is refreshed "for every downstream tool" (`engagement.py:2329-2331`) | a refresh inside `discover_targets` or `run_roster` does not reach the caller until its next `ensure` |
| in `MCEngagementCookie` | `DeadSessionHaltsScan` | "If the session dies, the scan halts loudly" (`README.md:99-101`) | the scan goes on with the dead cookie |
| `MCEngagementAuthed` (`MCEngagement`) | `AuthedAtEndIsHonest` | a failed re-authentication is reported by `authed_at_end` (`engagement.py:3637-3639`) | a final probe that errs counts as alive |
| in `MCActiveTargets` | `CredentialFormsNeverFilledIn` | "never actively fuzz a password/credential-CHANGE form ... ALWAYS (any profile)" (`engagement.py:2869-2872`) | the form-security stage submits it (`formchecks.py:79`), and the OpenAPI seeding hands it to the other engines |
| in `MCActiveTargets` | `AuthNeverTested` | authentication endpoints are "NEVER actively tested under any profile" (`engagement.py:2654-2655`) | form security and api-authz post to them |
| in `MCActiveTargets` | `NoPostUnlessFuzzing` | production-safe "skips POST-form fuzzing entirely" (`engagement.py:2887`) | form security submits POST forms |
| in `MCActiveTargets` | `ActsAlwaysSpared` | "never fuzz destructive/notifying endpoints" (`engagement.py:2880`) | api-authz and form security do not ask |
| `MCActiveTargetsScope` (`MCActiveTargets`) | `AttacksStayInScope` | every consumer "only ever sees in-scope targets" (`scope.py:11-12`) | a form action, or the `servers` entry of a document, on another host is not checked |
| `MCActiveTargetsZap` (`MCActiveTargets`) | `ZapSparesCredentialForms` | credential-change forms are kept "out of ZAP's frontier too" (`engagement.py:3495`) | a POST form on an authentication path is dropped by the filter before, and its path is not noted |
| in `MCActiveTargets` | `FormsAreMaterialized` | form targets become "concrete ?a=b URLs so the URL-list injection tools actually test form-based injection points" (`engagement.py:2998`) | a GET form whose action has a query of its own is handed on without its fields (`engagement.py:733`) |
| in `MCWorkflow` | `NeverSunk` | an adapter never raises "so one tool failing never sinks the workflow" (`orchestrator/adapters/base.py:8-9`) | `urlsplit` raises on one malformed URL a tool reports, and nothing catches it (`orchestrator/workflow.py:102`) |
| in `MCWorkflow` | `FindsFeedFrontier` | zap "feeds the frontier too" (`workflows/core.yaml:26`) | URLs of detection tools go nowhere |
| `MCFindingsHidden` (`MCFindings`) | `HiddenMeansRefuted` | the report drops "false positives d4st's own verification caught" (`report.py:1121-1123`) | a finding whose replay lost an answer, or cannot reach its parameter, counts as refuted and is hidden; so is every assessed secret |
| in `MCFindingsHidden` | `ProvenIsShown` | a "richer duplicate" wins "its proof" (`engagement.py:3508`) | the merge keeps the first of two findings of one place; refuted, it hides the proved one behind it |
| in `MCDepthSuite` | `OnlyItsOwnEntries` | the probes "can NEVER poison a shared key that real users hit" (`activetests.py:390-391`) | a probe redirected to the login page asks for it with the forged header, under the page's own key |
| in `MCDepthSuite` | `BrokenAuthServesData` | "a 200 with real data = BROKEN AUTH" (`auth/authz.py:7`) | an empty redirect to the login passes for served data if the session itself got an empty redirect |
| `MCStallWatchBlind` (`StallWatch`) | `BusyIsSpared` | a process "quietly grinding" is never killed (`engagement.py:154-155`) | one failed CPU probe sets the work clock back to the last output (`engagement.py:200`), and a busy, quiet process is killed |
| `MCStallWatchSlow` (`StallWatch`) | `GrindingIsSpared` | a grinding process "is NEVER killed for being slow" (`engagement.py:154-155`) | less than a second of CPU per poll counts as idle |
| in `MCStallWatch` | `KilledOnlyWhenHung` | a process is killed "ONLY when it is genuinely hung" or past the ceiling (`engagement.py:151-155`) | once the reader has ended, a working process has 30 seconds left (`engagement.py:213-216`) |
| `MCAdaptiveThrottleSlow` (`AdaptiveThrottle`) | `NeverFasterThanBase` | "never speeds it past the base delay" (`safety.py:176`) | a base above the cap, as with `D4ST_RPS=0.1`: the first refusal shortens the delay to the cap |
| `MCTriageStoreTwice` (`MCTriageStore`) | `VerdictsSurvive` | triage is carried forward by dedup key (`store.py:14-15`) | of two findings with one key the last one's verdict wins, also when it was the other that was judged |
| `MCLiveFeedShared` (`MCLiveFeed`) | `RecordIsLatest` | ids are "stable + unique per run" (`engagement.py:2235`) | two containers that share the directory have the same process id |
| `MCLiveFeedSlow` (`MCLiveFeed`) | `RunningIsVisible` | "a running scan is visible NOW" (`server.py:119`) | a stage of more than 300 seconds hides its scan |
| in `MCLiveFeedSlow` | `ListedOnce` | live scans are those "not yet in the DB" (`server.py:119`) | the stored scan has another id, and is listed twice until its record fades |

### 5.3 What the models are told to expect

These are weaknesses of the code that the modules contain as behaviour, so that the
properties hold only with the exception named for them:

- *Engines.* Without a URL, or without a GET target that has parameters, nuclei returns before
  it starts (1507, 1594) and is reported as run all the same (3536).
- *Logins.* A login command that is cut off or prints nothing usable may have opened a session,
  and ended the one in use; the keeper keeps the old cookie and tries again at the next look.
- *Targets.* nuclei never gets the fields of a form, only its address (2986).
- *Findings.* The replays run outside the probe contexts, so a finding in a path or in
  a JSON body is never confirmed by one. The merge keeps the first of two findings of
  one place, also when the first was refuted and the second proved (3508). The header gate
  decides by words anywhere in a finding's text what the finding is about: a CSRF
  finding that mentions a header is judged as one about it. The findings of
  `assess_secrets` come as not verified, and so never reach the report.
- *Replays.* A blind SQL finding is proved by the baseline, and what its proof shows
  last may be a page that tells nothing by itself.
- *Identities.* `set_auth_header` replaces all headers of the session at once, also with
  a token found in a crawled URL (`Displaced`). Forged JWTs are sent with the session's
  cookie beside them; the account matrix leaves A's custom header in place; the
  WebSocket and verb stages strip only `Authorization` and `Cookie` (`Misled`, credentials).
- *One sample per verdict.* The JWT oracle, the verb and the matrix stages decide on one
  answer per identity: an overload block passes for a guard. XPath, NoSQL, LDAP and
  parameter-pollution checks never look at the status of their baseline. Pages that vary by
  themselves pass for a difference. A WebSocket hub that does not answer is reported as
  guarded. A secret recovered from a JWT is reported however the server takes the token
  minted with it.
- *API tests.* A registration is not checked for success: a refusal page will do, its name ends
  in the second of the clock and the number of findings, so it may be taken (554), and the
  listing that is to show the new user may come from a cache. The write test may
  hit A's own object, or take the login page it was redirected to for success. Well-formed XHTML counts
  as a list of records.
- *Shared cache.* The host-header stage has no cache key of its own; what it leaves in a
  shared cache is served to others. The cache-poisoning stage does, but follows redirects with
  its forged header: on the login page it has none (`OthersAreSpared`).
- *Lengths.* The identity stages compare pages by their length, within a quarter: a refusal
  page about as long as the data passes for it. The backup stage learns the page for a missing
  file at the root only, and takes another directory's for a leftover copy.
- *Coverage.* Each stage considers the first URLs of its kind up to a cap and says nothing of the
  rest. The suite does not run for a session kept in cookies and headers alone (3067), and a
  stage whose session has ended finds less without a word: what it reports is so, what it
  misses nobody learns.
- *Launch gate.* Without a marker, a token passes on any page that is not the login's
  address, and a cookie on any page served; with one, a page from a shared cache without
  it turns a live session away (`GateKnowsTheSession`).

## 6. Not modelled

`map_bounded`: the same pool around external commands that share nothing. `Politeness`:
its only state is a time. `LockoutMonitor`: no code calls it. `differential.py` and the
matching in `scoring/`: commands of their own use them, not a scan; they are pure and
have unit tests. The token minter's cache: one process reads it once. The opt-in write
verbs are off by default. The WebSocket upgrade needs a library that is not required, and
only adds a frame to a hub already reported. Passive detectors, browser automation, parsing of
tool output, rendering and installation: input and output without control state. An
exception that leaves `run_engagement`: the scan then ends without a report. Read-only
queries of the store, and the tables `ingest` derives from a result, which follow the
findings through the same transaction.

## 7. Plan

1. `DepthSuite` with two flaws at a time on one URL, and with the targets that
   `ActiveTargets` computes as its input.
2. An exception that leaves a stage, as a step of `Engagement`.
