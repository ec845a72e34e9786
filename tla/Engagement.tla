------------------------------ MODULE Engagement ------------------------------
(***************************************************************************)
(* run_engagement (d4st/engagement.py): one scan, stage by stage.  Each    *)
(* action is one stage, or one turn of a stage's loop, with every call it  *)
(* makes: the session keeper before it, the stress monitor's check, the    *)
(* engine itself.  The session may expire between any two of them, and the *)
(* target answers each ping as it likes.                                   *)
(*                                                                         *)
(* What an engine finds is left out; what it was given is kept: `launch`   *)
(* is the engine this step ran, at which depth and with which cookie.      *)
(***************************************************************************)
EXTENDS HealthRules, SessionKeeper, Sequences

CONSTANTS
    Configs,       \* the scans considered, see ConfigType
    Answers,       \* the pings considered
    Roster,        \* the roster's tools in order: [name, active]
    Pages,         \* how many pages discover_targets fetches, if there is a URL
    SqlTargets     \* how many targets carry parameters, if there is a URL

ConfigType ==
    [ tools : BOOLEAN, active : BOOLEAN, fuzz : BOOLEAN, level : 1..5,
      dom : BOOLEAN, zap : BOOLEAN, capture : BOOLEAN,
      keeper : BOOLEAN,            \* probe URL and login are both supplied
      session : BOOLEAN,           \* a captured session object is passed
      deep : BOOLEAN,              \* it has sessionStorage, or unauth_deep is on
      schema : BOOLEAN,            \* an OpenAPI schema is discovered
      gets : BOOLEAN,              \* some active GET target has parameters
      installed : SUBSET STRING ]  \* the command-line engines present

\* The stages of the active depth suite, in order, with those that need an
\* authenticated baseline and those handed the scan's own cookie.
DepthSuite ==
    <<"jwt-attacks", "verb-tampering", "cors", "host-header", "cspp", "xpath",
      "cache-poison", "nosql", "ldap", "hpp", "backup-files", "reflected-input",
      "input-transformation", "api-exposure", "form-security", "websocket",
      "authz-matrix">>
SessionStages == {"jwt-attacks", "websocket", "authz-matrix"}
CookieStages == {"api-exposure", "form-security"}

\* The engines run_engagement starts itself: those that only read, those that
\* attack but are held back from an unhealthy target, and those that are not.
ReadingEngines ==
    {"fingerprint", "crawl", "fetch-forms", "passive", "nuclei-exposures", "pii", "capture"}
HeldBack == {"probes", "dom", "sqlmap", "zap"}
NotHeldBack == {"nuclei-dast", "api-authz", "authz", "verify"}
                   \union {DepthSuite[k] : k \in 1..17}
OwnEngines == ReadingEngines \union HeldBack \union NotHeldBack \union {"none"}

ASSUME EngagementAssumption ==
    /\ Configs \subseteq ConfigType
    /\ Answers \subseteq Pings
    /\ Roster \in Seq([name : STRING, active : BOOLEAN])
    /\ \A k \in DOMAIN Roster : Roster[k].name \notin OwnEngines
    /\ Pages \in Nat
    /\ SqlTargets \in Nat

VARIABLES
    conf,          \* the parameters of this scan
    pc,            \* the stage to run next
    i,             \* turn of the loop inside a stage
    cookie,        \* the local variable of run_engagement
    local,         \* the cookie variable of discover_targets or run_roster
    stage,         \* TargetHealth.stage
    strikes,       \* TargetHealth.strikes
    level,         \* the level run_roster was called with
    launch,        \* the engine run by the last step
    ran,           \* history: the engines that ran in this scan
    blind,         \* history: see Watch
    report         \* what the scan returns about itself

session == <<keeper, reauths, valid, issued, login, unnoticed>>
health == <<stage, strikes>>
vars == <<conf, pc, i, cookie, local, stage, strikes, level, launch, ran, blind, report,
          keeper, reauths, valid, issued, login, unnoticed>>

\* The engines held back from an unhealthy target, and every engine that sends
\* attack traffic.
RosterNames == {Roster[k].name : k \in DOMAIN Roster}
ActiveTools == {Roster[k].name : k \in {n \in DOMAIN Roster : Roster[n].active}}
GatedEngines == HeldBack \union ActiveTools
ActiveEngines == GatedEngines \union NotHeldBack

NoEngine == [engine |-> "none", level |-> 0, cookie |-> 0]
NoReport == [ran |-> {}, warnings |-> {}, level |-> 0, authed |-> "unknown"]

Launch(engine, depth, withCookie) ==
    /\ launch' = [engine |-> engine, level |-> depth, cookie |-> withCookie]
    /\ ran' = ran \union {engine}
Idle == launch' = NoEngine /\ UNCHANGED ran
LaunchIf(condition, engine, depth, withCookie) ==
    IF condition THEN Launch(engine, depth, withCookie) ELSE Idle

Goto(label) == pc' = label /\ UNCHANGED <<conf, report>>

\* The list of URLs is not empty: the crawl, or the API document, gave some.
HasUrls == "crawl" \in ran
Found(n) == IF HasUrls THEN n ELSE 0

Init ==
    /\ conf \in Configs
    /\ pc = "preflight"
    /\ i = 0
    /\ cookie = 0
    /\ local = 0
    /\ stage = 0
    /\ strikes = 0
    /\ level = 0
    /\ launch = NoEngine
    /\ ran = {}
    /\ blind = 0
    /\ report = NoReport
    /\ KInit
-----------------------------------------------------------------------------
\* _session.ensure(...), on any probe and any login.
Reensure == \E probe \in Probes, how \in Logins : Ensure(conf.keeper, probe, how)

\* Wrong variant, kept for mutation: the refreshed cookie dropped.
RefreshNothing == Reensure /\ UNCHANGED cookie

\* cookie = _session.ensure(...)
RefreshCookie == Reensure /\ cookie' = keeper'

\* health.check(): a halted monitor does not ping.
CheckHealth ==
    IF stage >= 2
    THEN UNCHANGED health
    ELSE \E ping \in Answers :
            /\ strikes' = Charged(strikes, ping)
            /\ stage' = Escalated(stage, strikes')
-----------------------------------------------------------------------------
\* Header auth, then the keeper's first ensure() if it is armed.
Preflight ==
    /\ pc = "preflight"
    /\ IF conf.keeper THEN RefreshCookie ELSE UNCHANGED <<cookie, session>>
    /\ Idle
    /\ Goto("recon")
    /\ UNCHANGED <<i, local, health, level>>

\* Fingerprint, crawl (escalated when it comes back thin), discovery tools,
\* API harvest, scope filter and JS pass, all with the preflight cookie.  The
\* fingerprint may fail and the crawl may come back empty.
Recon ==
    /\ pc = "recon"
    /\ launch' = [engine |-> "crawl", level |-> 0, cookie |-> cookie]
    /\ ran' \in {ran \union reached : reached \in SUBSET {"fingerprint", "crawl"}}
    /\ Goto("discover")
    /\ UNCHANGED <<i, cookie, local, health, level, session>>

DiscoverTargets ==
    /\ pc = "discover"
    /\ RefreshCookie
    /\ local' = cookie'
    /\ i' = 1
    /\ Idle
    /\ Goto("discover-page")
    /\ UNCHANGED <<health, level>>

\* One turn of the form loop of discover_targets: the cookie refreshed here is
\* the callee's own.
DiscoverPage ==
    /\ pc = "discover-page"
    /\ UNCHANGED <<cookie, health, level>>
    /\ IF i <= Found(Pages)
       THEN /\ IF conf.keeper THEN Reensure /\ local' = keeper' ELSE UNCHANGED <<local, session>>
            /\ Launch("fetch-forms", 0, local')
            /\ i' = i + 1
            /\ UNCHANGED <<pc, conf, report>>
       ELSE Idle /\ Goto("active") /\ UNCHANGED <<i, local, session>>

\* Wrong variant: the policy's active_scan forgotten.
AttackingAnyway == conf.tools

Attacking == conf.tools /\ conf.active

\* Entry of the active scan: ensure, API surface, OpenAPI seeding, which may
\* give a scan without any URL its first ones.
ActiveScan ==
    /\ pc = "active"
    /\ IF Attacking
       THEN /\ RefreshCookie
            /\ ran' \in {ran, IF conf.schema THEN ran \union {"crawl"} ELSE ran}
            /\ Goto("nuclei-dast")
       ELSE Goto("passive") /\ UNCHANGED <<cookie, session, ran>>
    /\ launch' = NoEngine
    /\ UNCHANGED <<i, local, health, level>>

\* run_nuclei_dast is called in any case, and returns at once when no GET target
\* has parameters.
NucleiDast ==
    /\ pc = "nuclei-dast"
    /\ LaunchIf("nuclei" \in conf.installed /\ conf.gets /\ HasUrls, "nuclei-dast", 0, cookie)
    /\ Goto("roster")
    /\ UNCHANGED <<i, cookie, local, health, level, session>>

Halted == stage >= 2

\* run_roster is entered with the level the monitor allows at that moment.
RosterStart ==
    /\ pc = "roster"
    /\ IF Halted
       THEN Goto("probes") /\ UNCHANGED <<i, local, level>>
       ELSE /\ level' = Level(stage, conf.level)
            /\ local' = cookie
            /\ i' = 1
            /\ Goto("roster-tool")
    /\ Idle
    /\ UNCHANGED <<cookie, health, session>>

\* Wrong variant: the tool launched before the monitor's answer is looked at.
RosterLaunchUnchecked(tool) ==
    /\ IF tool.active THEN CheckHealth ELSE UNCHANGED health
    /\ Launch(tool.name, level, local')
    /\ IF Halted' THEN Goto("probes") /\ UNCHANGED i
                  ELSE i' = i + 1 /\ UNCHANGED <<pc, conf, report>>

\* Wrong variant: a tool refused by the monitor tried again instead of ending
\* the loop.
RosterLaunchRetried(tool) ==
    /\ IF tool.active THEN CheckHealth ELSE UNCHANGED health
    /\ IF tool.active /\ Halted'
       THEN Idle /\ UNCHANGED <<i, pc, conf, report>>
       ELSE /\ Launch(tool.name, level, local')
            /\ i' = i + 1
            /\ UNCHANGED <<pc, conf, report>>

\* An installed tool: an active one is preceded by a check of the target, and
\* the loop breaks when the target is down.
RosterLaunch(tool) ==
    /\ IF tool.active THEN CheckHealth ELSE UNCHANGED health
    /\ IF tool.active /\ Halted'
       THEN Idle /\ Goto("probes") /\ UNCHANGED i
       ELSE /\ Launch(tool.name, level, local')
            /\ i' = i + 1
            /\ UNCHANGED <<pc, conf, report>>

\* One turn of run_roster's loop.
RosterTool ==
    /\ pc = "roster-tool"
    /\ UNCHANGED <<cookie, level>>
    /\ IF i > Len(Roster)
       THEN Idle /\ Goto("probes") /\ UNCHANGED <<i, local, health, session>>
       ELSE IF Roster[i].name \notin conf.installed
       THEN /\ i' = i + 1
            /\ Idle
            /\ UNCHANGED <<pc, conf, report, local, health, session>>
       ELSE /\ IF conf.keeper THEN Reensure /\ local' = keeper' ELSE UNCHANGED <<local, session>>
            /\ RosterLaunch(Roster[i])

ProbeTargets ==
    /\ pc = "probes"
    /\ IF Halted
       THEN Idle /\ UNCHANGED <<cookie, session>>
       ELSE RefreshCookie /\ Launch("probes", 0, cookie')
    /\ Goto("api-authz")
    /\ UNCHANGED <<i, local, health, level>>

ApiAuthz ==
    /\ pc = "api-authz"
    /\ LaunchIf(conf.schema /\ conf.fuzz, "api-authz", 0, cookie)
    /\ Goto("authz")
    /\ UNCHANGED <<i, cookie, local, health, level, session>>

\* run_authz replays the /api URLs, if any, with the captured session object's
\* own cookie.
Authz ==
    /\ pc = "authz"
    /\ \E api \in BOOLEAN : LaunchIf(conf.session /\ api, "authz", 0, 0)
    /\ Goto(IF conf.deep THEN "depth" ELSE "verify")
    /\ i' = 1
    /\ UNCHANGED <<cookie, local, health, level, session>>

\* One stage of the active depth suite.
DepthStage ==
    /\ pc = "depth"
    /\ IF i > Len(DepthSuite)
       THEN Idle /\ Goto("verify") /\ UNCHANGED i
       ELSE /\ LaunchIf(DepthSuite[i] \in SessionStages => conf.session, DepthSuite[i], 0,
                        IF DepthSuite[i] \in CookieStages THEN cookie ELSE 0)
            /\ i' = i + 1
            /\ UNCHANGED <<pc, conf, report>>
    /\ UNCHANGED <<cookie, local, health, level, session>>

\* The replay of the findings so far.
VerifyFindings ==
    /\ pc = "verify"
    /\ Launch("verify", 0, cookie)
    /\ Goto("passive")
    /\ UNCHANGED <<i, cookie, local, health, level, session>>

PassiveScan ==
    /\ pc = "passive"
    /\ Launch("passive", 0, cookie)
    /\ Goto("exposures")
    /\ UNCHANGED <<i, cookie, local, health, level, session>>

\* run_nuclei_exposures returns at once when there is no URL.
NucleiExposures ==
    /\ pc = "exposures"
    /\ LaunchIf(conf.tools /\ HasUrls /\ "nuclei" \in conf.installed,
                "nuclei-exposures", 0, cookie)
    /\ Goto("pii")
    /\ UNCHANGED <<i, cookie, local, health, level, session>>

PiiScan ==
    /\ pc = "pii"
    /\ Launch("pii", 0, cookie)
    /\ Goto("dom")
    /\ UNCHANGED <<i, cookie, local, health, level, session>>

DomProbe ==
    /\ pc = "dom"
    /\ LaunchIf(conf.dom /\ conf.active /\ ~Halted /\ HasUrls, "dom", 0, cookie)
    /\ Goto("sqlmap")
    /\ UNCHANGED <<i, cookie, local, health, level, session>>

SqlmapStart ==
    /\ pc = "sqlmap"
    /\ i' = 0
    /\ IF Attacking
       THEN RefreshCookie /\ Goto("sqlmap-target")
       ELSE Goto("zap") /\ UNCHANGED <<cookie, session>>
    /\ Idle
    /\ UNCHANGED <<local, health, level>>

\* The depth sqlmap is given, after the check that precedes it.
SqlmapDepth == Level(stage', conf.level)

\* Wrong variant: the session looked at one turn later.
LooksAgainLate(turn) == turn > 0 /\ turn % 5 = 0

\* The turns before which the loop looks at the session again.
LooksAgain(turn) == turn > 0 /\ turn % 4 = 0

\* One turn of the sqlmap loop: check, stop on a dead target, re-probe the
\* session every fourth target, run at the depth the monitor allows now.
SqlmapTarget ==
    /\ pc = "sqlmap-target"
    /\ IF i >= Found(SqlTargets)
       THEN Idle /\ Goto("zap") /\ UNCHANGED <<i, cookie, health, session>>
       ELSE /\ CheckHealth
            /\ IF Halted'
               THEN Idle /\ Goto("zap") /\ UNCHANGED <<i, cookie, session>>
               ELSE /\ IF LooksAgain(i) THEN RefreshCookie ELSE UNCHANGED <<cookie, session>>
                    /\ LaunchIf("sqlmap" \in conf.installed, "sqlmap", SqlmapDepth, cookie')
                    /\ i' = i + 1
                    /\ UNCHANGED <<pc, conf, report>>
    /\ UNCHANGED <<local, level>>

\* ZAP: checked, skipped when absent, and "ran" only when it did not fail.
\* A failed run has attacked the target all the same.
ZapScan ==
    /\ pc = "zap"
    /\ IF ~(conf.zap /\ Attacking)
       THEN Idle /\ UNCHANGED <<cookie, health, session>>
       ELSE /\ CheckHealth
            /\ IF Halted' \/ "zap" \notin conf.installed
               THEN Idle /\ UNCHANGED <<cookie, session>>
               ELSE /\ RefreshCookie
                    /\ launch' = [engine |-> "zap", level |-> 0, cookie |-> cookie']
                    /\ ran' \in {ran, ran \union {"zap"}}
    /\ Goto("chain")
    /\ UNCHANGED <<i, local, level>>

\* Wrong variant: ZAP believed to have run whenever it was meant to.
ClaimedByIntent ==
    {"passive", "pii"} \union (ran \intersect {"fingerprint", "crawl"})
       \union (IF Attacking THEN {"nuclei-dast", "roster", "probes", "sqlmap"} ELSE {})
       \union (IF conf.zap /\ Attacking THEN {"zap"} ELSE {})

\* _engine_spec: the engines the scan says it ran.  Recon and ZAP are asked
\* what they did; the other engines of the active scan count as run whenever
\* active scanning was on.
Claimed ==
    {"passive", "pii"} \union (ran \intersect {"fingerprint", "crawl", "zap"})
       \union (IF Attacking THEN {"nuclei-dast", "roster", "probes", "sqlmap"} ELSE {})

Expected ==
    {"fingerprint", "crawl", "passive", "pii"}
       \union (IF Attacking THEN {"nuclei-dast", "roster", "probes", "sqlmap"} ELSE {})
       \union (IF conf.zap /\ Attacking THEN {"zap"} ELSE {})

ChainHealth ==
    /\ pc = "chain"
    /\ report' = [report EXCEPT !.ran = Claimed, !.warnings = Expected \ Claimed]
    /\ pc' = "capture"
    /\ Idle
    /\ UNCHANGED <<conf, i, cookie, local, health, level, session>>

CaptureEvidence ==
    /\ pc = "capture"
    /\ IF conf.capture
       THEN RefreshCookie /\ Launch("capture", 0, cookie')
       ELSE Idle /\ UNCHANGED <<cookie, session>>
    /\ Goto("final")
    /\ UNCHANGED <<i, local, health, level>>

FinalEnsure ==
    /\ pc = "final"
    /\ IF conf.keeper THEN Reensure ELSE UNCHANGED session
    /\ Idle
    /\ Goto("return")
    /\ UNCHANGED <<i, cookie, local, health, level>>

\* The result: the level the last stage allows, and one more probe of the
\* session.
Return ==
    /\ pc = "return"
    /\ \E probe \in Probes :
          report' = [report EXCEPT
              !.level = Level(stage, conf.level),
              !.authed = IF ~conf.keeper THEN "none"
                         ELSE IF Alive(probe) THEN "yes" ELSE "no"]
    /\ pc' = "done"
    /\ Idle
    /\ UNCHANGED <<conf, i, cookie, local, health, level, session>>

\* The environment: a session dies between two steps of the scan.
SessionDies ==
    /\ pc # "done"
    /\ conf.keeper
    /\ Expire
    /\ launch' = NoEngine
    /\ UNCHANGED <<conf, pc, i, cookie, local, health, level, ran, report>>

Step ==
    \/ Preflight \/ Recon \/ DiscoverTargets \/ DiscoverPage \/ ActiveScan
    \/ NucleiDast \/ RosterStart \/ RosterTool \/ ProbeTargets \/ ApiAuthz \/ Authz
    \/ DepthStage \/ VerifyFindings \/ PassiveScan \/ NucleiExposures \/ PiiScan
    \/ DomProbe \/ SqlmapStart \/ SqlmapTarget \/ ZapScan \/ ChainHealth
    \/ CaptureEvidence \/ FinalEnsure \/ Return

\* The engines that follow an ensure() of their own.
EnsuredEngines == {"nuclei-dast", "probes", "sqlmap", "zap", "capture", "fetch-forms"}
                     \union RosterNames

\* History: how many of them have run since the session ended unnoticed.
Watch ==
    blind' = CASE ~unnoticed' -> 0
               [] unnoticed' /\ launch'.engine \in EnsuredEngines -> blind + 1
               [] OTHER -> blind

Next == (Step \/ SessionDies) /\ Watch

Spec == Init /\ [][Next]_vars

\* run_engagement is one thread: as long as it has a next step it takes it
\* (every engine it waits for is bounded by a timeout of its own).
FairSpec == Spec /\ WF_vars(Step /\ Watch)
-----------------------------------------------------------------------------
Levels == 0..5
Stopped == pc = "done"
EngineSpec == {"fingerprint", "crawl", "nuclei-dast", "roster", "probes", "passive",
               "pii", "sqlmap", "zap"}

TypeOK ==
    /\ KTypeOK
    /\ conf \in Configs
    /\ pc \in STRING
    /\ i \in Nat
    /\ cookie \in Cookies /\ local \in Cookies
    /\ stage \in Stages /\ strikes \in Nat
    /\ level \in Levels
    /\ launch \in [engine : STRING, level : Levels, cookie : Cookies]
    /\ ran \subseteq STRING
    /\ blind \in Nat
    /\ report \in [ran : SUBSET STRING, warnings : SUBSET STRING, level : Levels,
                    authed : {"unknown", "none", "yes", "no"}]

\* Once the monitor has halted the scan, the engines run_engagement guards
\* with it stay quiet: active roster tools, native probes, DOM probing, sqlmap
\* and ZAP.  The check, the break and the launch are in different functions.
GatedEnginesRespectHalt == launch.engine \in GatedEngines => stage < 2

\* 'passive-only' sends no attack traffic: whatever else the scan is asked to
\* do, no active engine has run by its end.
PassiveOnlyIsSilent == ~conf.active => ran \intersect ActiveEngines = {}

\* The engines that follow an ensure() of their own are handed the keeper's
\* current cookie, also when an earlier stage re-authenticated on the side.
EnsuredEnginesHoldSession == launch.engine \in EnsuredEngines => launch.cookie = keeper

\* The end of a session is soon noticed: at most four of the engines the keeper
\* looks after run between it and the next look, whatever loops of tools and
\* targets, halts and skipped stages lie in between ("re-probe every few
\* targets so the whole depth loop stays authenticated").
LossIsSoonNoticed == blind <= 4

\* What the scan reports as run is what ran, and every engine that should have
\* run and did not is an alarm, in a scan that was never halted, lacks no
\* engine and has a target for each.
NothingMissing == conf.installed \intersect RosterNames # {}
                  /\ {"nuclei", "sqlmap"} \subseteq conf.installed
                  /\ conf.gets /\ HasUrls
RosterRan == ran \intersect RosterNames # {}
Done(engine) == IF engine = "roster" THEN RosterRan ELSE engine \in ran
ChainIsTrueWhenHealthy ==
    Stopped /\ stage < 2 /\ NothingMissing
       => \A e \in EngineSpec : e \in report.ran <=> Done(e)

\* ZAP is reported as run exactly when a run of it completed, halted or not,
\* and an alarm never names an engine that did its work.
ZapReportIsHonest ==
    Stopped => /\ "zap" \in report.ran <=> "zap" \in ran
               /\ \A e \in report.warnings : ~Done(e)

\* What a scan reports about its engines is what they did.
ReportIsHonest == ChainIsTrueWhenHealthy /\ ZapReportIsHonest

\* Every scan ends and reports, however the target and the session behave.
Termination == <>Stopped
-----------------------------------------------------------------------------
\* TargetHealth: stage 2 is "halt active scanning".
HaltStopsActiveScan == launch.engine \in ActiveEngines => stage < 2

\* run_roster: "level_override caps injection depth under target stress".
RosterDepthFollowsStress ==
    \A k \in DOMAIN Roster :
        Roster[k].active /\ launch.engine = Roster[k].name => launch.level = Level(stage, conf.level)

\* README: every scan reports which engines fired, "a missing tool shows up as
\* an alarm rather than a silent gap".
EngineOf == [nuclei |-> "nuclei-dast", sqlmap |-> "sqlmap", zap |-> "zap"]
MissingToolIsAlarm ==
    Stopped => \A tool \in DOMAIN EngineOf :
                   tool \notin conf.installed /\ EngineOf[tool] \in Expected
                      => EngineOf[tool] \in report.warnings

\* SessionKeeper: re-authenticates "refreshing the cookie for every downstream
\* tool".
CookieReachesEveryTool == launch.engine # "none" => launch.cookie = keeper

\* README: "If the session dies, the scan halts loudly".
DeadSessionHaltsScan ==
    login.asked /\ launch.engine # "none" => launch.cookie \in valid

\* "if the re-auth genuinely fails, alive() is still False and authed_at_end
\* reports it".
AuthedAtEndIsHonest == report.authed = "yes" => keeper \in valid
=============================================================================
