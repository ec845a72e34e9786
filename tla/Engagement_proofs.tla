-------------------------- MODULE Engagement_proofs --------------------------
(***************************************************************************)
(* For every set of configurations, every roster, any number of pages and  *)
(* targets and any behaviour of target and session: the guarded engines    *)
(* respect the halt, passive-only attacks nothing, the engines behind an   *)
(* ensure() hold the keeper's cookie, the end of a session is noticed soon, *)
(* and the report is true of an unhalted scan that lacks nothing.          *)
(***************************************************************************)
EXTENDS Engagement, TLAPS

\* The stages that only an attacking scan enters.
AttackLabels == {"nuclei-dast", "roster", "roster-tool", "probes", "api-authz",
                 "authz", "depth", "verify", "sqlmap-target"}

\* What each stage may rely on when it is entered: the monitor has not halted
\* the roster's loop, the scan attacks, and the cookie at hand is the keeper's.
StageInv ==
    /\ stage \in Stages
    /\ i \in Nat
    /\ pc \in {"roster-tool", "depth"} => i >= 1
    /\ pc \in AttackLabels => Attacking
    /\ pc = "roster-tool" => stage < 2
    /\ pc \in {"nuclei-dast", "roster", "sqlmap-target"} => cookie = keeper
    /\ pc \in {"discover-page", "roster-tool"} => local = keeper
    /\ ~conf.keeper => keeper = 0 /\ cookie = 0 /\ local = 0

IInv ==
    /\ StageInv
    /\ GatedEnginesRespectHalt
    /\ PassiveOnlyIsSilent
    /\ EnsuredEnginesHoldSession

\* No engine has two roles: what only reads is no attack, what is not held
\* back is not gated, and a roster tool is none of the engines the scan starts
\* itself.
LEMMA EngineRoles ==
    /\ \A e \in ReadingEngines \union {"none"} :
          e \notin ActiveEngines /\ e \notin GatedEngines
    /\ \A e \in NotHeldBack :
          /\ e \notin GatedEngines
          /\ e # "nuclei-dast" => e \notin EnsuredEngines
    /\ \A e \in {"none", "fingerprint", "crawl", "passive", "nuclei-exposures", "pii", "dom"} :
          e \notin EnsuredEngines
    /\ \A e \in HeldBack \union NotHeldBack \union RosterNames : e # "crawl"
<1>1. RosterNames \intersect OwnEngines = {}
  BY EngagementAssumption DEF RosterNames
<1>2. ActiveTools \subseteq RosterNames
  BY DEF ActiveTools, RosterNames
<1>3. \A e \in {DepthSuite[k] : k \in 1..17} :
          e \notin ReadingEngines \union HeldBack \union {"none", "nuclei-dast"}
  BY DEF DepthSuite, ReadingEngines, HeldBack
<1>4. \A e \in NotHeldBack : e \notin ReadingEngines \union HeldBack \union {"none"}
  BY <1>3 DEF NotHeldBack, ReadingEngines, HeldBack
<1>5. \A e \in ReadingEngines \union {"none"} : e \notin HeldBack
  BY DEF ReadingEngines, HeldBack
<1>6. \A e \in OwnEngines : e \notin ActiveTools /\ e \notin RosterNames
  BY <1>1, <1>2
<1>7. \A e \in ReadingEngines \union {"none"} :
          e \notin ActiveEngines /\ e \notin GatedEngines
  BY <1>4, <1>5, <1>6 DEF ActiveEngines, GatedEngines, OwnEngines
<1>8. \A e \in NotHeldBack : e \notin GatedEngines
  BY <1>4, <1>6 DEF GatedEngines, OwnEngines
<1>9. \A e \in HeldBack \union NotHeldBack \union RosterNames : e # "crawl"
  BY <1>4, <1>5, <1>6 DEF OwnEngines, ReadingEngines
<1>10. \A e \in NotHeldBack : e # "nuclei-dast" => e \notin EnsuredEngines
  BY <1>4, <1>6 DEF EnsuredEngines, OwnEngines, HeldBack, ReadingEngines
<1>11. \A e \in {"none", "fingerprint", "crawl", "passive", "nuclei-exposures", "pii", "dom"} :
          e \notin EnsuredEngines
  BY <1>6 DEF EnsuredEngines, OwnEngines, HeldBack, ReadingEngines
<1> QED
  BY <1>4, <1>5, <1>6, <1>7, <1>8, <1>9, <1>10, <1>11 DEF OwnEngines

\* The stress stage stays a stage, whatever is charged.
LEMMA CheckHealthStage ==
    ASSUME stage \in Stages, CheckHealth
    PROVE  stage' \in Stages /\ stage' >= stage
BY DEF CheckHealth, Stages, Escalated, health

\* An inert keeper never changes its cookie.
LEMMA InertKeeper ==
    ASSUME Reensure, ~conf.keeper
    PROVE  keeper' = keeper
BY DEF Reensure, Ensure

\* The invariant is inductive: one step per action of the scan, the session's
\* death and the stuttering step.
LEMMA StepPreserves == ASSUME IInv, [Next]_vars PROVE IInv'
<1> USE DEF IInv, StageInv, GatedEnginesRespectHalt,
            PassiveOnlyIsSilent, EnsuredEnginesHoldSession
<1> USE DEF Goto, Idle, NoEngine, session, health, AttackLabels
<1>1. CASE UNCHANGED vars
  BY <1>1 DEF vars, Attacking
<1>2. CASE Preflight
  BY <1>2, EngineRoles, InertKeeper DEF Preflight, Attacking, RefreshCookie
<1>3. CASE Recon
  BY <1>3, EngineRoles DEF Recon, Attacking, ReadingEngines
<1>4. CASE DiscoverTargets
  BY <1>4, EngineRoles, InertKeeper DEF DiscoverTargets, Attacking, RefreshCookie
<1>5. CASE DiscoverPage
  BY <1>5, EngineRoles, InertKeeper DEF DiscoverPage, Attacking, Launch, ReadingEngines
<1>6. CASE ActiveScan
  BY <1>6, EngineRoles, InertKeeper DEF ActiveScan, Attacking, RefreshCookie
<1>7. CASE NucleiDast
  BY <1>7, EngineRoles DEF NucleiDast, Attacking, LaunchIf, Launch, NotHeldBack
<1>8. CASE RosterStart
  BY <1>8, EngineRoles DEF RosterStart, Attacking, Halted, Stages
<1>9. CASE RosterTool
  <2>1. stage < 2 /\ i >= 1 /\ Attacking
    BY <1>9 DEF RosterTool
  <2>2. /\ stage' \in Stages
        /\ conf' = conf
        /\ cookie' = cookie
    BY <1>9, CheckHealthStage DEF RosterTool, RosterLaunch
  <2>3. /\ pc' \in {"roster-tool", "probes"}
        /\ i' \in Nat /\ i' >= 1
        /\ pc' = "roster-tool" => stage' < 2
    BY <1>9, <2>1, <2>2 DEF RosterTool, RosterLaunch, Halted, Stages
  <2>4. local' = keeper' /\ (~conf.keeper => keeper' = keeper)
    BY <1>9, InertKeeper DEF RosterTool
  <2>5. CASE launch'.engine = "none" /\ ran' = ran
    BY <2>1, <2>2, <2>3, <2>4, <2>5, EngineRoles DEF Attacking
  <2>6. CASE /\ i <= Len(Roster)
             /\ launch' = [engine |-> Roster[i].name, level |-> level, cookie |-> local']
             /\ stage' < 2
    <3>1. Roster[i].name \in RosterNames
      BY <2>1, <2>6, EngagementAssumption DEF RosterNames
    <3> QED
      BY <2>1, <2>2, <2>3, <2>4, <2>6, <3>1 DEF Attacking
  <2> QED
    BY <1>9, <2>1, <2>2, <2>5, <2>6 DEF RosterTool, RosterLaunch, Launch, Halted, Stages
<1>10. CASE ProbeTargets
  BY <1>10, EngineRoles, InertKeeper DEF ProbeTargets, Attacking, Halted, Stages, HeldBack, GatedEngines, ActiveEngines, RefreshCookie, Launch
<1>11. CASE ApiAuthz
  BY <1>11, EngineRoles DEF ApiAuthz, Attacking, LaunchIf, Launch, NotHeldBack
<1>12. CASE Authz
  BY <1>12, EngineRoles DEF Authz, Attacking, LaunchIf, Launch, NotHeldBack
<1>13. CASE DepthStage
  <2>1. Len(DepthSuite) = 17
    BY DEF DepthSuite
  <2>2. i <= 17 => DepthSuite[i] \in NotHeldBack /\ DepthSuite[i] # "nuclei-dast"
    <3>1. ASSUME i \in 1..17 PROVE DepthSuite[i] # "nuclei-dast"
      BY <3>1 DEF DepthSuite
    <3> QED
      BY <1>13, <3>1 DEF DepthStage, NotHeldBack
  <2> QED
    BY <1>13, <2>1, <2>2, EngineRoles DEF DepthStage, Attacking, LaunchIf, Launch
<1>14. CASE VerifyFindings
  BY <1>14, EngineRoles DEF VerifyFindings, Attacking, Launch, NotHeldBack
<1>15. CASE PassiveScan
  BY <1>15, EngineRoles DEF PassiveScan, Attacking, Launch, ReadingEngines
<1>16. CASE NucleiExposures
  BY <1>16, EngineRoles DEF NucleiExposures, Attacking, LaunchIf, Launch, ReadingEngines
<1>17. CASE PiiScan
  BY <1>17, EngineRoles DEF PiiScan, Attacking, Launch, ReadingEngines
<1>18. CASE DomProbe
  BY <1>18, EngineRoles DEF DomProbe, Attacking, LaunchIf, Launch, Halted, Stages
<1>19. CASE SqlmapStart
  BY <1>19, EngineRoles, InertKeeper DEF SqlmapStart, Attacking, RefreshCookie
<1>20. CASE SqlmapTarget
  <2>1. /\ stage' \in Stages
        /\ conf' = conf
        /\ local' = local
        /\ cookie' = keeper' /\ (~conf.keeper => keeper' = keeper)
        /\ Attacking
    BY <1>20, CheckHealthStage, InertKeeper DEF SqlmapTarget, RefreshCookie
  <2>2. /\ pc' \in {"sqlmap-target", "zap"}
        /\ i' \in Nat
    BY <1>20 DEF SqlmapTarget
  <2>3. CASE launch' = NoEngine /\ ran' = ran
    BY <2>1, <2>2, <2>3, EngineRoles DEF Attacking
  <2>4. CASE /\ launch' = [engine |-> "sqlmap", level |-> SqlmapDepth, cookie |-> cookie']
             /\ stage' < 2
    BY <2>1, <2>2, <2>4 DEF Attacking
  <2> QED
    BY <1>20, <2>1, <2>3, <2>4
       DEF SqlmapTarget, LaunchIf, Launch, Halted, Stages
<1>21. CASE ZapScan
  <2>1. /\ stage' \in Stages
        /\ conf' = conf
        /\ local' = local
        /\ cookie' = keeper' \/ cookie' = cookie
        /\ ~conf.keeper => keeper' = keeper
        /\ pc' = "chain" /\ i' = i
    BY <1>21, CheckHealthStage, InertKeeper DEF ZapScan, RefreshCookie
  <2>2. CASE launch' = NoEngine /\ ran' = ran
    BY <2>1, <2>2, EngineRoles DEF Attacking
  <2>3. CASE /\ launch' = [engine |-> "zap", level |-> 0, cookie |-> cookie']
             /\ cookie' = keeper'
             /\ stage' < 2
             /\ Attacking
    BY <2>1, <2>3 DEF Attacking
  <2> QED
    BY <1>21, <2>1, <2>2, <2>3 DEF ZapScan, RefreshCookie, Halted, Stages
<1>22. CASE ChainHealth
  BY <1>22, EngineRoles DEF ChainHealth, Attacking
<1>23. CASE CaptureEvidence
  BY <1>23, EngineRoles, InertKeeper DEF CaptureEvidence, Attacking, RefreshCookie, Launch, ReadingEngines
<1>24. CASE FinalEnsure
  BY <1>24, EngineRoles, InertKeeper DEF FinalEnsure, Attacking
<1>25. CASE Return
  BY <1>25, EngineRoles DEF Return, Attacking
<1>26. CASE SessionDies
  BY <1>26, EngineRoles DEF SessionDies, Attacking, Expire
<1> QED
  BY <1>1, <1>2, <1>3, <1>4, <1>5, <1>6, <1>7, <1>8, <1>9, <1>10, <1>11, <1>12, <1>13, <1>14, <1>15, <1>16, <1>17, <1>18, <1>19, <1>20, <1>21, <1>22, <1>23, <1>24, <1>25, <1>26 DEF Next, Step

\* Every reachable state of a scan satisfies the inductive invariant.
THEOREM Invariance == Spec => []IInv
<1>1. Init => IInv
  <2> SUFFICES ASSUME Init PROVE IInv
    OBVIOUS
  <2>1. launch.engine = "none" /\ ran = {}
    BY DEF Init, NoEngine
  <2>2. StageInv
    BY DEF Init, KInit, StageInv, AttackLabels, Stages
  <2> QED
    BY <2>1, <2>2, EngineRoles
       DEF IInv, GatedEnginesRespectHalt, PassiveOnlyIsSilent, EnsuredEnginesHoldSession
<1> QED
  BY <1>1, StepPreserves, PTL DEF Spec

\* The engines guarded by the monitor stay quiet once it has halted the scan.
THEOREM HaltIsRespected == Spec => []GatedEnginesRespectHalt
<1>1. IInv => GatedEnginesRespectHalt
  BY DEF IInv
<1> QED
  BY <1>1, Invariance, PTL

\* A passive-only scan never attacks.
THEOREM PassiveIsSilent == Spec => []PassiveOnlyIsSilent
<1>1. IInv => PassiveOnlyIsSilent
  BY DEF IInv
<1> QED
  BY <1>1, Invariance, PTL

\* An engine behind an ensure() is handed the keeper's current cookie.
THEOREM SessionIsHeld == Spec => []EnsuredEnginesHoldSession
<1>1. IInv => EnsuredEnginesHoldSession
  BY DEF IInv
<1> QED
  BY <1>1, Invariance, PTL
-----------------------------------------------------------------------------
(***************************************************************************)
(* The session keeper inside a scan.                                       *)
(***************************************************************************)
\* One ensure(), on any probe and any login, leaves a session that works alone.
LEMMA EnsureKeeps ==
    ASSUME NEW enabled, NEW probe \in Probes, NEW how \in Logins,
           Ensure(enabled, probe, how)
    PROVE  NoThrashOnBlip'
<1>1. CASE ~enabled \/ Alive(probe)
  <2>1. login' = NoLogin
    BY <1>1, Zenon DEF Ensure
  <2> QED
    BY <2>1 DEF NoLogin, NoThrashOnBlip
<1>2. CASE ~(~enabled \/ Alive(probe))
  <2>1. login' = [asked |-> TRUE, live |-> keeper \in valid, misled |-> probe = "misread"]
    BY <1>2 DEF Ensure
  <2> QED
    BY <1>2, <2>1, KeeperAssumption DEF Alive, Probes, NoThrashOnBlip
<1> QED
  BY <1>1, <1>2

\* Every step of the scan calls ensure(), lets a session die or leaves the
\* keeper alone.
LEMMA KeeperPreserved == ASSUME NoThrashOnBlip, [Next]_vars PROVE NoThrashOnBlip'
<1>1. CASE Reensure
  BY <1>1, EnsureKeeps DEF Reensure
<1>2. CASE UNCHANGED session
  BY <1>2 DEF session, NoThrashOnBlip
<1>3. CASE SessionDies
  BY <1>3 DEF SessionDies, Expire, NoThrashOnBlip, NoLogin
<1>4. CASE Preflight \/ DiscoverTargets \/ DiscoverPage \/ ActiveScan \/ SqlmapStart
  BY <1>1, <1>2, <1>4
     DEF Preflight, DiscoverTargets, DiscoverPage, ActiveScan, SqlmapStart, RefreshCookie
<1>5. CASE RosterTool \/ ProbeTargets \/ SqlmapTarget \/ ZapScan \/ CaptureEvidence \/ FinalEnsure
  BY <1>1, <1>2, <1>5
     DEF RosterTool, ProbeTargets, SqlmapTarget, ZapScan, CaptureEvidence, FinalEnsure,
         RefreshCookie
<1>6. CASE \/ UNCHANGED vars \/ Recon \/ NucleiDast \/ RosterStart \/ ApiAuthz \/ Authz
           \/ DepthStage \/ VerifyFindings \/ PassiveScan \/ NucleiExposures \/ PiiScan
           \/ DomProbe \/ ChainHealth \/ Return
  BY <1>2, <1>6
     DEF vars, session, Recon, NucleiDast, RosterStart, ApiAuthz, Authz, DepthStage,
         VerifyFindings, PassiveScan, NucleiExposures, PiiScan, DomProbe, ChainHealth, Return
<1> QED
  BY <1>3, <1>4, <1>5, <1>6 DEF Next, Step

\* A session that still works is logged in again only when the probe page lied.
THEOREM SessionsAreNotThrashed == Spec => []NoThrashOnBlip
<1>1. Init => NoThrashOnBlip
  BY DEF Init, KInit, NoThrashOnBlip, NoLogin
<1> QED
  BY <1>1, KeeperPreserved, PTL DEF Spec

\* How many engines may have run on a lost session: none when nuclei follows the
\* ensure() of the active scan, and in the loop of sqlmap no more than the turns
\* since its last look.
LossInv ==
    /\ blind \in 0..4
    /\ ~conf.keeper => ~unnoticed
    /\ pc = "nuclei-dast" => blind = 0
    /\ pc = "sqlmap-target" => IF i = 0 THEN blind = 0 ELSE blind <= 1 + ((i - 1) % 4)

\* ensure() always looks.
LEMMA EnsureLooks == ASSUME Reensure PROVE ~unnoticed'
BY DEF Reensure, Ensure

\* A step that looks, or that runs none of the engines behind an ensure(), adds
\* no engine to the count.
LEMMA NoneAdded ==
    ASSUME blind \in Nat, Watch, ~unnoticed' \/ launch'.engine \notin EnsuredEngines
    PROVE  /\ blind' \in {0, blind}
           /\ ~unnoticed' => blind' = 0
BY DEF Watch

\* No step but the four turns of sqlmap between two looks adds up.
LEMMA LossPreserved == ASSUME IInv, LossInv, Next PROVE LossInv'
<1> USE DEF LossInv, Goto, Idle, NoEngine, session
<1>1. i \in Nat
  BY DEF IInv, StageInv
<1>2. Watch /\ blind \in Nat
  BY DEF Next
<1>3. CASE \/ Recon \/ ApiAuthz \/ Authz \/ VerifyFindings \/ PassiveScan \/ NucleiExposures
           \/ PiiScan \/ DomProbe \/ ChainHealth \/ Return \/ RosterStart
  <2>1. /\ launch'.engine \notin EnsuredEngines
        /\ pc' \notin {"nuclei-dast", "sqlmap-target"}
        /\ conf' = conf /\ (unnoticed' => unnoticed)
    <3>1. CASE Recon \/ PassiveScan \/ NucleiExposures \/ PiiScan \/ DomProbe
      BY <3>1, EngineRoles
         DEF Recon, PassiveScan, NucleiExposures, PiiScan, DomProbe, LaunchIf, Launch
    <3>2. CASE ApiAuthz \/ Authz \/ VerifyFindings
      <4>1. {"none", "api-authz", "authz", "verify"} \intersect EnsuredEngines = {}
        BY EngineRoles DEF NotHeldBack
      <4> QED
        BY <3>2, <4>1 DEF ApiAuthz, Authz, VerifyFindings, LaunchIf, Launch
    <3>3. CASE ChainHealth \/ Return
      <4>1. "none" \notin EnsuredEngines
        BY EngineRoles
      <4>2. /\ launch' = NoEngine /\ conf' = conf /\ unnoticed' = unnoticed
            /\ pc' \in {"capture", "done"}
        BY <3>3 DEF ChainHealth, Return
      <4> QED
        BY <4>1, <4>2
    <3>4. CASE RosterStart
      BY <3>4, EngineRoles DEF RosterStart
    <3> QED
      BY <1>3, <3>1, <3>2, <3>3, <3>4
  <2> QED
    BY <1>2, <2>1, NoneAdded
<1>4. CASE DepthStage
  <2>1. \A k \in 1..17 : DepthSuite[k] \in NotHeldBack /\ DepthSuite[k] # "nuclei-dast"
    BY DEF NotHeldBack, DepthSuite
  <2>2. Len(DepthSuite) = 17
    BY DEF DepthSuite
  <2>3. /\ launch'.engine \notin EnsuredEngines
        /\ pc' \notin {"nuclei-dast", "sqlmap-target"}
        /\ conf' = conf /\ (unnoticed' => unnoticed)
    <3>1. i >= 1
      BY <1>4 DEF DepthStage, IInv, StageInv
    <3> QED
      BY <1>1, <1>4, <2>1, <2>2, <3>1, EngineRoles DEF DepthStage, LaunchIf, Launch
  <2> QED
    BY <1>2, <2>3, NoneAdded
<1>5. CASE Preflight \/ DiscoverPage \/ RosterTool \/ FinalEnsure
  <2>1. /\ ~unnoticed' \/ launch'.engine \notin EnsuredEngines
        /\ conf' = conf
        /\ (unnoticed' => unnoticed)
    <3>1. CASE Preflight \/ FinalEnsure
      BY <3>1, EnsureLooks, EngineRoles DEF Preflight, FinalEnsure, RefreshCookie
    <3>2. CASE DiscoverPage
      BY <3>2, EnsureLooks, EngineRoles DEF DiscoverPage, Launch
    <3>3. CASE RosterTool
      BY <3>3, EnsureLooks, EngineRoles DEF RosterTool, RosterLaunch, Launch
    <3> QED
      BY <1>5, <3>1, <3>2, <3>3
  <2>2. pc' \notin {"nuclei-dast", "sqlmap-target"}
    BY <1>5 DEF Preflight, DiscoverPage, RosterTool, RosterLaunch, FinalEnsure
  <2> QED
    BY <1>2, <2>1, <2>2, NoneAdded
<1>6. CASE DiscoverTargets \/ ActiveScan \/ SqlmapStart
  <2>1. /\ launch'.engine \notin EnsuredEngines
        /\ conf' = conf
        /\ (unnoticed' => unnoticed)
        /\ pc' \in {"nuclei-dast", "sqlmap-target"} => ~unnoticed'
        /\ pc' = "sqlmap-target" => i' = 0
    BY <1>6, EnsureLooks, EngineRoles
       DEF DiscoverTargets, ActiveScan, SqlmapStart, RefreshCookie
  <2> QED
    BY <1>2, <2>1, NoneAdded
<1>7. CASE NucleiDast
  <2>1. blind = 0 /\ pc' = "roster" /\ conf' = conf /\ (unnoticed' => unnoticed)
    BY <1>7 DEF NucleiDast
  <2>2. blind' \in {0, 1}
    BY <1>2, <2>1 DEF Watch
  <2> QED
    BY <2>1, <2>2
<1>8. CASE ProbeTargets \/ ZapScan \/ CaptureEvidence
  <2>1. /\ ~unnoticed' \/ launch'.engine \notin EnsuredEngines
        /\ conf' = conf
        /\ (unnoticed' => unnoticed)
        /\ pc' \notin {"nuclei-dast", "sqlmap-target"}
    BY <1>8, EnsureLooks, EngineRoles
       DEF ProbeTargets, ZapScan, CaptureEvidence, RefreshCookie, Launch
  <2> QED
    BY <1>2, <2>1, NoneAdded
<1>9. CASE SqlmapTarget
  <2>1. conf' = conf /\ pc = "sqlmap-target" /\ pc' \in {"sqlmap-target", "zap"}
    BY <1>9 DEF SqlmapTarget
  <2>3. CASE pc' = "zap"
    <3>1. launch' = NoEngine /\ (unnoticed' => unnoticed)
      BY <1>9, <2>1, <2>3 DEF SqlmapTarget
    <3> QED
      BY <1>2, <2>1, <2>3, <3>1, NoneAdded, EngineRoles
  <2>4. CASE pc' = "sqlmap-target"
    <3>1. i' = i + 1 /\ (unnoticed' => unnoticed)
      BY <1>9, <2>4, EnsureLooks DEF SqlmapTarget, RefreshCookie
    <3>2. LooksAgain(i) => ~unnoticed'
      BY <1>9, <2>4, EnsureLooks DEF SqlmapTarget, RefreshCookie
    <3>3. ~unnoticed' => blind' = 0
      BY <1>2, <3>1 DEF Watch
    <3>4. blind' \in {0, blind, blind + 1}
      BY <1>2, <3>1 DEF Watch
    <3>5. CASE LooksAgain(i)
      BY <1>1, <2>1, <2>4, <3>1, <3>2, <3>3, <3>5
    <3>6. CASE ~LooksAgain(i)
      <4>1. i = 0 \/ i % 4 # 0
        BY <1>1, <3>6 DEF LooksAgain
      <4>2. i > 0 => i % 4 = 1 + ((i - 1) % 4)
        BY <1>1, <4>1
      <4>3. blind + 1 <= 1 + (i % 4)
        BY <1>1, <2>1, <4>2
      <4>4. i % 4 \in 0..3
        BY <1>1
      <4> QED
        BY <1>1, <2>1, <2>4, <3>1, <3>4, <4>3, <4>4
    <3> QED
      BY <3>5, <3>6
  <2> QED
    BY <2>1, <2>3, <2>4
<1>10. CASE SessionDies
  <2>1. launch' = NoEngine /\ conf' = conf /\ conf.keeper /\ pc' = pc /\ i' = i
    BY <1>10 DEF SessionDies
  <2>2. blind' \in {0, blind}
    BY <1>2, <2>1, NoneAdded, EngineRoles
  <2> QED
    BY <1>1, <2>1, <2>2
<1> QED
  BY <1>3, <1>4, <1>5, <1>6, <1>7, <1>8, <1>9, <1>10 DEF Next, Step

\* The end of a session is looked for before the fifth engine that needs it.
THEOREM LossesAreNoticed == Spec => []LossIsSoonNoticed
<1>1. Init => LossInv
  BY DEF Init, KInit, LossInv
<1>2. IInv /\ LossInv /\ [Next]_vars => LossInv'
  BY LossPreserved DEF LossInv, vars
<1>3. LossInv => LossIsSoonNoticed
  BY DEF LossInv, LossIsSoonNoticed
<1> QED
  BY <1>1, <1>2, <1>3, Invariance, PTL DEF Spec
-----------------------------------------------------------------------------
(***************************************************************************)
(* The engines the scan reports.                                           *)
(***************************************************************************)
\* The stages that follow each engine.
Reported == {"capture", "final", "return", "done"}
PastSqlmap == {"zap", "chain"} \union Reported
PastPii == {"dom", "sqlmap", "sqlmap-target"} \union PastSqlmap
PastPassive == {"exposures", "pii"} \union PastPii
PastProbes == {"api-authz", "authz", "depth", "verify", "passive"} \union PastPassive
PastRoster == {"probes"} \union PastProbes
PastDast == {"roster", "roster-tool"} \union PastRoster

\* A scan that attacks, and was not halted, has run the engines it has passed.
AttackDone ==
    /\ pc \in PastDast /\ "nuclei" \in conf.installed /\ conf.gets /\ HasUrls
          => "nuclei-dast" \in ran
    /\ pc = "roster-tool" =>
          \A k \in DOMAIN Roster : k < i /\ Roster[k].name \in conf.installed
                                     => Roster[k].name \in ran
    /\ pc \in PastRoster /\ conf.installed \intersect RosterNames # {} => RosterRan
    /\ pc \in PastProbes => "probes" \in ran
    /\ pc \in PastSqlmap \/ (pc = "sqlmap-target" /\ i > 0) =>
          ("sqlmap" \in conf.installed /\ HasUrls => "sqlmap" \in ran)

ChainInv ==
    /\ pc \in PastPassive => "passive" \in ran
    /\ pc \in PastPii => "pii" \in ran
    /\ ~Attacking => ran \intersect ({"nuclei-dast", "probes", "sqlmap"} \union RosterNames) = {}
    /\ Attacking /\ stage < 2 => AttackDone
    /\ pc \in Reported => report.ran = Claimed /\ report.warnings = Expected \ Claimed

\* A tool of the roster is none of the engines the scan starts itself.
LEMMA RosterIsItsOwn == \A e \in OwnEngines : e \notin RosterNames
BY EngagementAssumption DEF RosterNames

\* Each stage hands the next one what it has run; past the chain nothing it
\* reported changes.
LEMMA ChainPreserved ==
    ASSUME IInv, IInv', ChainInv, SqlTargets > 0, [Next]_vars
    PROVE  ChainInv'
<1> USE DEF ChainInv, AttackDone, HasUrls, RosterRan, Claimed, Expected, Goto, Idle, NoEngine, health, Reported, PastSqlmap, PastPii,
            PastPassive, PastProbes, PastRoster, PastDast, Attacking
<1>0. /\ stage \in Stages /\ stage' \in Stages
      /\ i \in Nat
      /\ pc \in {"roster-tool", "depth"} => i >= 1
      /\ pc \in AttackLabels => Attacking
      /\ pc = "roster-tool" => stage < 2
  BY DEF IInv, StageInv
<1>1. CASE UNCHANGED vars
  BY <1>1 DEF vars
<1>2. CASE Preflight
  BY <1>2 DEF Preflight
<1>3. CASE Recon
  BY <1>3, RosterIsItsOwn DEF Recon, OwnEngines, ReadingEngines
<1>4. CASE DiscoverTargets
  BY <1>4 DEF DiscoverTargets
<1>5. CASE DiscoverPage
  BY <1>5, RosterIsItsOwn DEF DiscoverPage, Launch, OwnEngines, ReadingEngines
<1>6. CASE ActiveScan
  BY <1>6 DEF ActiveScan
<1>7. CASE NucleiDast
  <2>1. /\ pc = "nuclei-dast" /\ pc' = "roster" /\ Attacking
        /\ conf' = conf /\ stage' = stage
        /\ "nuclei" \in conf.installed /\ conf.gets /\ HasUrls' => "nuclei-dast" \in ran'
    BY <1>0, <1>7 DEF NucleiDast, LaunchIf, Launch, AttackLabels
  <2> QED
    BY <2>1
<1>8. CASE RosterStart
  <2>1. CASE Halted
    BY <1>0, <1>8, <2>1 DEF RosterStart, Halted, AttackLabels, Stages
  <2>2. CASE ~Halted
    <3>1. /\ pc = "roster" /\ pc' = "roster-tool" /\ i' = 1 /\ Attacking
          /\ conf' = conf /\ stage' = stage /\ ran' = ran
      BY <1>0, <1>8, <2>2 DEF RosterStart, AttackLabels
    <3>2. \A k \in DOMAIN Roster : ~(k < 1)
      BY EngagementAssumption
    <3> QED
      BY <3>1, <3>2
  <2> QED
    BY <2>1, <2>2
<1>9. CASE RosterTool
  <2>1. /\ pc = "roster-tool" /\ conf' = conf /\ Attacking /\ i \in Nat /\ i >= 1
        /\ stage < 2 /\ AttackDone
    BY <1>0, <1>9 DEF RosterTool, RosterLaunch, AttackLabels
  <2>2. /\ \A k \in DOMAIN Roster : k \in Nat /\ k <= Len(Roster)
        /\ Len(Roster) \in Nat
    BY EngagementAssumption
  <2>3. CASE i > Len(Roster)
    <3>1. ran' = ran /\ pc' = "probes" /\ stage' = stage
      BY <1>9, <2>3 DEF RosterTool
    <3>2. conf.installed \intersect RosterNames # {} => RosterRan
      BY <2>1, <2>2, <2>3 DEF RosterNames
    <3> QED
      BY <2>1, <3>1, <3>2
  <2>4. CASE i <= Len(Roster) /\ Roster[i].name \notin conf.installed
    <3>1. ran' = ran /\ pc' = pc /\ i' = i + 1 /\ stage' = stage
      BY <1>9, <2>1, <2>2, <2>4 DEF RosterTool
    <3> QED
      BY <2>1, <2>2, <2>4, <3>1
  <2>5. CASE i <= Len(Roster) /\ Roster[i].name \in conf.installed
    <3>1. RosterLaunch(Roster[i])
      BY <1>9, <2>1, <2>2, <2>5 DEF RosterTool
    <3>2. CASE Halted'
      <4>0. ~(stage >= 2)
        BY <2>1, <1>0 DEF Stages
      <4>1. ran' = ran /\ pc' = "probes"
        BY <4>0, <3>1, <3>2, Zenon DEF RosterLaunch, Halted
      <4>2. ~(stage' < 2)
        BY <3>2, <1>0 DEF Halted, Stages
      <4> QED
        BY <2>1, <4>1, <4>2
    <3>3. CASE ~Halted'
      <4>1. pc' = pc /\ i' = i + 1 /\ ran' = ran \union {Roster[i].name}
        BY <3>1, <3>3 DEF RosterLaunch, Launch
      <4>2. \A k \in DOMAIN Roster : k < i + 1 => k < i \/ k = i
        BY <2>1, <2>2
      <4>3. /\ pc \in PastDast /\ pc' \in PastDast
            /\ pc' \notin PastRoster \union PastProbes \union PastSqlmap
            /\ pc' # "sqlmap-target"
        BY <2>1, <4>1
      <4>4. HasUrls' => HasUrls
        <5>1. i \in DOMAIN Roster
          BY <2>1, <2>5, EngagementAssumption
        <5>2. Roster[i].name # "crawl"
          BY <5>1, EngineRoles DEF RosterNames
        <5> QED
          BY <4>1, <5>2
      <4> HIDE DEF PastDast, PastRoster, PastProbes, PastSqlmap, HasUrls
      <4>5. \A k \in DOMAIN Roster : k < i' /\ Roster[k].name \in conf'.installed
                                        => Roster[k].name \in ran'
        BY <2>1, <4>1, <4>2
      <4>6. "nuclei" \in conf'.installed /\ conf'.gets /\ HasUrls' => "nuclei-dast" \in ran'
        BY <2>1, <4>1, <4>3, <4>4
      <4>7. AttackDone'
        BY <4>3, <4>5, <4>6
      <4> QED
        BY <2>1, <4>1, <4>7
    <3> QED
      BY <3>2, <3>3
  <2> QED
    BY <2>2, <2>3, <2>4, <2>5, <1>0
<1>10. CASE ProbeTargets
  <2>1. /\ pc = "probes" /\ pc' = "api-authz" /\ conf' = conf /\ stage' = stage /\ Attacking
        /\ Halted \/ ran' = ran \union {"probes"}
        /\ ran \subseteq ran'
    BY <1>0, <1>10 DEF ProbeTargets, Launch, AttackLabels
  <2>2. CASE Halted
    BY <1>0, <2>1, <2>2 DEF Halted, Stages
  <2>3. CASE ~Halted
    BY <2>1, <2>3
  <2> QED
    BY <2>2, <2>3
<1>11. CASE ApiAuthz
  BY <1>0, <1>11 DEF ApiAuthz, LaunchIf, Launch, AttackLabels
<1>12. CASE Authz
  BY <1>0, <1>12 DEF Authz, LaunchIf, Launch, AttackLabels
<1>13. CASE DepthStage
  <2>1. /\ pc = "depth" /\ pc' \in {"depth", "verify"} /\ Attacking /\ i >= 1
        /\ conf' = conf /\ stage' = stage /\ report' = report
        /\ ran \subseteq ran'
    BY <1>0, <1>13 DEF DepthStage, LaunchIf, Launch, AttackLabels
  <2>2. Len(DepthSuite) = 17 /\ \A k \in 1..17 : DepthSuite[k] # "crawl"
    BY DEF DepthSuite
  <2>3. HasUrls' => HasUrls
    BY <1>0, <1>13, <2>1, <2>2 DEF DepthStage, LaunchIf, Launch
  <2> HIDE DEF HasUrls
  <2> QED
    BY <2>1, <2>3
<1>14. CASE VerifyFindings
  BY <1>0, <1>14 DEF VerifyFindings, Launch, AttackLabels
<1>15. CASE PassiveScan
  BY <1>15, RosterIsItsOwn DEF PassiveScan, Launch, OwnEngines, ReadingEngines
<1>16. CASE NucleiExposures
  BY <1>16, RosterIsItsOwn DEF NucleiExposures, LaunchIf, Launch, OwnEngines, ReadingEngines
<1>17. CASE PiiScan
  BY <1>17, RosterIsItsOwn DEF PiiScan, Launch, OwnEngines, ReadingEngines
<1>18. CASE DomProbe
  BY <1>18, RosterIsItsOwn DEF DomProbe, LaunchIf, Launch, OwnEngines, HeldBack
<1>19. CASE SqlmapStart
  BY <1>19 DEF SqlmapStart
<1>20. CASE SqlmapTarget
  <2>1. /\ pc = "sqlmap-target" /\ conf' = conf /\ Attacking /\ i \in Nat
        /\ stage' \in Stages
        /\ report' = report
        /\ stage' < 2 => stage < 2
    BY <1>0, <1>20, CheckHealthStage DEF SqlmapTarget, AttackLabels, Stages
  <2>2. CASE i >= Found(SqlTargets)
    <3>1. ran' = ran /\ pc' = "zap" /\ stage' = stage /\ (HasUrls => i > 0)
      BY <1>20, <2>1, <2>2, EngagementAssumption DEF SqlmapTarget, Found
    <3> QED
      BY <2>1, <3>1
  <2>3. CASE ~(i >= Found(SqlTargets)) /\ Halted'
    BY <1>20, <2>1, <2>3 DEF SqlmapTarget, Halted, Stages
  <2>4. CASE ~(i >= Found(SqlTargets)) /\ ~Halted'
    <3>1. /\ pc' = pc
          /\ ran' = IF "sqlmap" \in conf.installed THEN ran \union {"sqlmap"} ELSE ran
      BY <1>20, <2>4 DEF SqlmapTarget, LaunchIf, Launch
    <3> QED
      BY <2>1, <3>1
  <2> QED
    BY <2>2, <2>3, <2>4
<1>21. CASE ZapScan
  <2>1. /\ pc = "zap" /\ pc' = "chain" /\ conf' = conf
        /\ stage' \in Stages
        /\ stage' < 2 => stage < 2
        /\ ran' = ran \/ ran' = ran \union {"zap"}
    BY <1>0, <1>21, CheckHealthStage DEF ZapScan, Stages
  <2>2. "zap" \notin {"nuclei-dast", "probes", "sqlmap"} \union RosterNames
    BY RosterIsItsOwn DEF OwnEngines, HeldBack
  <2> QED
    BY <2>1, <2>2
<1>22. CASE ChainHealth
  BY <1>22 DEF ChainHealth
<1>23. CASE CaptureEvidence
  BY <1>23, RosterIsItsOwn DEF CaptureEvidence, Launch, OwnEngines, ReadingEngines
<1>24. CASE FinalEnsure
  BY <1>24 DEF FinalEnsure
<1>25. CASE Return
  BY <1>25 DEF Return
<1>26. CASE SessionDies
  BY <1>26 DEF SessionDies
<1> QED
  BY <1>1, <1>2, <1>3, <1>4, <1>5, <1>6, <1>7, <1>8, <1>9, <1>10, <1>11, <1>12, <1>13, <1>14, <1>15, <1>16, <1>17, <1>18, <1>19, <1>20, <1>21, <1>22, <1>23, <1>24, <1>25, <1>26 DEF Next, Step

\* From the chain on, what the report holds is what the engines did.
LEMMA ChainIsHonest ==
    ASSUME ChainInv
    PROVE  ZapReportIsHonest /\ ChainIsTrueWhenHealthy
<1> USE DEF ChainInv, Reported, PastPassive, PastPii, PastSqlmap, Stopped, Done
<1>1. ZapReportIsHonest
  BY DEF ZapReportIsHonest, Claimed, Expected
<1>2. ASSUME Stopped, stage < 2, NothingMissing, NEW e \in EngineSpec
      PROVE  e \in report.ran <=> Done(e)
  <2>1. report.ran = Claimed /\ {"passive", "pii"} \subseteq ran
    BY <1>2
  <2>2. CASE Attacking
    <3>1. RosterRan /\ {"nuclei-dast", "probes", "sqlmap"} \subseteq ran
      BY <1>2, <2>2
         DEF AttackDone, NothingMissing, PastDast, PastRoster, PastProbes
    <3> QED
      BY <1>2, <2>1, <2>2, <3>1 DEF Claimed, EngineSpec
  <2>3. CASE ~Attacking
    <3>1. ~RosterRan /\ ran \intersect {"nuclei-dast", "probes", "sqlmap"} = {}
      BY <2>3 DEF RosterRan
    <3> QED
      BY <1>2, <2>1, <2>3, <3>1 DEF Claimed, EngineSpec
  <2> QED
    BY <2>2, <2>3
<1> QED
  BY <1>1, <1>2 DEF ChainIsTrueWhenHealthy

\* With at least one target for sqlmap, what a scan reports about its engines
\* is what they did.
THEOREM ReportsAreHonest ==
    ASSUME SqlTargets > 0
    PROVE  Spec => []ReportIsHonest
<1>1. Init => ChainInv
  BY DEF Init, ChainInv, AttackDone, Reported, PastSqlmap, PastPii, PastPassive,
         PastProbes, PastRoster, PastDast
<1>2. IInv /\ IInv' /\ ChainInv /\ [Next]_vars => ChainInv'
  BY ChainPreserved
<1>3. ChainInv => ReportIsHonest
  BY ChainIsHonest DEF ReportIsHonest
<1> QED
  BY <1>1, <1>2, <1>3, Invariance, PTL DEF Spec
=============================================================================
