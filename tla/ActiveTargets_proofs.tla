------------------------- MODULE ActiveTargets_proofs -------------------------
(***************************************************************************)
(* For any site, document and policy: the engines fed by the active        *)
(* targets keep to the policy.                                             *)
(***************************************************************************)
EXTENDS ActiveTargets, TLAPS

\* What no engine fed by targets may be given.
Clean(t) ==
    /\ OnAuthPath(t) => SafeOnAuthPath(t)
    /\ policy.spareActs => ~OnActsPath(t)
    /\ t.method = "POST" => policy.fuzz
    /\ CredentialForm(t) => t \in document

\* The active targets are clean from the filters on, whoever extends them, and
\* no engine has run nor any document been read before they are seeded.
IInv ==
    /\ active \subseteq Targets /\ \A t \in active : Clean(t)
    /\ \A h \in hits : h.engine \in FedByTargets => Clean(h.target)
    /\ pc \in {"discover", "filter", "seed"} => hits = {} /\ document = {}
    /\ targets \subseteq Targets

\* Targets some rule left alone go to an engine: the invariant is kept.
LEMMA SendPreserves ==
    ASSUME IInv, NEW engine, NEW R, Sends(engine, R),
           engine \in FedByTargets => \A r \in R : r.target \in active,
           UNCHANGED <<policy, targets, active, document>>,
           pc' \notin {"discover", "filter", "seed"}
    PROVE  IInv'
<1>1. \A t : Clean(t)' = Clean(t)
  BY DEF Clean, OnAuthPath, SafeOnAuthPath, OnActsPath, CredentialForm
<1>2. ASSUME NEW h \in hits', h.engine \in FedByTargets PROVE Clean(h.target)
  BY <1>2 DEF IInv, Sends
<1> QED BY <1>1, <1>2 DEF IInv

\* Whatever part of its parameters it is given with, a request is its target's.
LEMMA RequestsOf ==
    /\ \A t : Filled(t).target = t /\ Bare(t).target = t
    /\ \A t : Addressed(t).target = t /\ Started(t).target = t
BY DEF Filled, Bare, Addressed, Started

LEMMA RosterIsFedByTargets == \A r \in RosterUrls : r.target \in active
BY RequestsOf DEF RosterUrls

\* The filters leave clean targets, and the seeding adds clean ones.
LEMMA FilterPreserves ==
    ASSUME IInv, ExcludeUnsafe
    PROVE  IInv'
<1>1. /\ targets' = NoChange(OffAuth(targets)) /\ active' = Allowed(targets')
      /\ UNCHANGED <<policy, document, hits>> /\ hits = {} /\ document = {}
      /\ pc' \in {"seed", "end"}
  BY DEF ExcludeUnsafe, IInv
<1>2. targets' \subseteq Targets /\ active' \subseteq targets'
  BY <1>1 DEF IInv, NoChange, OffAuth, Allowed
<1>3. ASSUME NEW t \in active' PROVE Clean(t)'
  BY <1>1, <1>3 DEF NoChange, OffAuth, Allowed, Clean, OnAuthPath, SafeOnAuthPath, OnActsPath, CredentialForm
<1> QED BY <1>1, <1>2, <1>3 DEF IInv

LEMMA SeedPreserves ==
    ASSUME IInv, SeedFromOpenAPI
    PROVE  IInv'
<1>1. /\ document' \in {{}, Documented} /\ active' = active \union Seedable(document')
      /\ targets' = targets \union Seedable(document')
      /\ UNCHANGED <<policy, hits>> /\ hits = {} /\ document = {}
      /\ pc' = "nuclei-dast"
  BY DEF SeedFromOpenAPI, Readings, IInv
<1>2. Seedable(document') \subseteq document' /\ document' \subseteq Targets
  BY <1>1, SiteAssumption DEF Seedable, Allowed
<1>3. ASSUME NEW t \in Seedable(document') PROVE Clean(t)'
  BY <1>1, <1>3 DEF Seedable, Allowed, Clean, OnAuthPath, OnActsPath
<1>4. ASSUME NEW t \in active PROVE Clean(t)'
  BY <1>1 DEF IInv, Clean, OnAuthPath, SafeOnAuthPath, OnActsPath, CredentialForm
<1> QED BY <1>1, <1>2, <1>3, <1>4 DEF IInv

\* Stages that send nothing and leave the active targets alone.
LEMMA QuietPreserves ==
    ASSUME IInv,
           \/ \E page \in Pages : FetchForms(page)
           \/ DropSoft404
           \/ TargetFails
           \/ UNCHANGED vars
    PROVE  IInv'
<1>1. UNCHANGED <<policy, active, document, hits>>
  BY DEF FetchForms, DropSoft404, TargetFails, vars
<1>2. \A t : Clean(t)' = Clean(t)
  BY <1>1 DEF Clean, OnAuthPath, SafeOnAuthPath, OnActsPath, CredentialForm
<1>3. targets' \subseteq Targets
  <2>1. ASSUME NEW page \in Pages, FetchForms(page) PROVE targets' \subseteq Targets
    BY <2>1, SiteAssumption DEF FetchForms, Fetched, IInv
  <2> QED BY <2>1 DEF DropSoft404, TargetFails, vars, IInv
<1>4. pc' \in {"discover", "filter", "seed"} => pc \in {"discover", "filter", "seed"}
  BY DEF FetchForms, DropSoft404, TargetFails, vars
<1> QED BY <1>1, <1>2, <1>3, <1>4 DEF IInv

LEMMA EnginePreserves ==
    ASSUME IInv, NucleiDast \/ Roster \/ Probes \/ ApiAuthz \/ FormSecurity \/ Sqlmap \/ Zap
    PROVE  IInv'
<1>1. /\ UNCHANGED <<policy, targets, active, document>>
      /\ pc' \notin {"discover", "filter", "seed"}
  BY DEF NucleiDast, Roster, Probes, ApiAuthz, FormSecurity, Sqlmap, Zap, Goes
<1>2. \A r \in {} : r.target \in active
  OBVIOUS
<1>3. CASE NucleiDast
  <2> DEFINE R == {Bare(t) : t \in {u \in active : u.method = "GET"}}
  <2>1. Sends("nuclei-dast", R) /\ \A r \in R : r.target \in active
    BY <1>3, RequestsOf DEF NucleiDast
  <2> HIDE DEF R
  <2> QED BY <1>1, <2>1, SendPreserves
<1>4. CASE Roster
  <2> DEFINE R == IF halted THEN {} ELSE RosterUrls
  <2>1. Sends("roster", R) /\ \A r \in R : r.target \in active
    BY <1>4, RosterIsFedByTargets DEF Roster
  <2> HIDE DEF R
  <2> QED BY <1>1, <2>1, SendPreserves
<1>5. CASE Probes
  <2> DEFINE R == IF halted THEN {} ELSE {Filled(t) : t \in Probed}
  <2>1. Sends("probes", R) /\ \A r \in R : r.target \in active
    BY <1>5, RequestsOf DEF Probes, Probed
  <2> HIDE DEF R
  <2> QED BY <1>1, <2>1, SendPreserves
<1>6. CASE ApiAuthz
  BY <1>1, <1>6, SendPreserves DEF ApiAuthz, FedByTargets
<1>7. CASE FormSecurity
  BY <1>1, <1>7, SendPreserves DEF FormSecurity, FedByTargets
<1>8. CASE Sqlmap
  <2>1. PICK done \in SUBSET active :
            UNCHANGED hits \/ Sends("sqlmap", {Started(t) : t \in done})
    BY <1>8 DEF Sqlmap
  <2> DEFINE R == {Started(t) : t \in done}
  <2>2. \A r \in R : r.target \in active
    BY RequestsOf
  <2>3. UNCHANGED hits => Sends("sqlmap", {})
    BY DEF Sends
  <2>4. UNCHANGED hits \/ Sends("sqlmap", R)
    BY <2>1
  <2> HIDE DEF R
  <2> QED BY <1>1, <1>2, <2>2, <2>3, <2>4, SendPreserves
<1>9. CASE Zap
  BY <1>1, <1>9, SendPreserves DEF Zap, FedByTargets
<1> QED BY <1>3, <1>4, <1>5, <1>6, <1>7, <1>8, <1>9

THEOREM Invariance == Spec => []IInv
<1>1. Init => IInv
  BY SiteAssumption DEF Init, IInv
<1>2. ASSUME IInv, [Next]_vars PROVE IInv'
  BY <1>2, FilterPreserves, SeedPreserves, QuietPreserves, EnginePreserves DEF Next
<1> QED BY <1>1, <1>2, PTL DEF Spec

\* Every request goes to a path of the site with some of its parameters.
Aimed(r) == r.target.path \in Paths /\ r.sent \subseteq Params

\* One stage records its requests: the record stays well-formed.
LEMMA SendAimed ==
    ASSUME TypeOK, NEW engine, NEW R, Sends(engine, R), \A r \in R : Aimed(r)
    PROVE  \A h \in hits' : Aimed(h)
BY DEF Sends, TypeOK, Aimed

\* What the engines may be given is aimed at the site.
LEMMA InputsAimed ==
    ASSUME TypeOK
    PROVE  /\ \A t \in Targets : Aimed(Filled(t)) /\ Aimed(Bare(t)) /\ Aimed(Started(t))
           /\ \A r \in RosterUrls : Aimed(r)
           /\ \A reached \in ZapReaches : \A path \in reached : Aimed(Visit(path))
           /\ document \subseteq Targets /\ LoginForms \subseteq Targets
           /\ \A read \in SUBSET Pages : UNION {FormsOn[page] : page \in read} \subseteq Targets
<1>1. \A t \in Targets : Aimed(Filled(t)) /\ Aimed(Bare(t))
  BY DEF Targets, Aimed, Filled, Bare
<1>2. \A t \in Targets : Aimed(Addressed(t)) /\ Aimed(Started(t))
  BY <1>1 DEF Addressed, Started
<1>3. active \subseteq Targets
  BY DEF TypeOK
<1>4. \A r \in RosterUrls : Aimed(r)
  BY <1>1, <1>2, <1>3 DEF RosterUrls
<1>5. \A reached \in ZapReaches : \A path \in reached : Aimed(Visit(path))
  <2>1. ASSUME NEW reached \in ZapReaches PROVE reached \subseteq Paths
    BY SiteAssumption DEF ZapReaches, ZapFeed
  <2>2. ASSUME NEW path \in Paths PROVE Aimed(Visit(path))
    BY DEF Aimed, Visit
  <2> QED BY <2>1, <2>2
<1>6. document \subseteq Targets
  BY SiteAssumption DEF TypeOK, Readings
<1>7. /\ LoginForms \subseteq Targets
      /\ \A page \in Pages : FormsOn[page] \subseteq Targets
  BY SiteAssumption
<1> QED BY <1>1, <1>2, <1>4, <1>5, <1>6, <1>7

\* The sets of targets keep their types through every step; that the active
\* ones are among the targets needs that there are none before the filters.
THEOREM TypeCorrect == Spec => []TypeOK
<1> DEFINE NoneYet == pc = "discover" => active = {}
<1>1. Init => TypeOK /\ NoneYet
  BY SiteAssumption DEF Init, TypeOK, Readings
<1>2. ASSUME TypeOK, NoneYet, [Next]_vars PROVE TypeOK'
  <2>1. ASSUME NEW page \in Pages, FetchForms(page) PROVE TypeOK'
    BY <1>2, <2>1, SiteAssumption DEF FetchForms, Fetched, TypeOK
  <2>2. CASE DropSoft404
    BY <1>2, <2>2 DEF DropSoft404, TypeOK
  <2>3. CASE ExcludeUnsafe
    <3>1. /\ targets' \subseteq Targets /\ active' \subseteq targets'
          /\ credPaths' \subseteq Paths
      BY <1>2, <2>3 DEF ExcludeUnsafe, TypeOK, NoChange, OffAuth, Allowed, CredPathsOf, Targets
    <3> QED BY <1>2, <2>3, <3>1 DEF ExcludeUnsafe, TypeOK
  <2>4. CASE SeedFromOpenAPI
    <3>1. document' \subseteq Targets /\ Seedable(document') \subseteq Targets
      BY <2>4, SiteAssumption DEF SeedFromOpenAPI, Readings, Seedable, Allowed
    <3>2. urls' \subseteq Paths
      BY <1>2, <2>4, <3>1 DEF SeedFromOpenAPI, TypeOK, Targets
    <3> QED BY <1>2, <2>4, <3>1, <3>2 DEF SeedFromOpenAPI, TypeOK
  <2>5. ASSUME UNCHANGED <<policy, todo, targets, credPaths, active, document, urls, found>>,
               halted' \in BOOLEAN, \A h \in hits' : Aimed(h)
        PROVE  TypeOK'
    BY <1>2, <2>5 DEF TypeOK, Aimed
  <2>6. ASSUME NucleiDast \/ Roster \/ Probes \/ ApiAuthz \/ FormSecurity \/ Sqlmap \/ Zap
        PROVE  TypeOK'
    <3>1. /\ UNCHANGED <<policy, todo, targets, credPaths, active, document, urls, found>>
          /\ halted' \in BOOLEAN
      BY <1>2, <2>6 DEF NucleiDast, Roster, Probes, ApiAuthz, FormSecurity, Sqlmap, Zap, Goes, TypeOK
    <3>2. active \subseteq Targets
      BY <1>2 DEF TypeOK
    <3>3. \/ UNCHANGED hits
          \/ \E engine, R : Sends(engine, R) /\ \A r \in R : Aimed(r)
      <4>1. CASE NucleiDast
        BY <1>2, <3>2, <4>1, InputsAimed DEF NucleiDast
      <4>2. CASE Roster
        BY <1>2, <4>2, InputsAimed DEF Roster
      <4>3. CASE Probes
        BY <1>2, <3>2, <4>3, InputsAimed DEF Probes, Probed
      <4>4. CASE ApiAuthz
        BY <1>2, <4>4, InputsAimed DEF ApiAuthz
      <4>5. CASE FormSecurity
        BY <1>2, <4>5, InputsAimed DEF FormSecurity
      <4>6. CASE Sqlmap
        BY <1>2, <3>2, <4>6, InputsAimed DEF Sqlmap
      <4>7. CASE Zap
        <5>1. CASE Sends("zap", {})
          BY <5>1
        <5>2. ASSUME NEW reached \in ZapReaches, Sends("zap", {Visit(path) : path \in reached})
              PROVE  \E R : Sends("zap", R) /\ \A r \in R : Aimed(r)
          BY <1>2, <5>2, InputsAimed
        <5> QED BY <4>7, <5>1, <5>2 DEF Zap
      <4> QED BY <2>6, <4>1, <4>2, <4>3, <4>4, <4>5, <4>6, <4>7
    <3>4. \A h \in hits' : Aimed(h)
      BY <1>2, <3>3, SendAimed DEF TypeOK, Aimed
    <3> QED BY <2>5, <3>1, <3>4
  <2>7. CASE TargetFails
    BY <1>2, <2>7 DEF TargetFails, TypeOK
  <2>8. CASE UNCHANGED vars
    BY <1>2, <2>8 DEF vars, TypeOK
  <2> QED BY <1>2, <2>1, <2>2, <2>3, <2>4, <2>6, <2>7, <2>8 DEF Next
<1>3. ASSUME NoneYet, [Next]_vars PROVE NoneYet'
  BY <1>3 DEF Next, vars, FetchForms, DropSoft404, ExcludeUnsafe, SeedFromOpenAPI,
     NucleiDast, Roster, Probes, ApiAuthz, FormSecurity, Sqlmap, Zap, Goes, TargetFails
<1> QED BY <1>1, <1>2, <1>3, PTL DEF Spec

\* nuclei-dast, the roster, probe_targets and sqlmap keep off logins, spared
\* state-changing paths and forbidden POSTs, whatever the site and the document
\* (the filters of run_engagement before and after the seeding).
THEOREM PolicyHolds == Spec => []PolicyIsKept
<1>1. IInv => PolicyIsKept
  BY DEF IInv, Clean, PolicyIsKept
<1> QED BY <1>1, Invariance, PTL

\* Only the document of the API can bring a credential form back to them.
THEOREM OnlyDocumentRestores == Spec => []FoundCredentialFormsAreSpared
<1>1. IInv => FoundCredentialFormsAreSpared
  BY DEF IInv, Clean, FoundCredentialFormsAreSpared
<1> QED BY <1>1, Invariance, PTL
-----------------------------------------------------------------------------
\* There is nothing better for ZAP to see than this path.
MaySee(path) ==
    \/ urls \subseteq NotedPaths
    \/ path = Root /\ (urls \ NotedPaths) \intersect InScope \subseteq Static

\* Discovery ends with the targets the filters see, the filters note the paths
\* of all credential forms among them, and ZAP's requests keep off these.
ZapInv ==
    /\ pc = "filter" => found = targets
    /\ pc = "discover" => found = {}
    /\ pc \notin {"discover", "filter"} => credPaths = NotedPaths
    /\ \A h \in hits : h.engine = "zap" /\ h.target.path \in NotedPaths =>
          MaySee(h.target.path)
    /\ pc \in {"discover", "filter", "seed"} => hits = {}

\* What is noted depends on what was found.
LEMMA NotedByFound ==
    ASSUME UNCHANGED found
    PROVE  NotedPaths' = NotedPaths
BY DEF NotedPaths, CredentialForm, OnAuthPath, SafeOnAuthPath

\* The feed keeps off the noted paths unless it is the target itself.
LEMMA ZapMaySee ==
    ASSUME credPaths = NotedPaths, NEW reached \in ZapReaches, NEW path \in reached,
           path \in NotedPaths
    PROVE  MaySee(path)
<1>1. CASE ZapFrontier = {}
  BY <1>1 DEF ZapFrontier, MaySee
<1>2. CASE ZapFrontier # {}
  <2>1. path \in ZapFeed
    BY <1>2 DEF ZapReaches
  <2>2. (ZapFrontier \intersect InScope) \ Static = {} /\ path = Root
    BY <2>1 DEF ZapFeed, ZapFrontier
  <2> QED BY <2>2 DEF ZapFrontier, MaySee
<1> QED BY <1>1, <1>2

LEMMA ZapStep ==
    ASSUME ZapInv, [Next]_vars
    PROVE  ZapInv'
<1>1. ASSUME NEW page \in Pages, FetchForms(page) PROVE ZapInv'
  BY <1>1, NotedByFound DEF FetchForms, ZapInv
<1>2. CASE DropSoft404
  BY <1>2 DEF DropSoft404, ZapInv
<1>3. CASE ExcludeUnsafe
  <2>1. NotedPaths' = NotedPaths /\ hits = {} /\ hits' = {} /\ found = targets
    BY <1>3, NotedByFound DEF ExcludeUnsafe, ZapInv
  <2>2. credPaths' = CredPathsOf(OffAuth(found))
    BY <1>3, <2>1 DEF ExcludeUnsafe
  <2>3. CredPathsOf(OffAuth(found)) = NotedPaths
    BY DEF CredPathsOf, OffAuth, NotedPaths
  <2>4. pc' \notin {"discover", "filter"}
    BY <1>3 DEF ExcludeUnsafe
  <2> QED BY <2>1, <2>2, <2>3, <2>4 DEF ZapInv
<1>4. CASE SeedFromOpenAPI
  BY <1>4, NotedByFound DEF SeedFromOpenAPI, ZapInv
<1>5. ASSUME UNCHANGED <<found, credPaths, urls>>, pc \notin {"discover", "filter", "seed"},
             pc' \notin {"discover", "filter", "seed"}, NEW engine, NEW R,
             UNCHANGED hits \/ Sends(engine, R),
             engine = "zap" => \A r \in R :
                 r.target.path \in NotedPaths => MaySee(r.target.path)
      PROVE  ZapInv'
  <2>1. NotedPaths' = NotedPaths /\ \A path : MaySee(path)' = MaySee(path)
    BY <1>5, NotedByFound DEF MaySee
  <2>2. ASSUME NEW h \in hits', h.engine = "zap", h.target.path \in NotedPaths
        PROVE  MaySee(h.target.path)
    BY <1>5, <2>2 DEF ZapInv, Sends
  <2> QED BY <1>5, <2>1, <2>2 DEF ZapInv
<1>6. CASE NucleiDast
  BY <1>5, <1>6 DEF NucleiDast, Goes
<1>7. CASE Roster
  BY <1>5, <1>7 DEF Roster, Goes
<1>8. CASE Probes
  BY <1>5, <1>8 DEF Probes, Goes
<1>9. CASE ApiAuthz
  BY <1>5, <1>9 DEF ApiAuthz, Goes
<1>10. CASE FormSecurity
  <2>1. PICK R : Sends("formsec", R)
    BY <1>10 DEF FormSecurity
  <2> QED BY <1>5, <1>10, <2>1 DEF FormSecurity, Goes
<1>11. CASE Sqlmap
  <2>1. PICK R : UNCHANGED hits \/ Sends("sqlmap", R)
    BY <1>11 DEF Sqlmap
  <2> QED BY <1>5, <1>11, <2>1 DEF Sqlmap
<1>12. CASE Zap
  <2>1. PICK R : /\ Sends("zap", R)
                 /\ \A r \in R : r.target.path \in NotedPaths => MaySee(r.target.path)
    <3>1. CASE Sends("zap", {})
      BY <3>1
    <3>2. ASSUME NEW reached \in ZapReaches, Sends("zap", {Visit(path) : path \in reached})
          PROVE  \E R : /\ Sends("zap", R)
                        /\ \A r \in R : r.target.path \in NotedPaths => MaySee(r.target.path)
      <4>1. credPaths = NotedPaths
        BY <1>12 DEF Zap, ZapInv
      <4>2. \A path \in reached : path \in NotedPaths => MaySee(path)
        BY <4>1, ZapMaySee
      <4>3. \A r \in {Visit(path) : path \in reached} : r.target.path \in reached
        BY DEF Visit
      <4> QED BY <3>2, <4>2, <4>3
    <3> QED BY <1>12, <3>1, <3>2 DEF Zap
  <2> QED BY <1>5, <1>12, <2>1 DEF Zap, Goes
<1>13. CASE TargetFails
  BY <1>13, NotedByFound DEF TargetFails, ZapInv, MaySee
<1>14. CASE UNCHANGED vars
  BY <1>14, NotedByFound DEF vars, ZapInv, MaySee
<1> QED BY <1>1, <1>2, <1>3, <1>4, <1>6, <1>7, <1>8, <1>9, <1>10, <1>11, <1>12, <1>13, <1>14
        DEF Next

\* ZAP stays off the paths of the credential forms that discovery found and the
\* auth filter left, unless the rest of the frontier leaves it nowhere to go
\* (_cred_paths, engagement.py:3495, and the fallbacks of run_zap).
THEOREM ZapKeepsOff == Spec => []ZapSparesNotedPaths
<1>1. Init => ZapInv
  BY DEF Init, ZapInv
<1>2. ZapInv => ZapSparesNotedPaths
  BY DEF ZapInv, ZapSparesNotedPaths, MaySee
<1> QED BY <1>1, <1>2, ZapStep, PTL DEF Spec

-----------------------------------------------------------------------------
AfterNuclei == {"roster", "probes", "api-authz", "formsec", "sqlmap", "zap", "end"}
AfterRoster == AfterNuclei \ {"roster"}
AfterProbes == AfterRoster \ {"probes"}
AfterSqlmap == {"zap", "end"}
Had(engine, r) == [engine |-> engine, target |-> r.target, sent |-> r.sent] \in hits

\* A target no rule spares is among the active ones once the filters are
\* through, and has been with every engine whose turn is over.
TestedInv ==
    /\ policy \in Policies /\ targets \subseteq Targets
    /\ pc = "filter" => found = targets
    /\ pc = "discover" => found = {}
    /\ found \subseteq Targets
    /\ pc \notin {"discover", "filter"} => \A t \in found : ~Spared(t) => t \in active
    /\ policy.active /\ ~halted => \A t \in found : ~Spared(t) =>
         /\ t.method = "GET" /\ pc \in AfterNuclei => Had("nuclei-dast", Bare(t))
         /\ t.method = "GET" /\ pc \in AfterRoster => Had("roster", Addressed(t))
         /\ pc \in AfterProbes => Had("probes", Filled(t))
         /\ pc \in AfterSqlmap => Had("sqlmap", Started(t))

LEMMA FilterTests ==
    ASSUME TestedInv, ExcludeUnsafe
    PROVE  TestedInv'
<1>1. \A t : Spared(t)' = Spared(t)
  BY DEF ExcludeUnsafe, Spared, OnAuthPath, CredentialForm, OnActsPath
<1>2. ASSUME NEW t \in found, ~Spared(t) PROVE t \in active'
  <2>1. t \in targets /\ t \in Targets
    BY DEF ExcludeUnsafe, TestedInv
  <2>2. t \in NoChange(OffAuth(targets))
    BY <1>2, <2>1 DEF Spared, NoChange, OffAuth, OnAuthPath, SafeOnAuthPath, Targets
  <2> QED BY <1>2, <2>1, <2>2 DEF ExcludeUnsafe, Allowed, Spared
<1>3. targets' \subseteq Targets
  BY DEF ExcludeUnsafe, TestedInv, NoChange, OffAuth
<1>4. pc' = "seed" \/ ~policy.active
  BY DEF ExcludeUnsafe
<1> QED BY <1>1, <1>2, <1>3, <1>4
        DEF ExcludeUnsafe, TestedInv, AfterNuclei, AfterRoster, AfterProbes, AfterSqlmap

LEMMA EarlyTests ==
    ASSUME TestedInv,
           \/ \E page \in Pages : FetchForms(page)
           \/ DropSoft404 \/ SeedFromOpenAPI \/ TargetFails \/ UNCHANGED vars
    PROVE  TestedInv'
<1> USE DEF AfterNuclei, AfterRoster, AfterProbes, AfterSqlmap
<1>1. \A t : Spared(t)' = Spared(t)
  BY DEF FetchForms, DropSoft404, SeedFromOpenAPI, TargetFails, vars, Spared, CredentialForm, OnActsPath
<1>2. ASSUME NEW page \in Pages, FetchForms(page) PROVE TestedInv'
  <2>1. targets' \subseteq Targets
    BY <1>2, SiteAssumption DEF FetchForms, Fetched, TestedInv
  <2> QED BY <1>1, <1>2, <2>1 DEF FetchForms, TestedInv
<1>3. CASE DropSoft404
  BY <1>1, <1>3 DEF DropSoft404, TestedInv
<1>4. CASE SeedFromOpenAPI
  <2>1. Seedable(document') \subseteq Targets
    BY <1>4, SiteAssumption DEF SeedFromOpenAPI, Readings, Seedable, Allowed
  <2> QED BY <1>1, <1>4, <2>1 DEF SeedFromOpenAPI, TestedInv
<1>5. CASE TargetFails
  BY <1>1, <1>5 DEF TargetFails, TestedInv
<1>6. CASE UNCHANGED vars
  BY <1>1, <1>6 DEF vars, TestedInv, Had
<1> QED BY <1>2, <1>3, <1>4, <1>5, <1>6

LEMMA EngineTests ==
    ASSUME TestedInv, NucleiDast \/ Roster \/ Probes \/ ApiAuthz \/ FormSecurity \/ Sqlmap \/ Zap
    PROVE  TestedInv'
<1> USE DEF AfterNuclei, AfterRoster, AfterProbes, AfterSqlmap
<1>1. /\ UNCHANGED <<policy, targets, active, found>> /\ (halted => halted')
      /\ pc \notin {"discover", "filter"} /\ pc' \notin {"discover", "filter"}
      /\ hits \subseteq hits'
  BY DEF NucleiDast, Roster, Probes, ApiAuthz, FormSecurity, Sqlmap, Zap, Goes, Sends
<1>2. \A t : Spared(t)' = Spared(t)
  BY <1>1 DEF Spared, CredentialForm, OnActsPath
<1>3. \A e, r : Had(e, r) => Had(e, r)'
  BY <1>1 DEF Had
<1>4. SUFFICES ASSUME policy.active, ~halted', ~halted, NEW t \in found, ~Spared(t), t \in active,
                      t \in Targets
               PROVE  /\ t.method = "GET" /\ pc' \in AfterNuclei => Had("nuclei-dast", Bare(t))'
                      /\ t.method = "GET" /\ pc' \in AfterRoster => Had("roster", Addressed(t))'
                      /\ pc' \in AfterProbes => Had("probes", Filled(t))'
                      /\ pc' \in AfterSqlmap => Had("sqlmap", Started(t))'
  BY <1>1, <1>2 DEF TestedInv
<1>5. /\ t.method = "GET" /\ pc \in AfterNuclei => Had("nuclei-dast", Bare(t))'
      /\ t.method = "GET" /\ pc \in AfterRoster => Had("roster", Addressed(t))'
      /\ pc \in AfterProbes => Had("probes", Filled(t))'
      /\ pc \in AfterSqlmap => Had("sqlmap", Started(t))'
  BY <1>3, <1>4 DEF TestedInv
<1>6. \A e, R, r : Sends(e, R) /\ r \in R => Had(e, r)'
  BY DEF Sends, Had
<1>7. CASE NucleiDast
  <2>1. t.method = "GET" => Had("nuclei-dast", Bare(t))'
    BY <1>4, <1>6, <1>7 DEF NucleiDast
  <2> QED BY <1>7, <2>1 DEF NucleiDast, Goes
<1>8. CASE Roster
  <2>1. t.method = "GET" => Addressed(t) \in RosterUrls
    BY <1>4 DEF RosterUrls
  <2>2. t.method = "GET" => Had("roster", Addressed(t))'
    BY <1>4, <1>6, <1>8, <2>1 DEF Roster
  <2> QED BY <1>5, <1>8, <2>2 DEF Roster, Goes
<1>9. CASE Probes
  <2>1. t \in Probed
    BY <1>4 DEF Probed, Spared, OnAuthPath, SafeOnAuthPath, Targets
  <2>2. Had("probes", Filled(t))'
    BY <1>4, <1>6, <1>9, <2>1 DEF Probes
  <2> QED BY <1>5, <1>9, <2>2 DEF Probes, Goes
<1>10. CASE ApiAuthz
  BY <1>5, <1>10 DEF ApiAuthz, Goes
<1>11. CASE FormSecurity
  BY <1>5, <1>11 DEF FormSecurity, Goes
<1>12. CASE Sqlmap
  <2>1. Had("sqlmap", Started(t))'
    BY <1>4, <1>6, <1>12 DEF Sqlmap
  <2> QED BY <1>5, <1>12, <2>1 DEF Sqlmap
<1>13. CASE Zap
  BY <1>5, <1>13 DEF Zap, Goes
<1> QED BY <1>4, <1>7, <1>8, <1>9, <1>10, <1>11, <1>12, <1>13

\* What an engine had is a request of that target with those parameters.
LEMMA HadTests ==
    ASSUME NEW t, NEW engine
    PROVE  /\ Had(engine, Filled(t)) => Tests(engine, t, t.params)
           /\ Had(engine, Bare(t)) => Tests(engine, t, t.query)
           /\ Had(engine, Addressed(t)) => Tests(engine, t, Addressed(t).sent)
<1>1. ASSUME NEW r, Had(engine, r), r.target = t PROVE Tests(engine, t, r.sent)
  <2> DEFINE h == [engine |-> engine, target |-> r.target, sent |-> r.sent]
  <2>1. h \in hits /\ h.engine = engine /\ h.target = t /\ r.sent \subseteq h.sent
    BY <1>1 DEF Had
  <2> QED BY <2>1 DEF Tests
<1>2. Filled(t).sent = t.params /\ Bare(t).sent = t.query
  BY DEF Filled, Bare
<1> QED BY <1>1, <1>2, RequestsOf

\* A target that discovery found and no rule spares is lost nowhere: at the end
\* of a scan that was not halted, its engines have had it, with all parameters
\* but for GET forms whose address has a query, and for nuclei.
THEOREM NothingFoundIsLost == Spec => []FoundIsTested
<1>1. Init => TestedInv
  BY SiteAssumption DEF Init, TestedInv, AfterNuclei, AfterRoster, AfterProbes, AfterSqlmap
<1>2. ASSUME TestedInv PROVE FoundIsTested
  <2>1. SUFFICES ASSUME pc = "end", policy.active, ~halted, NEW t \in found, ~Spared(t)
                 PROVE  /\ Tests("probes", t, t.params)
                        /\ t.method = "POST" \/ t.query = {} \/ t.query = t.params =>
                              Tests("sqlmap", t, t.params)
                        /\ t.method = "GET" =>
                              /\ t.query = {} \/ t.query = t.params => Tests("roster", t, t.params)
                              /\ \A e \in {"nuclei-dast", "roster", "sqlmap"} : Tests(e, t, t.query)
    BY DEF FoundIsTested
  <2>2. /\ t.method = "GET" => Had("nuclei-dast", Bare(t)) /\ Had("roster", Addressed(t))
        /\ Had("probes", Filled(t)) /\ Had("sqlmap", Started(t))
    BY <1>2, <2>1 DEF TestedInv, AfterNuclei, AfterRoster, AfterProbes, AfterSqlmap
  <2>3. /\ t.query # {} => Addressed(t).sent = t.query
        /\ t.query = {} => Addressed(t).sent = t.params
    BY DEF Addressed, Filled, Bare
  <2>4. t.query = {} \/ t.query = t.params => Addressed(t).sent = t.params
    BY <2>3
  <2>5. ASSUME NEW e, Had(e, Addressed(t)) PROVE Tests(e, t, t.query)
    <3>1. Tests(e, t, Addressed(t).sent) /\ t.query \subseteq Addressed(t).sent
      BY <2>3, <2>5, HadTests
    <3> QED BY <3>1 DEF Tests
  <2>6. t.method = "POST" \/ t.method = "GET"
    BY <1>2, <2>1 DEF TestedInv, Targets
  <2>7. CASE t.method = "POST"
    BY <2>2, <2>7, HadTests DEF Started
  <2>8. CASE t.method = "GET"
    <3>1. Had("sqlmap", Addressed(t))
      BY <2>2, <2>8 DEF Started
    <3> QED BY <2>2, <2>4, <2>5, <2>8, <3>1, HadTests
  <2> QED BY <2>6, <2>7, <2>8
<1>3. ASSUME TestedInv, [Next]_vars PROVE TestedInv'
  BY <1>3, FilterTests, EarlyTests, EngineTests DEF Next
<1> QED BY <1>1, <1>2, <1>3, PTL DEF Spec
===============================================================================
