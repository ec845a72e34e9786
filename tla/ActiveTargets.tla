---------------------------- MODULE ActiveTargets ----------------------------
(***************************************************************************)
(* From the crawled pages to the engines that attack (run_engagement,      *)
(* d4st/engagement.py): forms are discovered page by page, filters take    *)
(* out what must not be attacked, the OpenAPI document adds targets after  *)
(* the filters, and each engine takes its input from one of three places:  *)
(* the active targets, the crawled URLs, or the document.                  *)
(*                                                                         *)
(* A target is where a request goes and what it may carry.  Its path       *)
(* stands for host and path, and has the properties the filters look at;   *)
(* its parameters are known by kind, and so are those its address carries  *)
(* already: all of a crawled URL's, those of a form's action, none of the  *)
(* document's.  The tools and the target's own answers are left out: what  *)
(* is recorded is which target each engine gets with which parameters.     *)
(* D4ST_INJECT_CAP is unset, as it is by default: no stage samples.        *)
(***************************************************************************)
EXTENDS FiniteSets

CONSTANTS
    Paths,
    AuthPaths,     \* is_auth_endpoint
    ActsPaths,     \* is_state_changing
    InScope,       \* paths on the target's own host
    Root,          \* the path of the target URL itself
    Static,        \* paths of scripts, styles, images, ...
    Params,
    LoginParams,   \* _CRED_PARAMS: user, password, code, ...
    ChangeParams,  \* _CRED_MUTATION_HINTS: new and confirmed passwords
    Pages,         \* paths a crawl may find, in scope
    Crawls,        \* the frontiers crawls end with
    Links,         \* GET targets: the crawled URLs with a query
    FormsOn,       \* the forms a logged-in user sees, by page
    LoginForms,    \* the forms of the page everybody else sees
    Documented,    \* the operations of the OpenAPI document, if it is found
    Policies       \* [active, fuzz, spareActs]: the fields of ScanPolicy used here

Targets == [path : Paths, method : {"GET", "POST"},
            params : (SUBSET Params) \ {{}}, query : SUBSET Params]

ASSUME SiteAssumption ==
    /\ Pages \subseteq InScope /\ InScope \subseteq Paths
    /\ Crawls \subseteq SUBSET Pages /\ Root \in InScope
    /\ FormsOn \in [Pages -> SUBSET Targets]
    /\ Links \subseteq {t \in Targets : t.method = "GET" /\ t.path \in Pages /\ t.query = t.params}
    /\ LoginForms \subseteq Targets /\ Documented \subseteq Targets
    /\ LoginParams \subseteq Params /\ ChangeParams \subseteq Params
    /\ Policies \subseteq [active : BOOLEAN, fuzz : BOOLEAN, spareActs : BOOLEAN]

VARIABLES
    pc, policy,
    todo,          \* pages whose forms are still to be fetched
    targets,       \* what discovery found, then what the first filters leave
    credPaths,     \* _cred_paths
    active,        \* active_targets
    document,      \* the operations the OpenAPI document was found to have
    urls,          \* the paths of the frontier
    halted,        \* the health monitor stopped the active scan
    hits,          \* what the engines got: [engine, target, sent]
    found          \* history: the targets of discovery, catch-all paths left out

vars == <<pc, policy, todo, targets, credPaths, active, document, urls, halted, hits, found>>

OnAuthPath(t) == t.path \in AuthPaths

\* auth_endpoint_safe_to_test: a GET of nothing a login would ask for.
SafeOnAuthPath(t) ==
    t.method = "GET" /\ t.params # {} /\ t.params \intersect LoginParams = {}

OnActsPath(t) == t.path \in ActsPaths

CredentialForm(t) == t.params \intersect ChangeParams # {}

\* What the policy lets be attacked.
Allowed(T) == {t \in T : /\ policy.spareActs => ~OnActsPath(t)
                         /\ policy.fuzz \/ t.method # "POST"}

Init ==
    /\ pc = "discover"
    /\ policy \in Policies
    /\ urls \in Crawls
    /\ todo = urls
    /\ targets = {t \in Links : t.path \in urls}
    /\ credPaths = {} /\ active = {} /\ document = {}
    /\ halted = FALSE
    /\ hits = {} /\ found = {}
-----------------------------------------------------------------------------
\* fetch_forms of one page: its forms, the login page's when the session is
\* lost by then, none when the request fails.
Fetched(page) == {FormsOn[page], LoginForms, {}}

\* A target is taken once: not when one known has its path, method and parameters.
Unseen(t) ==
    ~\E u \in targets : u.path = t.path /\ u.method = t.method /\ u.params = t.params

FetchForms(page) ==
    /\ pc = "discover" /\ page \in todo
    /\ todo' = todo \ {page}
    /\ \E forms \in Fetched(page) : targets' = targets \union {t \in forms : Unseen(t)}
    /\ UNCHANGED <<pc, policy, credPaths, active, document, urls, halted, hits, found>>

\* Targets whose base path answers as a random sibling does are dropped.
DropSoft404 ==
    /\ pc = "discover" /\ todo = {}
    /\ \E catchAll \in SUBSET Paths : targets' = {t \in targets : t.path \notin catchAll}
    /\ found' = targets'
    /\ pc' = "filter"
    /\ UNCHANGED <<policy, todo, credPaths, active, document, urls, halted, hits>>

OffAuth(T) == {t \in T : OnAuthPath(t) => SafeOnAuthPath(t)}

\* Wrong variant, kept for mutation: only forms that are posted.
NoPostedChange(T) == {t \in T : ~(CredentialForm(t) /\ t.method = "POST")}

NoChange(T) == {t \in T : ~CredentialForm(t)}

\* Wrong variant, kept for mutation: noted once the forms are gone.
NotedLate(T) == {t.path : t \in {u \in NoChange(T) : CredentialForm(u)}}

CredPathsOf(T) == {t.path : t \in {u \in T : CredentialForm(u)}}

\* The filters in the order of the code: auth endpoints, credential-change
\* forms (whose paths are noted for ZAP), state-changing paths, POST forms.
ExcludeUnsafe ==
    /\ pc = "filter"
    /\ credPaths' = CredPathsOf(OffAuth(targets))
    /\ targets' = NoChange(OffAuth(targets))
    /\ active' = Allowed(targets')
    /\ pc' = IF policy.active THEN "seed" ELSE "end"
    /\ UNCHANGED <<policy, todo, document, urls, halted, hits, found>>

\* The document of the API, if one is found and can be read.
Readings == {{}, Documented}

\* Wrong variant, kept for mutation: seeded without the filters.
SeedableAll(T) == T

\* The operations of the document that may be attacked.
Seedable(T) == Allowed({t \in T : ~OnAuthPath(t)})

SeedFromOpenAPI ==
    /\ pc = "seed"
    /\ document' \in Readings
    /\ active' = active \union Seedable(document')
    /\ targets' = targets \union Seedable(document')
    /\ urls' = urls \union {t.path : t \in document'}
    /\ pc' = "nuclei-dast"
    /\ UNCHANGED <<policy, todo, credPaths, halted, hits, found>>
-----------------------------------------------------------------------------
Sends(engine, R) ==
    hits' = hits \union {[engine |-> engine, target |-> r.target, sent |-> r.sent] : r \in R}

\* A request with all the parameters, one with those of the address only, and
\* one whose address has none of its own but is given all the parameters.
Filled(t) == [target |-> t, sent |-> t.params]
Bare(t) == [target |-> t, sent |-> t.query]
Addressed(t) == IF t.query = {} THEN Filled(t) ELSE Bare(t)

Goes(next) ==
    /\ pc' = next
    /\ UNCHANGED <<policy, todo, targets, credPaths, active, document, urls, halted, found>>

\* nuclei is given the addresses as they are.
NucleiDast ==
    /\ pc = "nuclei-dast"
    /\ Sends("nuclei-dast", {Bare(t) : t \in {u \in active : u.method = "GET"}})
    /\ Goes("roster")

\* Wrong variant, kept for mutation: only URLs that were crawled with a query.
RosterLinks == {Bare(t) : t \in active \intersect Links}

\* _materialize_url gives a GET target's address its parameters unless it has
\* some; only when there is no GET target the roster gets the bare addresses.
RosterUrls ==
    LET gets == {t \in active : t.method = "GET"}
    IN  IF gets # {} THEN {Addressed(t) : t \in gets} ELSE {Bare(t) : t \in active}

Roster ==
    /\ pc = "roster"
    /\ Sends("roster", IF halted THEN {} ELSE RosterUrls)
    /\ Goes("probes")

\* probe_targets looks at auth endpoints once more.
Probed == {t \in active : OnAuthPath(t) => SafeOnAuthPath(t)}

Probes ==
    /\ pc = "probes"
    /\ Sends("probes", IF halted THEN {} ELSE {Filled(t) : t \in Probed})
    /\ Goes("api-authz")

\* run_api_authz_tests writes to every documented operation that takes a body;
\* its reads of other users' objects are left out.
ApiAuthz ==
    /\ pc = "api-authz"
    /\ Sends("api-authz", {Filled(t) : t \in {u \in document : u.method = "POST" /\ policy.fuzz}})
    /\ Goes("formsec")

\* probe_reflection fills in and submits every form of the first pages that
\* answer, as they are now.
FormSecurity ==
    /\ pc = "formsec"
    /\ \E read \in SUBSET (urls \intersect Pages) :
          \/ Sends("formsec", {Filled(t) : t \in UNION {FormsOn[page] : page \in read}})
          \/ read # {} /\ Sends("formsec", {Filled(t) : t \in LoginForms})
    /\ Goes("sqlmap")

\* What run_sqlmap is started with: the body of a POST, the address of a GET.
Started(t) == IF t.method = "POST" THEN Filled(t) ELSE Addressed(t)

\* sqlmap, target by target until the monitor says halt.
Sqlmap ==
    /\ pc = "sqlmap"
    /\ \/ halted /\ UNCHANGED <<halted, hits>>
       \/ ~halted /\ UNCHANGED halted /\ Sends("sqlmap", {Started(t) : t \in active})
       \/ ~halted /\ halted' = TRUE
          /\ \E done \in SUBSET active : Sends("sqlmap", {Started(t) : t \in done})
    /\ pc' = "zap"
    /\ UNCHANGED <<policy, todo, targets, credPaths, active, document, urls, found>>

ZapFrontier == urls \ credPaths

\* ZAP is fed the frontier but for the noted paths, on the target's host and
\* no static ones, or else the target itself.
ZapFeed ==
    LET feed == (ZapFrontier \intersect InScope) \ Static
    IN  IF feed # {} THEN feed ELSE {Root}

\* Without a frontier it finds its own way through the target's host.
ZapReaches == IF ZapFrontier # {} THEN {ZapFeed} ELSE {R \in SUBSET InScope : Root \in R}

Visit(path) ==
    [target |-> [path |-> path, method |-> "GET", params |-> {}, query |-> {}], sent |-> {}]

Zap ==
    /\ pc = "zap"
    /\ \/ Sends("zap", {})
       \/ ~halted /\ \E reached \in ZapReaches : Sends("zap", {Visit(path) : path \in reached})
    /\ Goes("end")

\* A check between two stages finds the target failing.
TargetFails ==
    /\ pc \notin {"discover", "filter", "seed", "end"}
    /\ ~halted
    /\ halted' = TRUE
    /\ UNCHANGED <<pc, policy, todo, targets, credPaths, active, document, urls, hits, found>>

Next ==
    \/ \E page \in Pages : FetchForms(page)
    \/ DropSoft404 \/ ExcludeUnsafe \/ SeedFromOpenAPI
    \/ NucleiDast \/ Roster \/ Probes \/ ApiAuthz \/ FormSecurity \/ Sqlmap \/ Zap
    \/ TargetFails

Spec == Init /\ [][Next]_vars
-----------------------------------------------------------------------------
TypeOK ==
    /\ policy \in Policies /\ todo \subseteq Pages
    /\ targets \subseteq Targets /\ active \subseteq targets /\ found \subseteq Targets
    /\ credPaths \subseteq Paths /\ urls \subseteq Paths
    /\ document \in Readings /\ halted \in BOOLEAN
    /\ \A h \in hits : h.target.path \in Paths /\ h.sent \subseteq Params

FedByTargets == {"nuclei-dast", "roster", "probes", "sqlmap"}

\* The engines that live on the active targets keep to the policy whichever way
\* a target got there: no login, no state-changing path the policy spares, no
\* POST it forbids (the filters of run_engagement and those of the seeding).
PolicyIsKept ==
    \A h \in hits : h.engine \in FedByTargets =>
        /\ OnAuthPath(h.target) => SafeOnAuthPath(h.target)
        /\ policy.spareActs => ~OnActsPath(h.target)
        /\ h.target.method = "POST" => policy.fuzz

\* A form that changes a password, found by the crawl on whatever path and by
\* whatever method, is attacked by those engines only if the document of the
\* API brings it back.
FoundCredentialFormsAreSpared ==
    \A h \in hits : h.engine \in FedByTargets /\ CredentialForm(h.target) => h.target \in document

\* Some rule keeps the target from those engines.
Spared(t) ==
    \/ t.path \in AuthPaths /\ (t.method = "POST" \/ t.params \intersect LoginParams # {})
    \/ CredentialForm(t)
    \/ OnActsPath(t) /\ policy.spareActs
    \/ t.method = "POST" /\ ~policy.fuzz

Tests(engine, t, params) ==
    \E h \in hits : h.engine = engine /\ h.target = t /\ params \subseteq h.sent

\* No target and no parameter is lost on the way to the engines: what discovery
\* found, and no rule spares, has had all its parameters probed by the end of a
\* scan that was not halted.  sqlmap has had them too, and the roster those of
\* a GET, unless the target is a GET form whose action has a query of its own:
\* then they, like nuclei with every form, have had the address alone.
FoundIsTested ==
    pc = "end" /\ policy.active /\ ~halted =>
        \A t \in found : ~Spared(t) =>
            /\ Tests("probes", t, t.params)
            /\ t.method = "POST" \/ t.query = {} \/ t.query = t.params => Tests("sqlmap", t, t.params)
            /\ t.method = "GET" =>
                  /\ t.query = {} \/ t.query = t.params => Tests("roster", t, t.params)
                  /\ \A e \in {"nuclei-dast", "roster", "sqlmap"} : Tests(e, t, t.query)

\* The paths of the credential forms discovery found and the auth filter left.
NotedPaths ==
    {t.path : t \in {u \in found : CredentialForm(u) /\ (OnAuthPath(u) => SafeOnAuthPath(u))}}

\* ZAP stays off these paths, also when the document names them again, as long
\* as it has others to go to: only when all the rest of the frontier is static
\* or on other hosts may it be sent to one, the target's own, and only when
\* nothing is left at all may it find its way to any.
ZapSparesNotedPaths ==
    \A h \in hits : h.engine = "zap" /\ h.target.path \in NotedPaths =>
        \/ urls \subseteq NotedPaths
        \/ h.target.path = Root /\ (urls \ NotedPaths) \intersect InScope \subseteq Static

\* "Drop them from active testing ALWAYS (any profile)" (engagement.py:2872):
\* nothing is ever sent to a form that changes a password.
CredentialFormsNeverFilledIn == \A h \in hits : ~CredentialForm(h.target)

\* "Auth endpoints (login/logout/reset) are NEVER actively tested under any
\* profile" (engagement.py:2654), but for the GET the filter lets through.
AuthNeverTested == \A h \in hits : OnAuthPath(h.target) => SafeOnAuthPath(h.target)

\* "production-safe also skips POST-form fuzzing entirely" (engagement.py:2887).
NoPostUnlessFuzzing == \A h \in hits : h.target.method = "POST" => policy.fuzz

\* "never fuzz destructive/notifying endpoints" (engagement.py:2880).
ActsAlwaysSpared == policy.spareActs => \A h \in hits : ~OnActsPath(h.target)

\* "every downstream consumer ... only ever sees in-scope targets" (scope.py:12).
AttacksStayInScope == \A h \in hits : h.target.path \in InScope

\* "Keep credential-change forms out of ZAP's frontier too" (engagement.py:3495).
ZapSparesCredentialForms ==
    \A h \in hits : h.engine = "zap" => ~\E t \in found : CredentialForm(t) /\ t.path = h.target.path

\* "Materialize form targets into concrete ?a=b URLs so the URL-list injection
\* tools actually test form-based injection points" (engagement.py:2998).
FormsAreMaterialized ==
    pc = "end" /\ policy.active /\ ~halted =>
        \A t \in found : ~Spared(t) /\ t.method = "GET" => Tests("roster", t, t.params)
=============================================================================
