----------------------------- MODULE DepthSuite -----------------------------
(***************************************************************************)
(* The session gate, the API authorization tests and the active depth      *)
(* suite (engagement.py): the stages of DepthStages, one after the other,  *)
(* against a server that may have the flaws they look for, may only seem   *)
(* to, and whose shared cache other users read.  The session the stages    *)
(* were given may end meanwhile; nothing refreshes it, but for a bearer of *)
(* the API tests.                                                          *)
(***************************************************************************)
EXTENDS DepthStages, Sublists, SequencesExt, FiniteSets

CONSTANTS UrlSeq,       \* the crawled URLs
          Facts,        \* of a URL: api, id, query, auth, file, hub, what the
                        \* API document offers: make, list, edit, and whether
                        \* an earlier URL has its path (again)
          Cap,          \* how many URLs of its kind a stage considers
          Home,         \* the session's validity URL
          Root,         \* a URL in the root directory
          Login,        \* the login page, which redirects lead to
          Servers,      \* the servers to consider (see Init)
          Other,        \* account B's session, if one was supplied
          MaxAdverse    \* lost or blocked answers within one unit

Urls == ToSet(UrlSeq)
Keys == Urls \union {Login}

Natures == [guard : {"open", "locked"},
            refusal : {"unauthorized", "redirect", "form"},
            flaws : SUBSET {"token", "method", "object", "echoes", "elevates",
                            "host", "origin", "null", "star", "creds", "xpath",
                            "nosql", "ldap", "both", "link", "canary",
                            "evaluated", "escaped", "leftover"},
            habits : SUBSET {"hub", "records", "well-formed", "form", "tokened",
                             "errs", "blind", "moody", "catchall", "local",
                             "lookalike", "cached", "advertises", "mine"}]

ASSUME DepthAssumption ==
    /\ MaxAdverse \in Nat
    /\ UrlSeq \in Seq(Urls) /\ Home \in Urls /\ Root \in Urls /\ Login \notin Urls
    /\ Servers \subseteq [at : [Urls -> Natures], login : SUBSET {"host", "cached"},
                          honours : SUBSET Headers, weak : BOOLEAN,
                          marker : BOOLEAN, leaks : BOOLEAN, mints : BOOLEAN,
                          stored : BOOLEAN, deep : BOOLEAN]
    /\ Other \in [Headers -> {"none", "B"}]

(* The operations that write to an object have its id in their path.       *)
ASSUME FactsAssumption == \A u \in Urls : Facts[u].edit => Facts[u].id

VARIABLES server,  \* per URL a guard, a refusal, flaws and habits; those of
                   \* the login page; what it trusts, whether its signing
                   \* secret is weak, whether a marker of its pages was
                   \* recorded, whether a URL shows a stray token, whether a
                   \* hook mints one; whether the session keeps a token in
                   \* the browser, and whether the depth suite may run
          me,      \* session.headers and cookies of account A
          alive,   \* whether the server still knows that session
          shared,  \* the shared cache: who filled the entry, with what
          own,     \* the entry under the probe's cache-buster
          stage, unit,
          got,     \* the answers of this unit
          notes,   \* what the stage keeps from unit to unit
          users,   \* the users registered within this second of the clock
          found,   \* the findings of this stage
          clear    \* no answer of this stage was lost or blocked

vars == <<server, me, alive, shared, own, stage, unit, got, notes, users, found, clear>>

Stages == <<"gate", "api-authz", "authz", "jwt", "verb", "cors", "host-header", "cspp", "xpath",
            "cache-poison", "nosql", "ldap", "hpp", "backup", "reflection",
            "transformation", "api-exposure", "form-security", "websocket",
            "matrix">>
Stage == Stages[stage]
Over == stage > Len(Stages)

Cold == [by |-> "nobody", marks |-> {}]
Nobody == [h \in Headers |-> "none"]

-----------------------------------------------------------------------------
(* The server.                                                             *)
Nature(r) == server.at[r.url]

Valid(r, h) ==
    \/ r.who[h] = "A" /\ alive
    \/ r.who[h] \in {"B", "fresh"}
    \/ r.who[h] = "minted" /\ server.weak
    \/ r.who[h] \notin {"none", "A", "B", "minted", "fresh"} /\ "token" \in Nature(r).flaws

Bypasses(r) == "method" \in Nature(r).flaws /\ r.method \notin {"GET", "POST"}
Reads(r) ==
    \/ Nature(r).guard = "open" \/ Bypasses(r)
    \/ \E h \in server.honours : Valid(r, h)

(* The object under a URL is A's; the next one is somebody else's.         *)
Owns(r) ==
    \/ Nature(r).guard = "open" \/ Bypasses(r) \/ ~Facts[r.url].id
    \/ "object" \in Nature(r).flaws
    \/ r.input \notin {"nextid", "theirs"} /\ \E h \in server.honours : r.who[h] \notin {"none", "B"}

Refusals == [unauthorized |-> [st |-> 401, size |-> 1, marks |-> {}],
             redirect |-> [st |-> 302, size |-> 0, marks |-> {}],
             form |-> [st |-> 200, size |-> 8, marks |-> {"form"}]]

(* These stages follow a redirect to the login page: the same headers go   *)
(* there, and nothing of the query, so that the page's own cache entry     *)
(* answers or is filled.                                                   *)
Forwarding == <<"Host", "X-Forwarded-Host">>
Follows(r) ==
    /\ Stage \notin {"authz", "jwt", "verb", "cors", "host-header", "backup",
                     "websocket", "matrix"}
    /\ r.input # "new user"
Bounced(r) == Nature(r).refusal = "redirect" /\ Follows(r)
LoginPage(r) ==
    [Refusals.form EXCEPT !.marks = {"form", "at login"} \union
        IF "cached" \in server.login /\ shared[Login] # Cold THEN shared[Login].marks
        ELSE If("host" \in server.login /\ r.hdr \in ToSet(Forwarding), "hosted")]

(* A refusal page may happen to be as long as the data it stands for.      *)
Refusal(r) ==
    IF Bounced(r) THEN LoginPage(r)
    ELSE IF Nature(r).refusal = "form" /\ "lookalike" \in Nature(r).habits
    THEN [Refusals.form EXCEPT !.size = 20]
    ELSE Refusals[Nature(r).refusal]
NotFound == [st |-> 404, size |-> 1, marks |-> {}]

(* The inputs each flaw answers to, and the mark it leaves.                *)
Tells == [xpath |-> {"quote"}, nosql |-> {"quote"}, ldap |-> {"paren"},
          both |-> {"double"}, link |-> {"pollute"}, canary |-> {"canary"},
          evaluated |-> {"expression"}, escaped |-> {"quote"}]
Engines == {"xpath", "nosql", "ldap"}

(* What a page shows to anyone, whatever the request.                      *)
Standing(u) ==
    LET n == server.at[u]
    IN  (IF "errs" \in n.habits THEN Engines ELSE {})
        \union (n.habits \intersect {"hub", "records", "well-formed", "form", "tokened"})
        \union If("star" \in n.flaws, "acao-star")
        \union If("creds" \in n.flaws, "acac")

Marks(r) ==
    LET n == Nature(r)
        Hides(f) == f \in Engines /\ "blind" \in n.habits
        Has(m) == m \in n.flaws
    IN  {m \in DOMAIN Tells : Has(m) /\ r.input \in Tells[m] /\ ~Hides(m)}
        \union Standing(r.url)
        \union If(\E h \in server.honours : Valid(r, h), "in")
        \union If(Has("echoes") /\ r.input = "fields", "echo")
        \union If(/\ Stage = "api-authz" /\ Facts[r.url].list
                  /\ [n |-> Cardinality(found), priv |-> TRUE] \in users, "privileged")
        \union If(Has("host") /\ r.hdr \in ToSet(Forwarding), "hosted")
        \union If(Has("origin") /\ r.hdr = "evil", "acao-evil")
        \union If(Has("null") /\ r.hdr = "null", "acao-null")

Sizes(r) ==
    LET n == Nature(r)
    IN  IF r.method = "HEAD" THEN {0}
        ELSE IF "moody" \in n.habits THEN {20, 4}
        ELSE CASE r.input = "nextid" -> {12}
               [] r.input = "false" /\ "xpath" \in n.flaws -> {4}
               [] r.input = "ne" /\ "nosql" \in n.flaws -> {40}
               [] r.input = "star" /\ "ldap" \in n.flaws -> {40}
               [] OTHER -> {20}

(* What stands for a missing file: a page that every directory may have of *)
(* its own.                                                                *)
Copies == {"nothing", "bak", "swp"}
Missing(u) ==
    LET habits == server.at[u].habits
        sizes == IF "moody" \in habits THEN {8, 4}
                 ELSE IF "local" \in habits THEN {12} ELSE {8}
    IN  IF "catchall" \in habits
        THEN {[st |-> 200, size |-> s, marks |-> {}] : s \in sizes}
        ELSE {NotFound}
Files(r) ==
    IF "leftover" \in Nature(r).flaws /\ r.input = "swp"
    THEN {[st |-> 200, size |-> 30, marks |-> {}]}
    ELSE Missing(r.url)

(* A page of a cached URL comes from the entry of its key, if there is one. *)
Cacheable(r) ==
    "cached" \in Nature(r).habits /\ r.method = "GET" /\ r.input = "own"
Entry(r) == IF r.busted THEN own ELSE shared[r.url]

Replies(r) ==
    IF r.input \in Copies THEN Files(r)
    ELSE IF ~Reads(r) THEN {Refusal(r)}
    ELSE IF ~Owns(r) THEN {NotFound}
    ELSE IF r.method = "OPTIONS"
    THEN {[st |-> 200, size |-> 0, marks |-> If("advertises" \in Nature(r).habits, "writes")]}
    ELSE {[st |-> 200, size |-> s,
           marks |-> IF Cacheable(r) /\ Entry(r) # Cold THEN Entry(r).marks
                     ELSE IF r.method = "HEAD" THEN {} ELSE Marks(r)] :
            s \in Sizes(r)}

(* A user's name ends in the clock's second and the number of findings so  *)
(* far: within a second, and with no finding in between, it is the same,   *)
(* and a name can be registered only once.                                 *)
Registers(r) == r.input = "new user"
NewUser(r) == [n |-> Cardinality(found), priv |-> "elevates" \in Nature(r).flaws]
Taken(us) == \E w \in us : w.n = Cardinality(found)
Conflict == [st |-> 409, size |-> 1, marks |-> {}]

(* An answer with what the stage cannot see: whose it is, and what it was. *)
Seen(a, is, r) == [st |-> a.st, size |-> a.size, marks |-> a.marks,
                   is |-> is, who |-> r.who, input |-> r.input]
Lost(r) == Seen([st |-> 0, size |-> 0, marks |-> {}], "lost", r)
Blocked(r) == Seen([st |-> 403, size |-> 1, marks |-> {}], "block", r)

Adverse == {i \in DOMAIN got : got[i].is \in {"lost", "block"}}
Answers(r, us) ==
    {Seen(a, IF r.input \in Copies \/ Reads(r) THEN "page" ELSE "refusal", r) :
        a \in IF Registers(r) /\ Reads(r) /\ Taken(us) THEN {Conflict} ELSE Replies(r)}
    \union IF Cardinality(Adverse) < MaxAdverse THEN {Lost(r), Blocked(r)} ELSE {}

-----------------------------------------------------------------------------
(* The units of a stage: of all the crawled URLs of a kind, or of the      *)
(* first ones its cap allows.                                              *)
Plain(u) == [url |-> u, id |-> Facts[u].id, hdr |-> "none"]
Of(chosen) ==
    LET urls == Sublist(UrlSeq, chosen)
    IN  [i \in DOMAIN urls |-> Plain(urls[i])]
Every(Sel(_)) == {i \in DOMAIN UrlSeq : Sel(UrlSeq[i])}
First(s, Sel(_)) ==
    {i \in Every(Sel) : Cardinality({j \in Every(Sel) : j <= i}) <= Cap[s]}
Crossed(us, hdrs) ==
    LET m == Len(hdrs)
    IN  [k \in 1 .. Len(us) * m |->
            [us[((k - 1) \div m) + 1] EXCEPT !.hdr = hdrs[((k - 1) % m) + 1]]]

Crawled(u) == TRUE
Api(u) == Facts[u].api
Query(u) == Facts[u].query
QueryNotAuth(u) == Facts[u].query /\ ~Facts[u].auth
NotAuth(u) == ~Facts[u].auth
File(u) == Facts[u].file
Hub(u) == Facts[u].hub
Make(u) == Facts[u].make
List(u) == Facts[u].list
Edit(u) == Facts[u].edit
Written(u) == Make(u) \/ Edit(u)

ApiOrAll(s) == IF First(s, Api) = {} THEN First(s, Crawled) ELSE First(s, Api)
WithId(s) == {i \in First(s, Api) : Facts[UrlSeq[i]].id}
NewPaths(s) == {i \in First(s, Crawled) : ~Facts[UrlSeq[i]].again}

Units ==
    [s \in ToSet(Stages) |->
      CASE s = "gate" -> <<Plain(Home)>>
        [] s = "api-authz" -> Crossed(Of(Every(Written)), <<"fields">>)
                              \o Crossed(Of(Every(Make)), <<"new user">>)
                              \o Crossed(Of(Every(List)), <<"list">>)
                              \o Crossed(Of(Every(Edit)), <<"others">>)
        [] s \in {"authz", "verb"} -> Of(First(s, Api))
        [] s \in {"jwt", "cors"} -> Of(ApiOrAll(s))
        [] s = "matrix" -> Of(WithId(s))
        [] s = "api-exposure" -> Of(NewPaths(s))
        [] s = "form-security" -> Of(First(s, Crawled))
        [] s = "host-header" -> Crossed(Of(First(s, Crawled)), Forwarding)
        [] s = "cache-poison" -> Crossed(Of(First(s, NotAuth)), <<"X-Forwarded-Host">>)
        [] s \in {"cspp", "reflection", "transformation"} -> Of(First(s, Query))
        [] s \in {"xpath", "nosql", "ldap", "hpp"} -> Of(First(s, QueryNotAuth))
        [] s = "websocket" -> Of(First(s, Hub))
        [] s = "backup" ->
             IF First(s, File) = {} THEN <<>>
             ELSE <<[Plain(Root) EXCEPT !.hdr = "baseline"]>> \o Of(First(s, File))]

(* The suite runs where the browser keeps something of the session, or     *)
(* where it was asked to without one.  Stages that need a session skip     *)
(* themselves without one, the token and the two-account tests without     *)
(* theirs.                                                                 *)
Before == {"gate", "api-authz", "authz"}
Runs(s) ==
    /\ s \in Before \/ server.deep
    /\ s \in {"gate", "authz", "websocket"} => me # Nobody
    /\ s = "jwt" => me["authorization"] # "none"
    /\ s = "matrix" => me # Nobody /\ Other # Nobody

Noticed(o) == o \in notes
ListSeq == Where(UrlSeq, List)
Objects == Where(<<"own", "theirs">>, Noticed)

(* What looks like a token in a crawled URL is the bearer of the API tests *)
(* until the hook, if there is one, mints a fresh one before them.         *)
Stray == IF server.leaks THEN "stray" ELSE "none"
Bearer == IF server.mints THEN "fresh" ELSE Stray

ApiAuthz(u, answers) ==
    LET as == BaseHeaders(me, Bearer)
    IN  CASE u.hdr = "fields" -> MassAssign(u, answers, as)
          [] u.hdr = "new user" -> Register(u, answers, as, ListSeq)
          [] u.hdr = "list" -> Listing(u, answers, as)
          [] u.hdr = "others" -> WriteOthers(u, answers, as, Objects)

Turn(u, answers) ==
    CASE Stage = "gate" -> Gate(u, answers, me, server.stored, server.marker)
      [] Stage = "api-authz" -> ApiAuthz(u, answers)
      [] Stage = "authz" -> Authz(u, answers, me)
      [] Stage = "jwt" -> Jwt(u, answers, me, server.weak)
      [] Stage = "verb" -> Verb(u, answers, me)
      [] Stage = "cors" -> Cors(u, answers, me)
      [] Stage = "host-header" -> HostHeader(u, answers, me)
      [] Stage = "cspp" -> Cspp(u, answers, me)
      [] Stage = "xpath" -> XPath(u, answers, me)
      [] Stage = "cache-poison" -> CachePoison(u, answers, me)
      [] Stage = "nosql" -> NoSql(u, answers, me)
      [] Stage = "ldap" -> Ldap(u, answers, me)
      [] Stage = "hpp" -> Hpp(u, answers, me)
      [] Stage = "backup" -> Backup(u, answers, me, notes)
      [] Stage = "reflection" -> Reflection(u, answers, me)
      [] Stage = "transformation" -> Transformation(u, answers, me)
      [] Stage = "api-exposure" -> ApiExposure(u, answers, me)
      [] Stage = "form-security" -> FormSecurity(u, answers, me)
      [] Stage = "websocket" -> WebSocket(u, answers, me)
      [] Stage = "matrix" -> Matrix(u, answers, me, Other)

-----------------------------------------------------------------------------
(* A session is an identity in one or several headers.                     *)
Sessions == {[h \in Headers |-> IF h \in hs THEN "A" ELSE "none"] :
                hs \in SUBSET Headers}

Init ==
    /\ server \in Servers
    /\ me \in {s \in Sessions : s = Nobody \/ \E h \in server.honours : s[h] = "A"}
    /\ (server.stored => server.deep) /\ (me = Nobody => ~server.stored)
    /\ alive \in BOOLEAN /\ (me = Nobody => alive)
    /\ shared = [k \in Keys |-> Cold] /\ own = Cold
    /\ stage = 1 /\ unit = 1 /\ got = <<>>
    /\ notes = {} /\ users = {} /\ found = {} /\ clear = TRUE

(* The server forgets the session; another user fills the cache.           *)
SessionEnds ==
    /\ alive /\ me # Nobody
    /\ alive' = FALSE
    /\ UNCHANGED <<server, me, shared, own, stage, unit, got, notes, users, found, clear>>

Visit(k) ==
    /\ "cached" \in IF k = Login THEN server.login ELSE server.at[k].habits
    /\ shared[k] = Cold
    /\ shared' = [shared EXCEPT ![k] = [by |-> "a user",
                     marks |-> IF k = Login THEN {"form"} ELSE Standing(k)]]
    /\ UNCHANGED <<server, me, alive, own, stage, unit, got, notes, users, found, clear>>

InStage == ~Over /\ Runs(Stage) /\ unit <= Len(Units[Stage])
Current == Units[Stage][unit]

(* What the cache keeps of an answer.                                      *)
Filled(r, a) == [by |-> IF r.hdr = "none" THEN "a user" ELSE Stage, marks |-> a.marks]
Fills(r, a) == Cacheable(r) /\ a.is = "page" /\ a.st = 200 /\ Entry(r) = Cold
FillsLogin(r, a) ==
    a.is = "refusal" /\ Bounced(r) /\ "cached" \in server.login /\ shared[Login] = Cold

(* What a stage notes of an answer for its later units.                    *)
Noted(u, a, says) ==
    CASE Stage = "cors" -> says
      [] Stage = "backup" /\ u.hdr = "baseline" /\ a.st = 200 ->
           {[size |-> a.size, marks |-> a.marks]}
      [] Stage = "api-authz" /\ u.hdr = "list" /\ a.is = "page" ->
           {"theirs"} \union If("mine" \in server.at[u.url].habits, "own")
      [] OTHER -> {}

(* Whom the server registered: a request whose answer is lost may have     *)
(* been carried out.                                                       *)
Registered(r, a, us) ==
    LET done == us \union {NewUser(r)}
    IN  IF ~Registers(r) \/ ~Reads(r) \/ Taken(us) THEN {us}
        ELSE CASE a.is = "page" -> {done} [] a.is = "lost" -> {us, done}
               [] OTHER -> {us}

(* What the stage concludes from the answer a to r, where then is what it  *)
(* does next.                                                              *)
Concludes(r, a, then) ==
    LET heard == Append(got, a)
        news == {[kind |-> k, url |-> Current.url, got |-> heard] : k \in then.say}
        ends == then.ask = <<>>
    IN  /\ shared' = IF Fills(r, a) /\ ~r.busted
                     THEN [shared EXCEPT ![r.url] = Filled(r, a)]
                     ELSE IF FillsLogin(r, a)
                     THEN [shared EXCEPT ![Login] = Filled(r, a)]
                     ELSE shared
        /\ own' = IF ends THEN Cold
                  ELSE IF Fills(r, a) /\ r.busted THEN Filled(r, a)
                  ELSE own
        /\ found' = found \union news
        /\ notes' = notes \union Noted(Current, a, then.say)
        /\ clear' = (clear /\ a.is \notin {"lost", "block"})
        /\ got' = IF ends THEN <<>> ELSE heard
        /\ unit' = IF then.over \/ (ends /\ Stage = "cors" /\ CorsEnough(notes'))
                   THEN Len(Units[Stage]) + 1
                   ELSE IF ends THEN unit + 1 ELSE unit
        /\ UNCHANGED <<server, me, alive, stage>>

(* One request and its answer.                                             *)
Request ==
    LET t == Turn(Current, got)
        r == t.ask[1]
    IN  /\ InStage /\ t.ask # <<>>
        /\ \E us \in IF Registers(r) THEN {users, {}} ELSE {users} :
           \E a \in Answers(r, us) :
             /\ users' \in Registered(r, a, us)
             /\ Concludes(r, a, Turn(Current, Append(got, a)))

(* The stage returns its findings and the next one starts.                 *)
Returned ==
    IF Stage # "cors" THEN found
    ELSE {f \in found : f.kind \in CorsVerdict(notes)}

Refused == \E f \in found : f.kind = "refused"

NextStage ==
    /\ ~Over /\ ~InStage
    /\ stage' = (IF Refused THEN Len(Stages) ELSE stage) + 1 /\ unit' = 1
    /\ notes' = {} /\ users' = {} /\ found' = {} /\ clear' = TRUE
    /\ UNCHANGED <<server, me, alive, shared, own, got>>

Next == SessionEnds \/ (\E k \in Keys : Visit(k)) \/ Request \/ NextStage

Spec == Init /\ [][Next]_vars

-----------------------------------------------------------------------------
TypeOK ==
    /\ server \in Servers /\ me \in Sessions
    /\ stage \in 1 .. Len(Stages) + 1
    /\ clear \in BOOLEAN /\ alive \in BOOLEAN

(* What the server would have to be for a finding to be right.             *)
Right(f) ==
    LET n == server.at[f.url]
        Flawed(x) == x \in n.flaws
    IN  CASE f.kind = "mass-echo" -> Flawed("echoes")
          [] f.kind = "mass-persisted" -> Flawed("elevates")
          [] f.kind = "bola-write" ->
               n.guard = "open" \/ Flawed("object") \/ Flawed("method")
          [] f.kind = "exposed" -> n.guard = "open" /\ "records" \in n.habits
          [] f.kind = "exposed-with-session" -> "records" \in n.habits
          [] f.kind = "broken-auth" -> n.guard = "open"
          [] f.kind = "broken-token-validation" -> n.guard = "open" \/ Flawed("token")
          [] f.kind = "jwt-forged" -> n.guard = "locked" /\ Flawed("token")
          [] f.kind = "jwt-weak-secret" -> server.weak
          [] f.kind = "verb-bypass" -> n.guard = "locked" /\ Flawed("method")
          [] f.kind = "hub-open" -> n.guard = "open"
          [] f.kind = "hub-guarded" -> n.guard = "locked"
          [] f.kind = "bola" -> Flawed("object") \/ n.guard = "open"
          [] f.kind = "credentials" -> Flawed("creds") /\ (Flawed("origin") \/ Flawed("star"))
          [] f.kind = "reflected" -> Flawed("origin")
          [] f.kind = "null" -> Flawed("null")
          [] f.kind = "host-header" -> Flawed("host")
          [] f.kind = "cache-poisoning" ->
               \/ Flawed("host") /\ "cached" \in n.habits
               \/ /\ n.guard = "locked" /\ n.refusal = "redirect"
                  /\ server.login = {"host", "cached"}
          [] f.kind = "cspp" -> Flawed("link")
          [] f.kind = "reflected-input" -> Flawed("canary")
          [] f.kind = "template" -> Flawed("evaluated")
          [] f.kind = "escape" -> Flawed("escaped")
          [] f.kind = "hpp" -> Flawed("both")
          [] f.kind = "backup" -> Flawed("leftover")
          [] f.kind \in Engines -> Flawed(f.kind)
          [] OTHER -> TRUE      \* suspicions and notes claim nothing

(* The ways in which one of the few answers a stage compares is not what   *)
(* it takes it for: a registration was refused, its name being taken, or   *)
(* answered by a refusal page, or the listing it is looked up in came from *)
(* the cache; an object was A's own; a well-formed page was taken for a    *)
(* list of records; the session's own answer was already a refusal, or a   *)
(* refusal page was about as long as the data; a refusal was an overload   *)
(* block, or none came; a request meant to go without A's credentials      *)
(* still carried one the server honours; a page compared for its content   *)
(* was a refusal or a block, or changes by itself; a page that stands for  *)
(* a missing file in its directory was not served for the baseline at the  *)
(* root.                                                                   *)
Misled(f) ==
    LET Some(i, kinds) == f.got[i].is \in kinds
        n == Len(f.got)
    IN  \/ /\ f.kind = "mass-persisted"
           /\ \/ f.got[1].st >= 300 \/ Some(1, {"refusal"})
              \/ \E v \in Urls : List(v) /\ "cached" \in server.at[v].habits
        \/ f.kind = "bola-write" /\ (Some(n, {"refusal"}) \/ f.got[n].input = "own")
        \/ /\ f.kind \in {"exposed", "exposed-with-session"}
           /\ "well-formed" \in server.at[f.url].habits
        \/ /\ f.kind \in {"broken-auth", "broken-token-validation", "bola"}
           /\ \/ Some(1, {"refusal"})
              \/ Some(n, {"refusal"}) /\ "lookalike" \in server.at[f.url].habits
        \/ f.kind \in {"jwt-forged", "verb-bypass"} /\ Some(2, {"block"})
        \/ f.kind = "hub-guarded" /\ Some(n, {"lost", "block"})
        \/ /\ f.kind \in {"broken-auth", "broken-token-validation", "jwt-forged", "bola"}
           /\ \E i \in 2 .. n, h \in server.honours : f.got[i].who[h] = "A"
        \/ f.kind = "hub-open" /\ \E h \in server.honours : f.got[n].who[h] = "A"
        \/ f.kind \in Engines /\ \E i \in 1 .. n : Some(i, {"block", "refusal"})
        \/ f.kind \in Engines /\ "moody" \in server.at[f.url].habits
        \/ /\ f.kind = "backup" /\ "catchall" \in server.at[f.url].habits
           /\ \E p \in Missing(f.url) : [size |-> p.size, marks |-> p.marks] \notin notes

(* What the suite reports is so, but in the cases named above.             *)
ReportedIsSo == \A f \in found : Right(f) \/ Misled(f)

(* Nothing the tests were given hides: where a server leaves an API open,  *)
(* accepts any token or any method, or shows A's object to B, a stage that *)
(* runs and heard every answer with its session alive has reported it, if  *)
(* the URL is among the first that its cap allows: unless some other       *)
(* bearer had displaced that session.                                      *)
Reports(kind, u) == \E f \in found : f.kind = kind /\ f.url = u

StageDone == ~Over /\ Runs(Stage) /\ unit > Len(Units[Stage]) /\ clear /\ alive
Steady(u) == "moody" \notin server.at[u].habits
Gated(u) == server.at[u].guard = "locked" /\ server.at[u].refusal = "unauthorized"
Acts(u) == server.at[u].guard = "open" \/ \E h \in server.honours : me[h] = "A"

(* A bearer took the place of all that the server would have honoured.     *)
Displaced ==
    /\ Bearer # "none"
    /\ \A h \in server.honours : BaseHeaders(me, Bearer)[h] \notin {"A", "fresh"}

Early(u, Sel(_)) == \E i \in First(Stage, Sel) : UrlSeq[i] = u

ExposureIsReported ==
    StageDone => \A u \in Urls : (Api(u) /\ Steady(u) /\ Acts(u)) =>
        LET n == server.at[u]
        IN  /\ Stage = "api-authz" /\ Edit(u) /\ "object" \in n.flaws
                 /\ (\E v \in Urls : List(v) /\ Acts(v))
                 => Reports("bola-write", u) \/ Displaced
            /\ Stage = "api-exposure" /\ me["cookie"] = "none" /\ n.guard = "open"
                 /\ "records" \in n.habits /\ Early(u, Crawled) /\ ~Facts[u].again
                 => Reports("exposed", u)
            /\ Stage = "authz" /\ n.guard = "open" /\ Early(u, Api)
                 => Reports("broken-auth", u)
            /\ Stage = "authz" /\ n.guard = "locked" /\ "token" \in n.flaws
                 /\ AuthHeader(me) \in server.honours /\ Early(u, Api)
                 => Reports("broken-token-validation", u) \/ Reports("broken-auth", u)
            /\ Stage = "jwt" /\ "token" \in n.flaws /\ "authorization" \in server.honours
                 /\ Gated(u) /\ (me["custom"] = "none" \/ "custom" \notin server.honours)
                 /\ (\A v \in Urls \ {u} : Api(v) => ~Gated(v)) /\ Early(u, Api)
                 => Reports("jwt-forged", u)
            /\ Stage = "verb" /\ Early(u, Api) /\ Gated(u) /\ "method" \in n.flaws
                 /\ (me["custom"] = "none" \/ "custom" \notin server.honours)
                 => Reports("verb-bypass", u)
            /\ Stage = "matrix" /\ Early(u, Api) /\ Facts[u].id /\ "object" \in n.flaws
                 /\ (\E h \in {"authorization", "cookie"} \intersect server.honours :
                        Other[h] = "B")
                 => Reports("bola", u)

(* The gate lets a session pass that the server honours, and no other: but *)
(* without a marker a token passes on anything that is not the login       *)
(* page, and a cookie where the page is there for everybody or the login   *)
(* form stands in its place.  It refuses a live one only on a lost or      *)
(* blocked answer, or when it looks for a marker on a page that a shared   *)
(* cache may serve without one.                                            *)
PassedGate == Stage = "gate" /\ unit = 1 /\ unit' > 1 /\ found' = {}
TurnedAway == Stage = "gate" /\ found = {} /\ found' # {}
GateVerdict ==
    ~Over =>
        /\ PassedGate =>
             \/ alive
             \/ /\ ~server.marker
                /\ \/ TokenAuth(me, server.stored) \/ server.at[Home].guard = "open"
                   \/ server.at[Home].refusal = "form"
        /\ TurnedAway =>
             \/ ~alive \/ ~clear'
             \/ server.marker /\ "cached" \in server.at[Home].habits
GateKnowsTheSession == [][GateVerdict]_vars

(* What other users are served was never filled by the cache-poisoning     *)
(* stage, but for the login page where a shared cache keeps it: a probe    *)
(* that the server sends there asks for it with the forged header.         *)
LeadsToLogin(v) == server.at[v].guard = "locked" /\ server.at[v].refusal = "redirect"
OthersAreSpared ==
    \A k \in Keys : shared[k].by = "cache-poison" =>
        /\ k = Login /\ "cached" \in server.login
        /\ \E v \in Urls : NotAuth(v) /\ LeadsToLogin(v)

(* run_cache_poisoning_checks: "probes only ever create/read OUR OWN cache *)
(* entry and can NEVER poison a shared key that real users hit".           *)
OnlyItsOwnEntries == \A k \in Keys : shared[k].by # "cache-poison"

(* authz.py: "a 200 with real data = BROKEN AUTH".                         *)
BrokenAuthServesData ==
    \A f \in found : f.kind = "broken-auth" =>
        LET bare == f.got[2] IN bare.st = 200 /\ bare.size > 0
=============================================================================
