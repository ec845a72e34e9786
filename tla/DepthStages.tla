---------------------------- MODULE DepthStages ----------------------------
(***************************************************************************)
(* The session gate (auth/validity.py), the API authorization tests        *)
(* (engagement.py) and the stages of the active depth suite                *)
(* (activetests.py, auth/authz.py, jwtattacks.py, wstests.py,              *)
(* apiexposure.py, formchecks.py): what each asks of the server, under     *)
(* which identity, and what it concludes from the answers.  A stage works  *)
(* through its units (a URL, or a URL and a header); got holds the answers *)
(* of the current unit, in order.                                          *)
(***************************************************************************)
EXTENDS Integers, Sequences

(* A request: the credentials it carries, its method, what stands in the   *)
(* parameter, the forged header, and whether it has a cache-buster.        *)
Headers == {"authorization", "custom", "cookie"}

Get(u, who) == [url |-> u, who |-> who, method |-> "GET", input |-> "own",
                hdr |-> "none", busted |-> FALSE]
Put(u, who, input) == [Get(u, who) EXCEPT !.input = input]
Poison(u, who, hdr) == [Get(u, who) EXCEPT !.hdr = hdr]

Without(who, hs) == [h \in Headers |-> IF h \in hs THEN "none" ELSE who[h]]
With(who, h, value) == [who EXCEPT ![h] = value]

(* authz.py's _auth_header_name: Authorization, or else the custom header. *)
AuthHeader(me) ==
    IF me["authorization"] = "none" /\ me["custom"] # "none"
    THEN "custom" ELSE "authorization"

(* Wrong variant: the session's cookies stay.                              *)
NoAuthKeepsCookie(me) == Without(me, {"authorization"})

(* Without any credential: authz.py also strips the header it detected,    *)
(* the other modules strip these two only.                                 *)
Bare(me) == Without(me, {"authorization", "cookie", AuthHeader(me)})
NoAuth(me) == Without(me, {"authorization", "cookie"})

CookieOnly(me) == Without(me, {"authorization", "custom"})

(* _base_headers, for the API tests: set_auth_header puts a bearer in the  *)
(* place of every header of the session, its cookie is sent beside it.     *)
BaseHeaders(me, bearer) ==
    IF bearer = "none" THEN me
    ELSE [me EXCEPT !["authorization"] = bearer, !["custom"] = "none"]

(* Account B's identity: A's headers, with B's in place of these two.      *)
AsOther(me, other) ==
    [NoAuth(me) EXCEPT !["authorization"] = other["authorization"],
                       !["cookie"] = other["cookie"]]

-----------------------------------------------------------------------------
(* An answer: status (0: none came), size in units of 100 bytes, marks.    *)
Heard(a) == a.st # 0
Served(a) == a.st \in 1 .. 399
Abs(n) == IF n < 0 THEN -n ELSE n

(* _similar: lengths within a quarter of the longer one.                   *)
Similar(a, b) ==
    \/ a.size = 0 /\ b.size = 0
    \/ 4 * Abs(a.size - b.size) < IF a.size > b.size THEN a.size ELSE b.size

(* What a stage does next: what it reports, then a request, the next unit  *)
(* or its end.                                                             *)
Ask(r) == [say |-> {}, ask |-> <<r>>, over |-> FALSE]
Skip == [say |-> {}, ask |-> <<>>, over |-> FALSE]
Report(kinds) == [Skip EXCEPT !.say = kinds]
ReportAndAsk(kinds, r) == [Ask(r) EXCEPT !.say = kinds]
ReportAndStop(kinds) == [Report(kinds) EXCEPT !.over = TRUE]
If(cond, kind) == IF cond THEN {kind} ELSE {}

-----------------------------------------------------------------------------
(* session_is_token_auth: a token, in a header or kept by the browser      *)
(* (stored), needs no logged-in page to show for it.                       *)
TokenAuth(me, stored) ==
    stored \/ me["authorization"] # "none" \/ me["custom"] # "none"

(* Wrong variant: a token session passes whatever the probe shows.         *)
AdmittedAnyToken(a, me, stored, marker) ==
    TokenAuth(me, stored) \/ "in" \in a.marks

(* is_session_valid: the recorded marker must be there; without one, a     *)
(* token fails only where the page bounces to the login, a cookie also on  *)
(* an error or a lost answer.                                              *)
Admitted(a, me, stored, marker) ==
    IF marker THEN "in" \in a.marks
    ELSE /\ "at login" \notin a.marks
         /\ TokenAuth(me, stored) \/ Served(a)

Gate(u, got, me, stored, marker) ==
    IF got = <<>> THEN Ask(Get(u.url, me))
    ELSE IF Admitted(got[1], me, stored, marker) THEN Skip ELSE ReportAndStop({"refused"})

(* run_api_authz_tests, the four kinds of its requests: privileged fields  *)
(* sent along with a write ...                                             *)
Done2xx(a) == a.st \in 1 .. 299
Write(u, who, input) ==
    [Put(u.url, who, input) EXCEPT !.method = IF u.id THEN "PUT" ELSE "POST"]

MassAssign(u, got, me) ==
    IF got = <<>> THEN Ask(Write(u, me, "fields"))
    ELSE Report(If(Done2xx(got[1]) /\ "echo" \in got[1].marks, "mass-echo"))

(* ... a user registered as administrator, then looked for in every        *)
(* listing, however the registration was answered ...                      *)
Register(u, got, me, lists) ==
    LET n == Len(got)
    IN  IF n = 0 THEN Ask(Write(u, me, "new user"))
        ELSE IF n = 1 /\ ~Heard(got[1]) THEN Skip
        ELSE IF n > 1 /\ Done2xx(got[n]) /\ "privileged" \in got[n].marks
        THEN Report({"mass-persisted"})
        ELSE IF n <= Len(lists) THEN Ask(Get(lists[n], me)) ELSE Skip

(* ... the objects a listing names, and a write to each of them until one  *)
(* succeeds.                                                               *)
Listing(u, got, me) == IF got = <<>> THEN Ask(Get(u.url, me)) ELSE Skip

WriteOthers(u, got, me, objects) ==
    LET n == Len(got)
    IN  IF n > 0 /\ Done2xx(got[n]) THEN Report({"bola-write"})
        ELSE IF n < Len(objects) THEN Ask(Write(u, me, objects[n + 1]))
        ELSE Skip

-----------------------------------------------------------------------------
(* run_authz: the same request without credentials, with a bogus token,    *)
(* with another object's id.                                               *)
Authz(u, got, me) ==
    LET n == Len(got)
        Leaks(a) == Served(a) /\ Similar(a, got[1])
    IN  CASE n = 0 -> Ask(Get(u.url, me))
          [] n = 1 -> IF Served(got[1]) THEN Ask(Get(u.url, Bare(me))) ELSE Skip
          [] n = 2 -> IF Leaks(got[2]) THEN Report({"broken-auth"})
                      ELSE Ask(Get(u.url, With(Bare(me), AuthHeader(me), "bogus")))
          [] n = 3 -> LET bad == If(Leaks(got[3]), "broken-token-validation")
                      IN  IF u.id THEN ReportAndAsk(bad, Put(u.url, me, "nextid"))
                          ELSE Report(bad)
          [] OTHER -> Report(If(/\ Served(got[4]) /\ got[4].size > 0
                                /\ ~Similar(got[4], got[1]), "idor-suspect"))

(* run_authz_matrix: does B receive A's object?                            *)
Matrix(u, got, me, other) ==
    LET n == Len(got)
    IN  CASE n = 0 -> Ask(Get(u.url, me))
          [] n = 1 -> IF Served(got[1]) /\ got[1].size > 0
                      THEN Ask(Get(u.url, AsOther(me, other))) ELSE Skip
          [] OTHER -> Report(If(/\ Served(got[2]) /\ got[2].size > 0
                                /\ Similar(got[2], got[1]), "bola"))

(* The forged tokens of run_jwt_attacks, one per kind, then the one signed *)
(* with a secret recovered offline, if one was.                            *)
Forgeries(weak) == <<"alg-none", "stripped", "tampered", "kid">>
                   \o IF weak THEN <<"minted">> ELSE <<>>

(* Wrong variant: any endpoint that serves the session is an oracle.       *)
IsOracleOpen(got) == Heard(got[2])

(* _pick_oracle's gate: without the token the endpoint must refuse.        *)
IsOracle(got) == got[2].st \in {401, 403}

(* The first gated endpoint receives every forgery; the minted token is    *)
(* reported however it is answered.                                        *)
Jwt(u, got, me, weak) ==
    LET n == Len(got)
        forged == Forgeries(weak)
        Accepted(a) == a.st = 200 /\ a.size > 0 /\ Similar(a, got[1])
        Send(k) == Ask(Get(u.url, With(me, "authorization", forged[k])))
        last == IF n <= 2 THEN {}
                ELSE IF forged[n - 2] = "minted" THEN {"jwt-weak-secret"}
                ELSE If(Accepted(got[n]), "jwt-forged")
    IN  CASE n = 0 -> Ask(Get(u.url, me))
          [] n = 1 -> IF got[1].st = 200 /\ got[1].size > 0
                      THEN Ask(Get(u.url, NoAuth(me))) ELSE Skip
          [] n = 2 -> IF IsOracle(got) THEN Send(1) ELSE Skip
          [] OTHER -> IF n - 2 = Len(forged) THEN ReportAndStop(last)
                      ELSE [Send(n - 1) EXCEPT !.say = last]

(* run_verb_tampering: on a protected endpoint, the GET in other cases,    *)
(* each of which the client sends as the same GET (one stands for them),   *)
(* and HEAD, without credentials; a body ends the search.  Then what       *)
(* OPTIONS advertises.                                                     *)
Verb(u, got, me) ==
    LET n == Len(got)
        shut == got[2].st \in {401, 403}
        As(method) == [Get(u.url, NoAuth(me)) EXCEPT !.method = method]
        options == [Get(u.url, me) EXCEPT !.method = "OPTIONS"]
        Bypass(i) == Served(got[i])
        asked == IF ~shut THEN 2 ELSE IF Bypass(3) /\ got[3].size > 0 THEN 3 ELSE 4
        bypass == If(\E i \in 3 .. asked : Bypass(i), "verb-bypass")
    IN  CASE n = 0 -> Ask(Get(u.url, me))
          [] n = 1 -> IF Heard(got[1]) THEN Ask(Get(u.url, NoAuth(me))) ELSE Skip
          [] n = 2 -> IF ~Heard(got[2]) \/ ~Served(got[1]) THEN Skip
                      ELSE IF shut THEN Ask(As("GET")) ELSE Ask(options)
          [] n = 3 /\ asked = 4 -> Ask(As("HEAD"))
          [] n > 2 /\ n = asked -> ReportAndAsk(bypass, options)
          [] OTHER -> Report(If("writes" \in got[n].marks, "methods-advertised"))

(* run_ws_tests: a hub's handshake by POST or GET, then without            *)
(* credentials.                                                            *)
WebSocket(u, got, me) ==
    LET n == Len(got)
        Shakes(a) == a.st = 200 /\ "hub" \in a.marks
        post == [Get(u.url, me) EXCEPT !.method = "POST"]
        bare == [Get(u.url, NoAuth(me)) EXCEPT !.method = IF n = 1 THEN "POST" ELSE "GET"]
        Verdict(a) == Report({IF Shakes(a) THEN "hub-open" ELSE "hub-guarded"})
    IN  CASE n = 0 -> Ask(post)
          [] n = 1 -> IF ~Heard(got[1]) THEN Skip
                      ELSE IF Shakes(got[1]) THEN Ask(bare) ELSE Ask(Get(u.url, me))
          [] n = 2 /\ ~Shakes(got[1]) ->
                      IF Shakes(got[2]) THEN Ask(bare) ELSE Skip
          [] OTHER -> Verdict(got[n])

-----------------------------------------------------------------------------
(* run_cors_checks takes notes under two foreign origins ...               *)
Cors(u, got, me) ==
    LET n == Len(got)
        marks == got[n].marks
        notes == If("acao-evil" \in marks /\ n = 1, "reflected")
                 \union If(/\ "acac" \in marks
                           /\ \/ "acao-star" \in marks
                              \/ "acao-evil" \in marks /\ n = 1, "credentials")
                 \union If("acao-null" \in marks /\ n = 2, "null")
    IN  CASE n = 0 -> Ask(Poison(u.url, me, "evil"))
          [] n = 1 -> ReportAndAsk(notes, Poison(u.url, me, "null"))
          [] OTHER -> Report(notes)

(* ... stops when both of these are there, and reports the strongest.      *)
CorsEnough(notes) == {"reflected", "credentials"} \subseteq notes
CorsVerdict(notes) ==
    IF "credentials" \in notes THEN {"credentials"}
    ELSE IF "reflected" \in notes THEN {"reflected"} ELSE notes

(* run_host_header_injection and run_cspp_checks: one proof is enough.     *)
HostHeader(u, got, me) ==
    IF got = <<>> THEN Ask(Poison(u.url, me, u.hdr))
    ELSE IF "hosted" \in got[1].marks THEN ReportAndStop({"host-header"}) ELSE Skip

Cspp(u, got, me) ==
    IF got = <<>> THEN Ask(Put(u.url, me, "pollute"))
    ELSE IF "link" \in got[1].marks THEN ReportAndStop({"cspp"}) ELSE Skip

(* Wrong variant: the poisoning request goes to the URL real users ask.    *)
BustedNot(r) == r

(* _bust: every probe has a cache key of its own.                          *)
Busted(r) == [r EXCEPT !.busted = TRUE]

(* run_cache_poisoning_checks: poison, then fetch the same key clean.      *)
CachePoison(u, got, me) ==
    LET n == Len(got)
    IN  CASE n = 0 -> Ask(Busted(Poison(u.url, me, u.hdr)))
          [] n = 1 -> IF "hosted" \in got[1].marks
                      THEN Ask(Busted(Get(u.url, me))) ELSE Skip
          [] OTHER -> IF "hosted" \in got[2].marks
                      THEN ReportAndStop({"cache-poisoning"}) ELSE Skip

(* The error-based half of the injection checks: a parser error that the   *)
(* baseline did not show.                                                  *)
ErrorBased(engine, got) ==
    engine \in got[2].marks /\ engine \notin got[1].marks
Substantial(a) == a.size > 2

(* run_xpath_checks: a true condition keeps the page, a false one empties  *)
(* it.                                                                     *)
XPath(u, got, me) ==
    LET n == Len(got)
        b == got[1].size
        Far(x, y) == 10 * Abs(x - y) > 3 * b
        differs == /\ 20 * Abs(got[3].size - b) < b
                   /\ Far(got[4].size, b) /\ Far(got[3].size, got[4].size)
    IN  IF n > 0 /\ ~Heard(got[n]) THEN Skip
        ELSE CASE n = 0 -> Ask(Get(u.url, me))
          [] n = 1 -> Ask(Put(u.url, me, "quote"))
          [] n = 2 -> IF ErrorBased("xpath", got) THEN ReportAndStop({"xpath"})
                      ELSE IF Substantial(got[1]) THEN Ask(Put(u.url, me, "true"))
                      ELSE Skip
          [] n = 3 -> Ask(Put(u.url, me, "false"))
          [] OTHER -> IF differs THEN ReportAndStop({"xpath"}) ELSE Skip

(* run_nosql_checks and run_ldap_checks: an operator or a wildcard in the  *)
(* parameter changes the result.                                           *)
Differential(u, got, me, kind, breaker, widener, Changed(_, _)) ==
    LET n == Len(got)
    IN  IF n > 0 /\ ~Heard(got[n]) THEN Skip
        ELSE CASE n = 0 -> Ask(Get(u.url, me))
          [] n = 1 -> Ask(Put(u.url, me, breaker))
          [] n = 2 -> IF ErrorBased(kind, got) THEN ReportAndStop({kind})
                      ELSE IF Substantial(got[1]) THEN Ask(Put(u.url, me, widener))
                      ELSE Skip
          [] OTHER -> IF Changed(got[1].size, got[3].size)
                      THEN ReportAndStop({kind}) ELSE Skip

NoSql(u, got, me) ==
    LET Changed(b, w) == 10 * Abs(w - b) > 3 * b
    IN  Differential(u, got, me, "nosql", "quote", "ne", Changed)
Ldap(u, got, me) ==
    LET Grew(b, w) == 10 * (w - b) > 4 * b
    IN  Differential(u, got, me, "ldap", "paren", "star", Grew)

(* run_hpp_checks: both values come back only when both were sent.         *)
Hpp(u, got, me) ==
    LET n == Len(got)
        Both(a) == "both" \in a.marks
    IN  IF n > 0 /\ ~Heard(got[n]) THEN Skip
        ELSE CASE n = 0 -> Ask(Put(u.url, me, "single"))
          [] n = 1 -> Ask(Put(u.url, me, "double"))
          [] OTHER -> IF Both(got[2]) /\ ~Both(got[1])
                      THEN ReportAndStop({"hpp"}) ELSE Skip

(* run_backup_scan asks twice for what cannot exist, then for copies of    *)
(* each file; known holds the not-found pages it was served with a 200.    *)
Backup(u, got, me, known) ==
    LET n == Len(got)
        Copy(a) == a.st = 200 /\ a.size > 0 /\ [size |-> a.size, marks |-> a.marks] \notin known
    IN  IF u.hdr = "baseline"
        THEN IF n < 2 THEN Ask(Put(u.url, me, "nothing")) ELSE Skip
        ELSE IF n > 0 /\ Copy(got[n]) THEN Report({"backup"})
        ELSE IF n = 0 THEN Ask(Put(u.url, me, "bak"))
        ELSE IF n = 1 THEN Ask(Put(u.url, me, "swp")) ELSE Skip

Reflection(u, got, me) ==
    IF got = <<>> THEN Ask(Put(u.url, me, "canary"))
    ELSE Report(If("canary" \in got[1].marks, "reflected-input"))

(* run_transformation_checks: an expression evaluated, or a quote escaped. *)
Transformation(u, got, me) ==
    LET n == Len(got)
    IN  CASE n = 0 -> Ask(Put(u.url, me, "expression"))
          [] n = 1 -> IF "evaluated" \in got[1].marks THEN Report({"template"})
                      ELSE Ask(Put(u.url, me, "quote"))
          [] OTHER -> Report(If("escaped" \in got[2].marks, "escape"))

(* scan_api_exposure: records or credentials in what is served to the      *)
(* cookie alone, or to nobody; a page that parses as XML counts its        *)
(* elements as records.                                                    *)
ApiExposure(u, got, me) ==
    IF got = <<>> THEN Ask(Get(u.url, CookieOnly(me)))
    ELSE Report(If(/\ Done2xx(got[1])
                   /\ {"records", "well-formed"} \intersect got[1].marks # {},
                   IF me["cookie"] = "none" THEN "exposed" ELSE "exposed-with-session"))

(* formchecks.py: a form without an anti-CSRF token, and one canary sent   *)
(* through every form.                                                     *)
FormSecurity(u, got, me) ==
    LET form == Put(u.url, CookieOnly(me), "canary")
    IN  CASE got = <<>> -> Ask(Get(u.url, CookieOnly(me)))
          [] Len(got) = 1 /\ "form" \in got[1].marks ->
               ReportAndAsk(If("tokened" \notin got[1].marks, "csrf"),
                            [form EXCEPT !.method = "POST"])
          [] Len(got) = 1 -> Skip
          [] OTHER -> Report(If("canary" \in got[2].marks, "reflected-input"))
=============================================================================
