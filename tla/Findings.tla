------------------------------ MODULE Findings ------------------------------
(***************************************************************************)
(* The way of a finding from its detection to the report                   *)
(* (engagement.py: verify_finding and the end of run_engagement): replay,  *)
(* the ZAP engine's soft-404 guard, merge of duplicates, secret            *)
(* assessment, capture of live responses, header gate, shell dedup,        *)
(* backfill.  Capture, gate and shell dedup share one try.                 *)
(***************************************************************************)
EXTENDS Replays, Sublists, SequencesExt, FiniteSets

CONSTANTS Words,        \* ids, categories, parameters, methods, tools
          Detected,     \* findings of the active stages, in order
          Later,        \* those of the stages after verification, in order
          FromZap,      \* and of the ZAP engine
          Path,         \* the path of a URL
          Urls, Pages,  \* what the application may answer there
          NeedsHtml,    \* _HYGIENE_CHECKS: headers only an HTML body needs
          PresenceFixes,\* _presence_fixes
          Varying,      \* not-found pages of which no two are alike
          FullCapture   \* D4ST_FULL_CAPTURE

(* What the pipeline reads of a finding.                                   *)
Responses == [kind : {"real", "capture"}, of : Words, page : Pages]
Exchanges == Responses \union [kind : {"tool", "placeholder"}, of : Words]
AllFindings ==
    [id : Words, cat : Words, url : Urls, param : Words, method : Words,
     tool : Words, verified : {"yes", "no", "none"}, heard : BOOLEAN,
     place : Words, says : Words, exists : BOOLEAN, secret : BOOLEAN,
     evid : Seq(Exchanges)]

ASSUME FindingsAssumption ==
    /\ FullCapture \in BOOLEAN
    /\ {"impact", "secret-disclosure", "", "GET", "secret-assess", "classic",
        "nothing"} \subseteq Words
    /\ Varying \notin Pages
    /\ \A fs \in {Detected, Later, FromZap} : fs \in Seq(AllFindings)

(* An id is one finding, and none is the id of those added on the way.     *)
ASSUME IdsAssumption ==
    LET all == Detected \o Later \o FromZap
    IN  \A i, j \in DOMAIN all :
            all[i].id # "impact" /\ (all[i].id = all[j].id => i = j)

VARIABLES live,      \* the page the application serves at each URL
          nowhere,   \* what it serves where nothing is, or Varying
          phase,
          at,        \* the finding the loop of this phase is at
          findings,  \* the list, findings and later uniq in the code
          cache,     \* capture_full_evidence: answer per URL
          arrived    \* every finding as its detector raised it

vars == <<live, nowhere, phase, at, findings, cache, arrived>>

-----------------------------------------------------------------------------
Kinds(f) == {f.evid[i].kind : i \in DOMAIN f.evid}

(* An exchange that shows a response the application gave: numeric status. *)
Real == {"real", "capture"}

(* _is_synthetic_exchange: neither a status nor headers nor an injected    *)
(* body, only what a tool says about it.                                   *)
Synthetic(x) == x.kind = "placeholder"

(* The replay of a finding's class, if there is one.                       *)
ReplayOf(f) ==
    CASE f.cat = "command-injection" -> <<VerifyCmdi>>
      [] f.cat = "xss" -> <<VerifyReflectedXss>>
      [] f.cat = "sql-injection" -> <<VerifySqli>>
      [] f.cat = "file-inclusion" -> <<VerifyLfi>>
      [] f.cat = "open-redirect" -> <<VerifyOpenRedirect>>
      [] f.cat = "verbtamper" -> <<VerifyVerbtamper>>
      [] f.cat = "parameter-pollution" -> <<VerifyHpp>>
      [] f.cat = "disclosure" -> <<VerifyDisclosureLive>>
      [] OTHER -> <<>>

(* How a replay can end: its verdict, and whether that rests on answers to *)
(* every request or on one that was lost.                                  *)
Endings(c) ==
    LET Known(ans, k) == {c.sends[i] : i \in {j \in 1 .. k :
            ans[j] = "tell" \/ (ans[j] = "error" /\ c.sends[j] \in c.lenient)}}
        Says(ans, k) == Verdict(c, Known(ans, k), k, ans[k])
        End(ans) == CHOOSE k \in DOMAIN c.sends :
            /\ Says(ans, k) # "open"
            /\ \A j \in 1 .. k - 1 : Says(ans, j) = "open"
    IN  {[verdict |-> Says(ans, End(ans)),
          heard |-> \A j \in 1 .. End(ans) : ans[j] # "error"] :
            ans \in [DOMAIN c.sends -> Answers]}

Categories == {"command-injection", "xss", "sql-injection", "file-inclusion",
               "open-redirect", "verbtamper", "parameter-pollution",
               "disclosure"}
EndingsOf == [cat \in Categories |-> Endings(ReplayOf([cat |-> cat])[1])]

(* The replays run outside the probe pool, with no injection shape: a      *)
(* parameter in the path or in a JSON body is not reached, so nothing can  *)
(* tell.                                                                   *)
Reached(f) == f.place = "classic"
Replays(f) == {e \in EndingsOf[f.cat] : Reached(f) \/ e.verdict # "yes"}

(* Wrong variant: the replay's verdict replaces the detector's.            *)
JudgedAnew(f, e) ==
    [f EXCEPT !.verified = e.verdict, !.heard = e.heard /\ Reached(f)]

(* verify_finding's rule: a replay confirms, annotates or refutes, but     *)
(* never takes back what a detector proved.                                *)
Judged(f, e) ==
    IF e.verdict = "yes" THEN [f EXCEPT !.verified = "yes"]
    ELSE IF e.verdict = "none" \/ f.verified = "yes" THEN f
    ELSE [f EXCEPT !.verified = "no", !.heard = e.heard /\ Reached(f)]

NotReplayed(f) ==
    IF f.verified = "yes" THEN f ELSE [f EXCEPT !.verified = "none"]

-----------------------------------------------------------------------------
Init ==
    /\ live \in [Urls -> Pages]
    /\ nowhere \in Pages \union {Varying}
    /\ phase = "verify" /\ at = 1
    /\ findings = Detected
    /\ cache = [u \in Urls |-> "unset"]
    /\ arrived = Detected \o Later \o FromZap

VerifyNext ==
    /\ phase = "verify" /\ at <= Len(findings)
    /\ LET f == findings[at]
       IN  IF ReplayOf(f) = <<>>
           THEN findings' = [findings EXCEPT ![at] = NotReplayed(f)]
           ELSE \E e \in Replays(f) :
                  findings' = [findings EXCEPT ![at] = Judged(f, e)]
    /\ at' = at + 1
    /\ UNCHANGED <<live, nowhere, phase, cache, arrived>>

(* What passive, TLS, exposure, PII, DOM and sqlmap stages add is not      *)
(* replayed.                                                               *)
LaterStages ==
    /\ phase = "verify" /\ at > Len(findings)
    /\ findings' = findings \o Later
    /\ phase' = "zap"
    /\ UNCHANGED <<live, nowhere, at, cache, arrived>>

(* _soft404_baseline: of three random siblings, at least two must answer,  *)
(* and alike, for the directory's not-found page to be known.              *)
Calibrated(lost) == nowhere # Varying /\ 3 - lost >= 2

LikeNothing(u) ==
    live[u].status = nowhere.status /\ live[u].body = nowhere.body

(* _is_soft404_fp: the claimed file answers like one that cannot exist.    *)
LooksLikeNothing(f, lost) ==
    f.exists /\ Calibrated(lost) /\ LikeNothing(f.url)

(* run_zap ends with the guard; an answer lost on the way keeps a finding. *)
ZapScan ==
    /\ phase = "zap"
    /\ \E lost \in 0 .. 3, unanswered \in SUBSET ToSet(FromZap) :
         LET Stands(f) == f \in unanswered \/ ~LooksLikeNothing(f, lost)
         IN  findings' = findings \o Where(FromZap, Stands)
    /\ phase' = "merge"
    /\ UNCHANGED <<live, nowhere, at, cache, arrived>>

-----------------------------------------------------------------------------
Key(f) == <<f.cat, Path[f.url], f.param>>

FirstOf(fs, i) == \A j \in 1 .. i - 1 : Key(fs[j]) # Key(fs[i])
Alike(fs, i) == {j \in i .. Len(fs) : Key(fs[j]) = Key(fs[i])}

(* The first finding of its key is kept, with the first evidence any of    *)
(* them carries.                                                           *)
WithProof(fs, i) ==
    LET proved == {j \in Alike(fs, i) : fs[j].evid # <<>>}
        first == CHOOSE j \in proved : \A k \in proved : j <= k
    IN  IF proved = {} THEN fs[i]
        ELSE [fs[i] EXCEPT !.evid = fs[first].evid]

Merge ==
    /\ phase = "merge"
    /\ LET kept == {i \in DOMAIN findings : FirstOf(findings, i)}
       IN  findings' = Sublist([i \in DOMAIN findings |-> WithProof(findings, i)], kept)
    /\ phase' = "secrets"
    /\ UNCHANGED <<live, nowhere, at, cache, arrived>>

(* assess_secrets: one more finding per disclosed key, under its own       *)
(* category and without a parameter.  It comes as not verified unless a    *)
(* live check, off by default, finds the key unrestricted.                 *)
Assessment(f) ==
    [id |-> "impact", cat |-> "secret-disclosure", url |-> f.url,
     param |-> "", method |-> "GET", tool |-> "secret-assess",
     verified |-> "no", heard |-> FALSE, place |-> "classic",
     says |-> "nothing", exists |-> FALSE, secret |-> FALSE,
     evid |-> <<[kind |-> "tool", of |-> "impact"]>>]

AssessSecrets ==
    /\ phase = "secrets"
    /\ LET Discloses(f) == f.secret
           keys == Where(findings, Discloses)
       IN  \/ findings' = findings \o [n \in DOMAIN keys |-> Assessment(keys[n])]
           \/ UNCHANGED findings          \* the assessment raised
    /\ phase' = IF FullCapture THEN "capture" ELSE "backfill"
    /\ at' = 1
    /\ UNCHANGED <<live, nowhere, cache, arrived>>

-----------------------------------------------------------------------------
Capturable(f) == f.method = "GET" /\ f.tool # "authz"

Capture(f) == [kind |-> "capture", of |-> f.id, page |-> live[f.url]]

(* Wrong variant: the capture takes the place of the attack's exchanges.   *)
CapturedAlone(f) == [f EXCEPT !.evid = <<Capture(f)>>]

(* The full capture goes first, what detection exchanged stays behind it,  *)
(* placeholders give way.                                                  *)
Captured(f) ==
    LET Genuine(x) == ~Synthetic(x)
    IN  [f EXCEPT !.evid = <<Capture(f)>> \o Where(f.evid, Genuine)]

(* One turn of capture_full_evidence: each URL is asked once.              *)
CaptureNext ==
    /\ phase = "capture" /\ at <= Len(findings)
    /\ LET f == findings[at]
       IN  IF ~Capturable(f) THEN UNCHANGED <<findings, cache>>
           ELSE \E a \in IF cache[f.url] = "unset" THEN {"page", "lost"}
                         ELSE {cache[f.url]} :
                  /\ cache' = [cache EXCEPT ![f.url] = a]
                  /\ findings' = IF a = "lost" THEN findings
                                 ELSE [findings EXCEPT ![at] = Captured(f)]
    /\ at' = at + 1
    /\ UNCHANGED <<live, nowhere, phase, arrived>>

(* The session refresh or a turn of the capture raises: gate and dedup are *)
(* skipped, the captures made stay.                                        *)
CaptureRaises ==
    /\ phase = "capture" /\ (at = 1 \/ at <= Len(findings))
    /\ phase' = "backfill" /\ at' = 1
    /\ UNCHANGED <<live, nowhere, findings, cache, arrived>>

(* _hygiene_kind reads a header's name anywhere in the finding's text;     *)
(* says is that header.                                                    *)
Hygiene(f) == f.says # "nothing"
Answered(f) == Kinds(f) \intersect Real # {}

(* _primary_captured_response: the first response of the evidence, the     *)
(* capture's or, where none was made, one the detector had, to an attack   *)
(* perhaps.                                                                *)
Primary(f) ==
    LET real == {i \in DOMAIN f.evid : f.evid[i].kind \in Real}
    IN  f.evid[CHOOSE i \in real : \A j \in real : i <= j].page

Present(h, page) ==
    \/ h \in PresenceFixes /\ h \in page.headers
    \/ h = "x-frame-options" /\ "frame-ancestors" \in page.headers
Applicable(h, page) == page.status = 200 /\ (h \in NeedsHtml => page.html)

(* The response contradicts the finding, or it cannot apply to it.         *)
Contradicts(page, h) == Present(h, page) \/ ~Applicable(h, page)
Disproved(f) == Contradicts(Primary(f), f.says)

(* Wrong variant: a finding that could not be checked is dropped as well.  *)
GatedUnseen(f) == Hygiene(f) /\ (Answered(f) => Disproved(f))

Gated(f) == Hygiene(f) /\ Answered(f) /\ Disproved(f)

Unproven(f) ==
    IF Hygiene(f) /\ ~Answered(f) /\ f.verified = "yes"
    THEN [f EXCEPT !.verified = "none"] ELSE f

GateHeaders ==
    /\ phase = "capture" /\ at > Len(findings)
    /\ LET Passes(f) == ~Gated(f)
           kept == Where(findings, Passes)
       IN  findings' = [n \in DOMAIN kept |-> Unproven(kept[n])]
    /\ phase' = "shell"
    /\ UNCHANGED <<live, nowhere, at, cache, arrived>>

(* One missing header on one and the same body is one finding, the first;  *)
(* what is grouped moves to the end of the list.                           *)
Groupable(f) == Hygiene(f) /\ Answered(f) /\ Primary(f).body # "blank"
Group(f) == <<f.says, Primary(f).body>>

Leads(fs, i) ==
    \A j \in 1 .. i - 1 : Groupable(fs[j]) => Group(fs[j]) # Group(fs[i])

DedupShell ==
    /\ phase = "shell"
    /\ LET Alone(f) == ~Groupable(f)
           reps == {i \in DOMAIN findings :
                       Groupable(findings[i]) /\ Leads(findings, i)}
       IN  findings' = Where(findings, Alone) \o Sublist(findings, reps)
    /\ phase' = "backfill"
    /\ UNCHANGED <<live, nowhere, at, cache, arrived>>

(* Wrong variant: only findings that could have been captured are filled.  *)
BackfilledGet(f) ==
    IF Capturable(f)
    THEN [f EXCEPT !.evid = <<[kind |-> "placeholder", of |-> f.id]>>] ELSE f

Backfilled(f) ==
    IF f.evid # <<>> THEN f
    ELSE [f EXCEPT !.evid = <<[kind |-> "placeholder", of |-> f.id]>>]

Backfill ==
    /\ phase = "backfill"
    /\ findings' = [n \in DOMAIN findings |-> Backfilled(findings[n])]
    /\ phase' = "done"
    /\ UNCHANGED <<live, nowhere, at, cache, arrived>>

Next ==
    \/ VerifyNext \/ LaterStages \/ ZapScan \/ Merge \/ AssessSecrets
    \/ CaptureNext \/ CaptureRaises \/ GateHeaders \/ DedupShell \/ Backfill

Spec == Init /\ [][Next]_vars

-----------------------------------------------------------------------------
Done == phase = "done"
Shipped == ToSet(findings)

TypeOK ==
    /\ live \in [Urls -> Pages]
    /\ phase \in {"verify", "zap", "merge", "secrets", "capture", "shell",
                  "backfill", "done"}
    /\ \A f \in Shipped : f.verified \in {"yes", "no", "none"}
    /\ cache \in [Urls -> {"unset", "page", "lost"}]

(* No finding ships without a request/response block, whatever raised on   *)
(* the way.                                                                *)
ShippedWithProof == Done => \A f \in Shipped : f.evid # <<>>

(* The application denies what a finding claims to exist.                  *)
Denied(a) == a.exists /\ nowhere # Varying /\ LikeNothing(a.url)

(* The arrived finding that stands for a once duplicates are merged.       *)
StandsFor(a, k) ==
    \E i, j \in DOMAIN arrived :
        /\ i <= j /\ arrived[i] = k /\ arrived[j] = a
        /\ Key(k) = Key(a)

(* The responses on record about a finding: the page it is reported at,    *)
(* and what it and its duplicates arrived with.                            *)
OnRecord(k) ==
    {live[k.url]} \union
    UNION {{x.page : x \in ToSet(b.evid) \intersect Responses} :
           b \in {c \in ToSet(arrived) : Key(c) = Key(k)}}

(* Every finding a detector raised is in the report's list, under itself   *)
(* or under an earlier one of the same place, or of the same header on the *)
(* same body; or a response on record about it speaks against it.          *)
NothingIsLost ==
    Done => \A a \in ToSet(arrived) :
        \/ Denied(a)
        \/ \E k \in ToSet(arrived) :
             /\ StandsFor(a, k)
             /\ \/ \E f \in Shipped : f.id = k.id
                \/ /\ Hygiene(k)
                   /\ \E p \in OnRecord(k) :
                        \/ Contradicts(p, k.says)
                        \/ \E f \in Shipped :
                             /\ f.says = k.says
                             /\ Answered(f) /\ Primary(f).body = p.body

(* A finding that counts as proved and no step of the pipeline takes back: *)
(* after each it is there and proved, unless                               *)
(*   - the merge finds an earlier one of the same place, which stays in    *)
(*     its stead with whatever verdict it has,                             *)
(*   - the header gate has a response that speaks against it, and drops    *)
(*     it, or has none, and leaves it without a verdict,                   *)
(*   - the shell dedup keeps another of the same header and body.          *)
StaysAs(f, verdict) ==
    \E g \in ToSet(findings') : g.id = f.id /\ g.verified = verdict

YieldsInMerge(f) ==
    /\ phase = "merge"
    /\ \E i, j \in DOMAIN findings :
         /\ i < j /\ findings[j] = f /\ Key(findings[i]) = Key(f)
         /\ StaysAs(findings[i], findings[i].verified)

YieldsAtGate(f) ==
    /\ phase = "capture" /\ phase' = "shell" /\ Hygiene(f)
    /\ IF Answered(f) THEN Disproved(f) ELSE StaysAs(f, "none")

YieldsInDedup(f) ==
    /\ phase = "shell" /\ Groupable(f)
    /\ \E g \in ToSet(findings') : Groupable(g) /\ Group(g) = Group(f)

ProvenStaysProven ==
    [][\A f \in Shipped : f.verified = "yes" =>
        \/ StaysAs(f, "yes")
        \/ YieldsInMerge(f) \/ YieldsAtGate(f) \/ YieldsInDedup(f)]_vars

(* What a report shows of a finding, detection's own exchanges stay in it, *)
(* or, where it had none, those of a duplicate that had and that the       *)
(* application did not deny.                                               *)
NativeProofSurvives ==
    Done => \A f \in Shipped, a \in ToSet(arrived) : a.id = f.id =>
        LET alike == {b \in ToSet(arrived) : Key(b) = Key(a)}
        IN  \/ \A b \in alike : b.evid = <<>> \/ Denied(b)
            \/ \E b \in alike :
                 /\ b.evid # <<>>
                 /\ \A x \in ToSet(b.evid) : Synthetic(x) \/ x \in ToSet(f.evid)

(* The report hides what is marked refuted, "false positives d4st's own    *)
(* verification caught" (report.py): such a finding was replayed, and the  *)
(* application answered.                                                   *)
HiddenMeansRefuted ==
    Done => \A f \in Shipped : f.verified = "no" => f.heard

(* The merge lets a "richer duplicate" win "its proof" (engagement.py:     *)
(* 3508): what a detector proved, and no page of the application denies,   *)
(* is not hidden in the report because an earlier duplicate was refuted.   *)
ProvenIsShown ==
    Done => \A a \in ToSet(arrived) :
        (a.verified = "yes" /\ ~Hygiene(a) /\ ~Denied(a)) =>
            \E f \in Shipped : Key(f) = Key(a) /\ f.verified # "no"
=============================================================================
