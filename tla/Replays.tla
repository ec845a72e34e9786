------------------------------ MODULE Replays ------------------------------
(***************************************************************************)
(* The replay checks of engagement.py, verify_cmdi to                      *)
(* verify_disclosure_live, each as the script of requests it sends and     *)
(* what it concludes from the answers.  Payload lists are cut to one       *)
(* representative per kind; an answer either tells (it carries the         *)
(* signature the payload looks for), is still, or never comes.             *)
(***************************************************************************)
EXTENDS Naturals, Sequences

Answers == {"tell", "still", "error"}

(* A check: the payloads it sends in order; the sets of telling payloads   *)
(* that prove at once (enough) or only when the script is used up (late);  *)
(* the payloads whose lost answer ends the check (fatal), counts as        *)
(* telling (lenient), and those that must tell for the check to go on      *)
(* (gate); whether its exchanges are recorded as proof, whether it goes    *)
(* through _req and so follows the target's shape, and its verdict when    *)
(* nothing told.                                                           *)
Script(sends, enough) ==
    [sends |-> sends, enough |-> enough, late |-> {}, fatal |-> {},
     lenient |-> {}, gate |-> {}, recorded |-> TRUE, shaped |-> FALSE,
     otherwise |-> "no"]

(* Every separator in turn, a lost answer skips one.                       *)
VerifyCmdi == Script(<<"pipe", "subshell">>, {{"pipe"}, {"subshell"}})

(* A verbatim tag is proof at once; a verbatim handler or URI is kept as   *)
(* a suspicion while the remaining payloads are tried.                     *)
VerifyReflectedXss ==
    [Script(<<"tag", "handler", "uri">>, {{"tag"}})
        EXCEPT !.late = {{"handler"}, {"uri"}}]

(* One fetch: a source and a sink in the page's inline script.             *)
VerifyDomXss == [Script(<<"page">>, {{"page"}}) EXCEPT !.fatal = {"page"}]

(* A database error; then a page that differs between the true and the     *)
(* false payload and whose benign rendering sides with the true one; then  *)
(* a delay the 2 s payload confirms.  A lost answer of the first four ends *)
(* the check, one of the timed three the template, of which one is kept    *)
(* here: there is no next one to go on with.                               *)
VerifySqli ==
    [Script(<<"quote", "true", "false", "base", "fast", "slow", "mid">>,
            {{"quote"}, {"false", "base"}, {"slow", "mid"}})
        EXCEPT !.fatal = {"quote", "true", "false", "base", "fast", "slow"},
               !.shaped = TRUE]

VerifyLfi ==
    [Script(<<"traversal", "wrapper">>, {{"traversal"}, {"wrapper"}})
        EXCEPT !.shaped = TRUE]

VerifyOpenRedirect ==
    [Script(<<"naive", "bypass">>, {{"naive"}, {"bypass"}})
        EXCEPT !.shaped = TRUE]

(* Writes the payload, then looks for it; nothing is recorded.             *)
VerifyStoredXss ==
    [Script(<<"post", "view">>, {{"view"}})
        EXCEPT !.fatal = {"post", "view"}, !.recorded = FALSE]

(* A session cookie without SameSite, then a forged Origin: only an        *)
(* explicit refusal clears the form, a lost answer leaves it "likely".     *)
VerifyCsrf(active) ==
    [Script(IF active THEN <<"cookies", "forged">> ELSE <<"cookies">>,
            IF active THEN {{"forged"}} ELSE {{"cookies"}})
        EXCEPT !.gate = {"cookies"}, !.lenient = {"forged"},
               !.recorded = FALSE]

(* An unauthenticated GET must still be refused, the flagged method must   *)
(* still be let through.                                                   *)
VerifyVerbtamper ==
    [Script(<<"bare", "variant">>, {{"variant"}})
        EXCEPT !.fatal = {"bare", "variant"}, !.gate = {"bare"}]

VerifyHpp ==
    [Script(<<"single", "doubled">>, {{"doubled"}})
        EXCEPT !.fatal = {"single", "doubled"}]

(* Finding the value again confirms; anything else decides nothing.        *)
VerifyDisclosureLive ==
    [Script(<<"refetch">>, {{"refetch"}}) EXCEPT !.otherwise = "none"]

(* What the check knows after the answer to payload p.                     *)
Told(c, told, p, ans) ==
    IF ans = "tell" \/ (ans = "error" /\ p \in c.lenient)
    THEN told \union {p} ELSE told

(* The verdict after payload number k, told being what is known by then:   *)
(* "open" as long as the script goes on.                                   *)
Verdict(c, told, k, ans) ==
    LET p == c.sends[k]
        last == k = Len(c.sends)
    IN  IF \E e \in c.enough : e \subseteq told THEN "yes"
        ELSE IF (ans = "error" /\ p \in c.fatal) \/ p \in c.gate \ told
        THEN c.otherwise
        ELSE IF ~last THEN "open"
        ELSE IF \E e \in c.late : e \subseteq told THEN "yes"
        ELSE c.otherwise
=============================================================================
