----------------------------- MODULE MCFindings -----------------------------
(* Two URLs of one site.  A scanner and a probe report the same injection, *)
(* the scanner without proof; a CSRF finding mentions a header; passive    *)
(* and ZAP report a missing header on pages that may be one; ZAP claims a  *)
(* file a roster tool names without proof; a script discloses a key or     *)
(* not.                                                                    *)
EXTENDS Findings, TLC

CONSTANT Disclosing

Base == [cat |-> "sql-injection", url |-> "a", param |-> "id",
         method |-> "GET", tool |-> "roster", verified |-> "none",
         heard |-> FALSE, place |-> "classic", says |-> "nothing",
         exists |-> FALSE, secret |-> FALSE, evid |-> <<>>]

Shell == [status |-> 200, html |-> TRUE, body |-> "shell", headers |-> {}]
Moved == [status |-> 302, html |-> FALSE, body |-> "blank", headers |-> {}]

Scanner == [id |-> "scanner"] @@ Base
Probe == [id |-> "probe", tool |-> "verify", verified |-> "yes",
          evid |-> <<[kind |-> "real", of |-> "probe", page |-> Shell]>>] @@ Base
Csrf == [id |-> "csrf", cat |-> "csrf", tool |-> "verify", url |-> "b",
         param |-> "", method |-> "*", verified |-> "yes",
         says |-> "referrer-policy"] @@ Base
Passive == [id |-> "passive", cat |-> "misconfiguration", tool |-> "passive",
            param |-> "clickjacking", verified |-> "yes",
            says |-> "x-frame-options",
            evid |-> <<[kind |-> "real", of |-> "passive", page |-> Shell]>>] @@ Base
Bundle == [id |-> "bundle", cat |-> "pii-disclosure", tool |-> "pii",
           param |-> "key", verified |-> "yes", secret |-> Disclosing,
           evid |-> <<[kind |-> "tool", of |-> "bundle"]>>] @@ Base
Frames == [id |-> "frames", cat |-> "misconfiguration", tool |-> "zap",
           url |-> "b", param |-> "x-frame-options", verified |-> "yes",
           says |-> "x-frame-options",
           evid |-> <<[kind |-> "placeholder", of |-> "frames"]>>] @@ Base
Sniff == [id |-> "sniff", param |-> "x-content-type-options",
          says |-> "x-content-type-options",
          evid |-> <<[kind |-> "placeholder", of |-> "sniff"]>>] @@ Frames
File == [id |-> "file", cat |-> "info-disclosure", tool |-> "zap",
         url |-> "b", param |-> "", verified |-> "yes", exists |-> TRUE,
         evid |-> <<[kind |-> "tool", of |-> "file"]>>] @@ Base

Listing == [id |-> "listing", tool |-> "roster", verified |-> "no",
            exists |-> FALSE, evid |-> <<>>] @@ File
Untyped == [id |-> "untyped", tool |-> "passive", url |-> "a",
            evid |-> <<[kind |-> "real", of |-> "untyped", page |-> Moved]>>] @@ Sniff

MCWords == STRING
MCDetected == <<Scanner, Probe, Csrf, Listing>>
MCLater == <<Passive, Untyped, Bundle>>
MCFromZap == <<Frames, Sniff, File>>

MCPath == [u \in {"a", "b"} |-> u]
MCPages == {Shell, [Shell EXCEPT !.headers = {"x-frame-options"}], Moved}
=============================================================================
