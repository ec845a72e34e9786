---------------------------- MODULE SessionKeeper ----------------------------
(***************************************************************************)
(* The session keeper of a scan (class SessionKeeper of d4st/engagement.py) *)
(* and the application it keeps a session with.  The scan calls ensure()   *)
(* at stage boundaries; ensure() probes the session and logs in again when *)
(* the probe says it is lost.  Sessions expire at any moment, probes can   *)
(* mislead, and a login can fail in several ways: the command runs in a    *)
(* shell for three minutes at most, so it may be cut off, or print nothing *)
(* usable, before or after the application opened a session for it.        *)
(*                                                                         *)
(* Cookies are numbered in the order the application issued them; cookie 0 *)
(* is the one captured before the scan.                                    *)
(***************************************************************************)
EXTENDS Integers

CONSTANTS
    MaxCookies,    \* bound: the application issues at most this many cookies more
    Noise          \* how a probe may mislead, besides telling the truth

ASSUME KeeperAssumption ==
    /\ MaxCookies \in Nat
    /\ Noise \subseteq {"error", "misread"}

VARIABLES
    keeper,        \* self.cookie
    reauths,       \* self.reauths
    valid,         \* the cookies the application still honours
    issued,        \* how many cookies the application has issued since
    login,         \* history: what the last call of ensure() was about
    unnoticed      \* history: the session ended and nobody has looked since

kvars == <<keeper, reauths, valid, issued, login, unnoticed>>

Cookies == 0..MaxCookies

\* The truth; a network error or timeout; a page that hides the marker or
\* redirects somewhere that merely contains "auth" (any 5xx page lacks the
\* marker too: the status is not looked at).
Probes == {"truth"} \union Noise

\* What a login attempt does: fail, with an exception or without a cookie;
\* revive the same cookie; issue a new one beside the old, or issue one and drop
\* the old (single-session applications); issue one that does not work.  A
\* command cut off after three minutes, or printing nothing usable, may have
\* opened a session all the same.
Logins == {"fails", "revives", "adds", "replaces", "useless",
           "adds unseen", "replaces unseen"}
Issuing == Logins \ {"fails", "revives"}

NoLogin == [asked |-> FALSE, live |-> FALSE, misled |-> FALSE]

KTypeOK ==
    /\ keeper \in Cookies
    /\ reauths \in Nat
    /\ valid \subseteq Cookies
    /\ issued \in Cookies
    /\ unnoticed \in BOOLEAN
    /\ login \in [asked : BOOLEAN, live : BOOLEAN, misled : BOOLEAN]

KInit ==
    /\ keeper = 0
    /\ reauths = 0
    /\ valid \in {{0}, {}}
    /\ issued = 0
    /\ login = NoLogin
    /\ unnoticed = FALSE

\* Wrong variant, kept for mutation: a network error taken for a lost session.
AliveNervous(probe) ==
    CASE probe = "truth" -> keeper \in valid
      [] OTHER -> FALSE

\* alive(): an exception means "assume alive".
Alive(probe) ==
    CASE probe = "truth" -> keeper \in valid
      [] probe = "error" -> TRUE
      [] OTHER -> FALSE

\* The cookie reauth() returns, if any.
Fresh(how) ==
    CASE how \in {"adds", "replaces", "useless"} -> issued + 1
      [] how = "revives" -> keeper
      [] OTHER -> -1

\* The sessions the application honours after that login attempt.
Honoured(how) ==
    CASE how \in {"adds", "adds unseen"} -> valid \union {issued + 1}
      [] how \in {"replaces", "replaces unseen"} -> {issued + 1}
      [] how = "revives" -> valid \union {keeper}
      [] OTHER -> valid

\* A fresh cookie replaces the keeper's and is counted; an empty or unchanged
\* one, or an exception, leaves the old cookie in use.
Adopt(how) ==
    IF Fresh(how) \in {-1, keeper}
    THEN UNCHANGED <<keeper, reauths>>
    ELSE keeper' = Fresh(how) /\ reauths' = reauths + 1

\* One call of ensure(); a keeper without probe URL and login is inert.
Ensure(enabled, probe, how) ==
    /\ unnoticed' = FALSE
    /\ IF ~enabled \/ Alive(probe)
       THEN login' = NoLogin /\ UNCHANGED <<keeper, reauths, valid, issued>>
       ELSE /\ login' = [asked |-> TRUE, live |-> keeper \in valid,
                           misled |-> probe = "misread"]
            /\ valid' = Honoured(how)
            /\ issued' = IF how \in Issuing THEN issued + 1 ELSE issued
            /\ issued' <= MaxCookies
            /\ Adopt(how)

\* Idle timeout, rotation, a stray logout link, an engine logging itself out.
Expire ==
    /\ \E c \in valid :
          /\ valid' = valid \ {c}
          /\ unnoticed' = (unnoticed \/ c = keeper)
    /\ login' = NoLogin
    /\ UNCHANGED <<keeper, reauths, issued>>

KNext ==
    \/ \E probe \in Probes, how \in Logins : Ensure(TRUE, probe, how)
    \/ Expire

KSpec == KInit /\ [][KNext]_kvars
-----------------------------------------------------------------------------
\* alive() promises "never thrash a re-auth on a transient network blip": a
\* session that still works is not logged in again, unless the probe page
\* itself lied.
NoThrashOnBlip == login.asked /\ ~login.misled => ~login.live
=============================================================================
