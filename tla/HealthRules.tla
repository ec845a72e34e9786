---------------------------- MODULE HealthRules ----------------------------
(***************************************************************************)
(* The arithmetic of TargetHealth (d4st/safety.py): how one ping is        *)
(* charged, how charged strikes escalate the stress stage, and how the     *)
(* stage caps the injection depth.  Shared by TargetHealth, where the rules *)
(* are studied alone, and by Engagement, where the stages of a scan consult *)
(* them.                                                                   *)
(***************************************************************************)
EXTENDS Integers

\* What one ping reports: answered in time, answered after more than
\* slow_ms, or a connection error, timeout or 5xx.
Pings == {"ok", "slow", "down"}

Stages == 0..2

\* strikes after a ping: a hard failure weighs two, a slow answer one, and
\* a healthy answer takes one back, never below zero.
Charged(strikes, ping) ==
    CASE ping = "down" -> strikes + 2
      [] ping = "slow" -> strikes + 1
      [] OTHER -> IF strikes = 0 THEN 0 ELSE strikes - 1

\* Wrong variants: the halt at the backoff threshold, the stage recomputed
\* from the decayed strikes.
EscalatedEarly(stage, strikes) ==
    IF strikes >= 2 THEN 2 ELSE stage
EscalatedAfresh(stage, strikes) ==
    IF strikes >= 4 THEN 2 ELSE IF strikes >= 2 THEN 1 ELSE 0

\* The stage reached with that many strikes: it steps up, never down.
Escalated(stage, strikes) ==
    IF strikes >= 4 /\ stage < 2 THEN 2
    ELSE IF strikes >= 2 /\ stage < 1 THEN 1
    ELSE stage

\* sqlmap_level: full depth at stage 0, at most 3 once the target is stressed.
Level(stage, base) ==
    IF stage = 0 \/ base < 3 THEN base ELSE 3
=============================================================================
