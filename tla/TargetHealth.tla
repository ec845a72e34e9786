---------------------------- MODULE TargetHealth ----------------------------
(***************************************************************************)
(* The stress monitor of a scan, class TargetHealth of d4st/safety.py: the *)
(* engagement calls check() between heavy engines, the target answers each *)
(* ping somehow, and the monitor decides whether to go on at full depth    *)
(* (stage 0), at reduced depth (stage 1) or to halt (stage 2).             *)
(*                                                                         *)
(* seen is a history variable: how many pings came back each way.  The     *)
(* properties say what the monitor may conclude from such a history.       *)
(***************************************************************************)
EXTENDS HealthRules

CONSTANT MaxPings      \* bound on the number of pings explored

ASSUME MaxPingsAssumption == MaxPings \in Nat

VARIABLES stage, strikes, pings, seen

hvars == <<stage, strikes, pings, seen>>

HTypeOK ==
    /\ stage \in Stages
    /\ strikes \in Nat
    /\ pings \in Nat
    /\ seen \in [Pings -> Nat]

HInit ==
    /\ stage = 0
    /\ strikes = 0
    /\ pings = 0
    /\ seen = [p \in Pings |-> 0]

\* check(): a halted monitor returns before it pings.
Check(ping) ==
    /\ stage < 2
    /\ pings < MaxPings
    /\ pings' = pings + 1
    /\ seen' = [seen EXCEPT ![ping] = @ + 1]
    /\ strikes' = Charged(strikes, ping)
    /\ stage' = Escalated(stage, strikes')

HNext == \E ping \in Pings : Check(ping)

HSpec == HInit /\ [][HNext]_hvars
-----------------------------------------------------------------------------
\* The weight of all the failures seen so far.
Load == 2 * seen["down"] + seen["slow"]

\* A monitor that is not yet halted has fewer than four strikes, one at full
\* depth fewer than two, and a halted one stopped at the fourth or fifth: the
\* thresholds are crossed once each and no decay hides a crossing.
StageMatchesStrikes ==
    /\ stage = 0 => strikes < 2
    /\ stage = 1 => strikes < 4
    /\ stage = 2 => strikes \in 4..5

\* No false alarm: reduced depth and halt each need their weight of failures,
\* counted over the whole scan (recovery can only delay them).
StressHasCause ==
    /\ stage = 1 => Load >= 2
    /\ stage = 2 => Load >= 4

\* No missed alarm: whatever the order of the answers, a target whose
\* failures outweigh its healthy answers by four has been halted, and one
\* whose failures outweigh them by two is no longer scanned at full depth.
StressIsNoticed ==
    /\ Load >= seen["ok"] + 4 => stage = 2
    /\ Load >= seen["ok"] + 2 => stage > 0

\* Neither false nor missed: the stage fits the history of the answers.
AlarmFitsHistory == StressHasCause /\ StressIsNoticed

\* Every call that pinged is accounted for, one strike weight each: strikes
\* lie between what the failures charge and what recovery could take back.
StrikesAccountForPings ==
    /\ pings = seen["ok"] + seen["slow"] + seen["down"]
    /\ strikes <= Load
    /\ Load <= strikes + seen["ok"]

\* The inductive invariant behind the three above.
HInv ==
    /\ HTypeOK
    /\ StageMatchesStrikes
    /\ StressHasCause
    /\ StrikesAccountForPings

\* Escalation is one way: recovery lowers the strikes, never the stage, so the
\* injection depth of a scan (whatever the policy's base level) never goes up.
NeverDeeperAgain ==
    [][ /\ stage' >= stage
        /\ \A base \in 1..5 : Level(stage', base) <= Level(stage, base) ]_hvars
=============================================================================
