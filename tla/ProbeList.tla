----------------------------- MODULE ProbeList -----------------------------
(***************************************************************************)
(* What probe_targets promises its caller: the list a single thread would  *)
(* build by probing the targets one by one.                                *)
(***************************************************************************)
EXTENDS Naturals, Sequences

CONSTANTS TargetSeq,        \* the targets, in the caller's order
          Program           \* the checks of a target, in order

VARIABLES probed,           \* how many targets have reported
          report            \* the findings so far

(* One probing of t: at most one finding per check, in program order.      *)
OfOneProbing(t, fs) ==
    /\ \A i \in DOMAIN fs : fs[i].target = t
    /\ \A i, j \in DOMAIN fs : i < j =>
         \E m, n \in DOMAIN Program[t] :
            m < n /\ Program[t][m] = fs[i].step /\ Program[t][n] = fs[j].step

LInit == probed = 0 /\ report = <<>>

ProbeNext ==
    /\ probed < Len(TargetSeq)
    /\ probed' = probed + 1
    /\ Len(report') >= Len(report)
    /\ SubSeq(report', 1, Len(report)) = report
    /\ \A i \in Len(report) + 1 .. Len(report') :
          report'[i].step.check # "csrf"
    /\ OfOneProbing(TargetSeq[probed + 1],
                    SubSeq(report', Len(report) + 1, Len(report')))

(* What concerns the whole list is said at its end.                        *)
Conclude ==
    /\ probed = Len(TargetSeq)
    /\ UNCHANGED probed
    /\ Len(report') > Len(report)
    /\ SubSeq(report', 1, Len(report)) = report
    /\ \A i \in Len(report) + 1 .. Len(report') :
          report'[i].step.check = "csrf"
    /\ \A i \in DOMAIN report : report[i].step.check # "csrf"

LSpec == LInit /\ [][ProbeNext \/ Conclude]_<<probed, report>>
=============================================================================
