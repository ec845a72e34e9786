----------------------------- MODULE StallWatch -----------------------------
(***************************************************************************)
(* The stall watchdog around ZAP, _run_stalled (d4st/engagement.py): a      *)
(* reader thread notes when the process last wrote a line, the main thread *)
(* wakes every 15 seconds, asks whether the process burned CPU meanwhile,  *)
(* and kills it when neither output nor CPU was seen for the stall window, *)
(* or when the absolute ceiling is passed.  When the reader is done the    *)
(* process is given half a minute to end, and killed if it has not.        *)
(*                                                                         *)
(* Time is counted in polls: what happens between two polls happens at the *)
(* time of the first.                                                      *)
(***************************************************************************)
EXTENDS Integers

CONSTANTS
    Stall,         \* stall_secs, in polls
    Ceiling,       \* ceiling_secs, in polls
    Grace,         \* the last wait for the process, in polls (30 s: two)
    Blind,         \* may the CPU probe fail while the process runs?
    Leavers,       \* may children of the process end while it runs?
    Container      \* is a docker container watched, rather than a process tree?

ASSUME WatchAssumption ==
    /\ Stall \in Nat \ {0} /\ Ceiling \in Nat /\ Grace \in Nat
    /\ Blind \in BOOLEAN /\ Leavers \in BOOLEAN /\ Container \in BOOLEAN

VARIABLES
    now,
    lastOut, lastWork,   \* the cells the reader and the poll write
    process,             \* it runs, has ended, or was killed
    open,                \* the reader thread is still reading its output
    burned,              \* CPU of the tree since the last poll: none, up to a second, more
    left,                \* a child ended since the last poll, taking its CPU with it
    verdict,             \* what _run_stalled returns, or "running"
    waited,              \* how long the last wait has lasted
    busyAt, burnAt       \* history: the last poll period in which the process burned more
                         \* than a second, no child of it ending; in which it burned any CPU

wvars == <<now, lastOut, lastWork, process, open, burned, left, verdict, waited,
           busyAt, burnAt>>

WInit ==
    /\ now = 0
    /\ lastOut = 0 /\ lastWork = 0
    /\ process = "runs"
    /\ open = TRUE
    /\ burned = "none"
    /\ left = FALSE
    /\ verdict = "running"
    /\ waited = 0
    /\ busyAt = 0 /\ burnAt = 0
-----------------------------------------------------------------------------
\* The process writes a line and the reader thread notes the time.
Emit ==
    /\ open
    /\ lastOut' = now
    /\ UNCHANGED <<now, lastWork, process, open, burned, left, verdict, waited, busyAt, burnAt>>

\* The process, or a descendant, burns CPU.
Burn(amount) ==
    /\ process = "runs"
    /\ burned # "more"
    /\ burned' = amount
    /\ burnAt' = now
    /\ UNCHANGED <<now, lastOut, lastWork, process, open, left, verdict, waited, busyAt>>

\* A descendant ends and drops out of the sum.
ChildLeaves ==
    /\ Leavers
    /\ process = "runs"
    /\ left' = TRUE
    /\ UNCHANGED <<now, lastOut, lastWork, process, open, burned, verdict, waited, busyAt, burnAt>>

\* The process ends, and its output with it: the reader sets `done`.
Exit ==
    /\ process = "runs"
    /\ process' = "ended"
    /\ open' = FALSE
    /\ UNCHANGED <<now, lastOut, lastWork, burned, left, verdict, waited, busyAt, burnAt>>

\* The reader sets `done` though the process runs on: it closed its output, or
\* wrote a line that does not decode.
ReaderEnds ==
    /\ open
    /\ open' = FALSE
    /\ UNCHANGED <<now, lastOut, lastWork, process, burned, left, verdict, waited, busyAt, burnAt>>

\* The answers _did_work() may give.  A process tree worked when its CPU
\* seconds advanced by more than one; a container worked when it is over 2% at
\* the moment it is asked.  Either probe may fail.
DidWork ==
    (IF Blind THEN {"unknown"} ELSE {}) \union
    (IF Container
     THEN {"no"} \union (IF burned # "none" THEN {"yes"} ELSE {})
     ELSE {IF burned = "more" THEN "yes" ELSE "no"} \union (IF left THEN {"no"} ELSE {}))

\* Wrong variants, kept for mutation: silence alone taken for a stall; a
\* window twice as long, one for each signal.
StuckWhenSilent(out, work, time) == time - out > Stall
StuckLate(out, work, time) == (time - out) + (time - work) > 4 * Stall

\* Stuck: neither output nor CPU for the whole window.
Stuck(out, work, time) == time - out > Stall /\ time - work > Stall

\* The absolute backstop.
Over(time) == time > Ceiling

\* The work clock after an answer: reset by work, set back to the last output
\* when the CPU cannot be asked.
Worked(answer, time) ==
    CASE answer = "yes" -> time
      [] answer = "unknown" -> lastOut
      [] OTHER -> lastWork

\* One turn of the watch loop.
Poll ==
    /\ verdict = "running"
    /\ open
    /\ now' = now + 1
    /\ \E answer \in DidWork : lastWork' = Worked(answer, now')
    /\ verdict' = IF Stuck(lastOut, lastWork', now') THEN "stuck"
                  ELSE IF Over(now') THEN "ceiling" ELSE "running"
    /\ IF verdict' = "running" THEN UNCHANGED <<process, open>>
                                ELSE process' = "killed" /\ open' = FALSE
    /\ busyAt' = IF burned = "more" /\ ~left THEN now' ELSE busyAt
    /\ burned' = "none"
    /\ left' = FALSE
    /\ UNCHANGED <<lastOut, waited, burnAt>>

\* The loop's condition: `done` ends it before the next poll.
Complete ==
    /\ verdict = "running"
    /\ ~open
    /\ verdict' = "completed"
    /\ UNCHANGED <<now, lastOut, lastWork, process, open, burned, left, waited, busyAt, burnAt>>

\* proc.wait(timeout=30) on a process that runs on, and the kill that ends it.
Wait ==
    /\ verdict = "completed" /\ process = "runs"
    /\ waited < Grace
    /\ waited' = waited + 1
    /\ now' = now + 1
    /\ burned' = "none"
    /\ UNCHANGED <<lastOut, lastWork, process, open, left, verdict, busyAt, burnAt>>

KillAfterwards ==
    /\ verdict = "completed" /\ process = "runs"
    /\ waited = Grace
    /\ process' = "killed"
    /\ UNCHANGED <<now, lastOut, lastWork, open, burned, left, verdict, waited, busyAt, burnAt>>

WNext ==
    \/ Emit \/ ChildLeaves \/ Exit \/ ReaderEnds \/ Poll \/ Complete
    \/ Wait \/ KillAfterwards
    \/ \E amount \in {"some", "more"} : Burn(amount)

WSpec == WInit /\ [][WNext]_wvars
-----------------------------------------------------------------------------
WTypeOK ==
    /\ waited \in 0..Grace
    /\ now \in 0..(Ceiling + 1 + waited)
    /\ lastOut \in 0..now /\ lastWork \in 0..now
    /\ process \in {"runs", "ended", "killed"}
    /\ open \in BOOLEAN /\ left \in BOOLEAN
    /\ burned \in {"none", "some", "more"}
    /\ verdict \in {"running", "stuck", "ceiling", "completed"}
    /\ busyAt \in 0..now /\ burnAt \in 0..now

\* A process that kept computing within the window, none of its children
\* ending, is never dropped as stuck.  Holds only of a probe that never fails.
BusyIsSpared == verdict = "stuck" => now - busyAt > Stall

\* The window is not stretched: a process that neither wrote a line nor burned
\* any CPU during the window and the poll before it is no longer waited for.
HungIsNoticed ==
    verdict = "running" => now - lastOut <= Stall \/ now - burnAt <= Stall + 1

\* "a scan that is quietly grinding (burning CPU with little output) is NEVER
\* killed for being slow; only a deadlocked/idle process is".
GrindingIsSpared == verdict = "stuck" => now - burnAt > Stall

\* "kill it ONLY when it is genuinely hung ... or when it passes the absolute
\* ceiling_secs backstop".
KilledOnlyWhenHung == process = "killed" => verdict = "ceiling" \/ now - lastOut > Stall
=============================================================================
