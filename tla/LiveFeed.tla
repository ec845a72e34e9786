------------------------------ MODULE LiveFeed ------------------------------
(***************************************************************************)
(* The live progress of scans: each scan's _Progress (d4st/engagement.py)  *)
(* rewrites a record in a shared directory after every stage, the console  *)
(* (d4st/server.py) lists the records next to the scans already stored, and *)
(* the CLI stores a scan when it has ended.  Scans are processes of their  *)
(* own, on one host or in containers that share the directory; any of them *)
(* may be killed at any moment.                                            *)
(*                                                                         *)
(* Age is counted in units of which Fresh make the console's 300 seconds.  *)
(***************************************************************************)
EXTENDS Integers

CONSTANTS
    Scans,
    Pids, Pid,     \* the process id of each scan, as its own system counts them
    Absent,        \* no such file
    Fresh,         \* _fresh: the age from which a record is hidden
    MaxSteps       \* bound on the stages of a scan

Records == [by : Scans, step : 0..MaxSteps, status : {"in-progress", "complete"},
            whole : BOOLEAN]

ASSUME FeedAssumption ==
    /\ Pid \in [Scans -> Pids]
    /\ Absent \notin Records
    /\ Fresh \in Nat \ {0} /\ MaxSteps \in Nat

VARIABLES
    at,            \* where each scan stands
    step,          \* _Progress.step
    tmp, file,     \* the .tmp and .json of each id
    age,           \* of each .json: the time since updated_at
    stored,        \* the scans in the database
    written        \* history: the step of the last record the scan has put in place

lvars == <<at, step, tmp, file, age, stored, written>>

\* Wrong variant, kept for mutation: _record's first two arguments swapped.
FinalRecordSwapped(s) == [by |-> s, step |-> step[s], status |-> "done", whole |-> TRUE]

\* The records of an update, of the summary, and of a write not finished.
Record(s) == [by |-> s, step |-> step[s], status |-> "in-progress", whole |-> TRUE]
FinalRecord(s) == [by |-> s, step |-> step[s], status |-> "complete", whole |-> TRUE]
Torn(s) == [by |-> s, step |-> step[s], status |-> "in-progress", whole |-> FALSE]

LInit ==
    /\ at = [s \in Scans |-> "engine"]
    /\ step = [s \in Scans |-> 0]
    /\ tmp = [p \in Pids |-> Absent]
    /\ file = [p \in Pids |-> Absent]
    /\ age = [p \in Pids |-> 0]
    /\ stored = {}
    /\ written = [s \in Scans |-> 0]
-----------------------------------------------------------------------------
\* Wrong variant, kept for mutation: the record opened in place.
OpenInPlace(s) ==
    /\ file' = [file EXCEPT ![Pid[s]] = Torn(s)]
    /\ tmp' = [tmp EXCEPT ![Pid[s]] = Torn(s)]

\* open(tmp, "w") truncates whatever is there.
OpenTmp(s) ==
    /\ tmp' = [tmp EXCEPT ![Pid[s]] = Torn(s)]
    /\ UNCHANGED file

\* update(), after a stage: the step is counted and the file opened.
BeginUpdate(s) ==
    /\ at[s] = "engine"
    /\ step[s] < MaxSteps
    /\ step' = [step EXCEPT ![s] = @ + 1]
    /\ at' = [at EXCEPT ![s] = "dumping"]
    /\ OpenTmp(s)
    /\ UNCHANGED <<age, stored, written>>

\* summary(): the last record, under the same step.
BeginSummary(s) ==
    /\ at[s] = "engine"
    /\ step[s] > 0
    /\ at' = [at EXCEPT ![s] = "closing"]
    /\ OpenTmp(s)
    /\ UNCHANGED <<step, age, stored, written>>

\* json.dump, into the file that was opened: if another scan of the same id
\* has moved it meanwhile, that is the console's record by now.
Dump(s) ==
    /\ at[s] \in {"dumping", "closing"}
    /\ LET rec == IF at[s] = "closing" THEN FinalRecord(s) ELSE Record(s)
       IN  IF tmp[Pid[s]] # Absent
           THEN tmp' = [tmp EXCEPT ![Pid[s]] = rec] /\ UNCHANGED file
           ELSE file' = [file EXCEPT ![Pid[s]] = rec] /\ UNCHANGED tmp
    /\ at' = [at EXCEPT ![s] = IF @ = "closing" THEN "ending" ELSE "replacing"]
    /\ UNCHANGED <<step, age, stored, written>>

\* os.replace; without a .tmp it fails, and the failure is swallowed.
Replace(s) ==
    /\ at[s] \in {"replacing", "ending"}
    /\ IF tmp[Pid[s]] # Absent
       THEN /\ file' = [file EXCEPT ![Pid[s]] = tmp[Pid[s]]]
            /\ tmp' = [tmp EXCEPT ![Pid[s]] = Absent]
            /\ age' = [age EXCEPT ![Pid[s]] = 0]
            /\ written' = [written EXCEPT ![s] = step[s]]
       ELSE UNCHANGED <<file, tmp, age, written>>
    /\ at' = [at EXCEPT ![s] = IF @ = "ending" THEN "ended" ELSE "engine"]
    /\ UNCHANGED <<step, stored>>

\* The CLI stores the result, under an id made of the report's name.
Ingest(s) ==
    /\ at[s] = "ended"
    /\ at' = [at EXCEPT ![s] = "over"]
    /\ stored' = stored \union {s}
    /\ UNCHANGED <<step, tmp, file, age, written>>

\* The process is killed; what it has put in place stays there.
Kill(s) ==
    /\ at[s] \notin {"over", "killed"}
    /\ at' = [at EXCEPT ![s] = "killed"]
    /\ UNCHANGED <<step, tmp, file, age, stored, written>>

\* Time passes.
Tick ==
    /\ age' = [p \in Pids |-> IF file[p] = Absent \/ age[p] = Fresh THEN age[p] ELSE age[p] + 1]
    /\ UNCHANGED <<at, step, tmp, file, stored, written>>

\* Wrong variant, kept for mutation: the age of a record not looked at.
LiveForEver == {file[p] : p \in {q \in Pids : file[q] # Absent /\ file[q].whole}}

\* The records the console lists as live: those it can parse, fresh, and
\* under an id that no stored scan has (stored ids are of another form).
Live == {file[p] : p \in {q \in Pids : /\ file[q] # Absent /\ file[q].whole
                                       /\ age[q] < Fresh}}

LNext ==
    \/ \E s \in Scans : \/ BeginUpdate(s) \/ BeginSummary(s) \/ Dump(s) \/ Replace(s)
                        \/ Ingest(s) \/ Kill(s)
    \/ Tick

LSpec == LInit /\ [][LNext]_lvars

\* Time passes; nothing is assumed of the scans.
LFairSpec == LSpec /\ WF_lvars(Tick)
-----------------------------------------------------------------------------
Running(s) == at[s] \in {"engine", "dumping", "replacing", "closing", "ending"}

LTypeOK ==
    /\ at \in [Scans -> {"engine", "dumping", "replacing", "closing", "ending", "ended",
                         "over", "killed"}]
    /\ step \in [Scans -> 0..MaxSteps] /\ written \in [Scans -> 0..MaxSteps]
    /\ tmp \in [Pids -> Records \union {Absent}]
    /\ file \in [Pids -> Records \union {Absent}]
    /\ age \in [Pids -> 0..Fresh]
    /\ stored \subseteq Scans

\* "atomically rewrites a JSON checkpoint so a killed/crashed/hung scan still
\* leaves an observable record": whatever a scan was doing when it was killed,
\* the record the console reads is whole, its own, and its latest.
RecordIsLatest ==
    \A s \in Scans : written[s] > 0 =>
        /\ file[Pid[s]] # Absent
        /\ file[Pid[s]].whole
        /\ file[Pid[s]].by = s /\ file[Pid[s]].step = written[s]

\* The console does not keep ghosts: a scan that was killed, or is over, leaves
\* the live list for good.
GhostsFade ==
    \A s \in Scans : at[s] \in {"over", "killed"} ~> [](\A r \in Live : r.by # s)

\* "prepend any live/just-finished scan not yet in the DB, so a running scan is
\* visible NOW" (server.py): a scan whose first record is out stays listed as
\* long as it runs.
RunningIsVisible ==
    \A s \in Scans : Running(s) /\ written[s] > 0 => \E r \in Live : r.by = s

\* "... not yet in the DB": a stored scan is not listed as live as well.
ListedOnce == \A s \in stored : ~ \E r \in Live : r.by = s
=============================================================================
