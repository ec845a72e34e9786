----------------------------- MODULE ProbePool -----------------------------
(***************************************************************************)
(* probe_targets (engagement.py): a pool of threads replays every class of *)
(* attack on every parameter.  The evidence buffer and the injection shape *)
(* are global names made safe by being thread-local; the caller collects   *)
(* the workers' results in the order of the targets, not of completion.    *)
(***************************************************************************)
EXTENDS Replays, Sublists, SequencesExt, FiniteSets

CONSTANTS Workers, NoTarget,
          TargetSeq,        \* active targets, each once, in order
          Facts,            \* of a target: method, params, json, path (its
                            \* path parameters), token (anti-CSRF), shut
          RedirectParams,   \* _REDIRECT_PARAMS
          Classes,          \* per-parameter checks, in the order they run
          FuzzForms,        \* the policy allows writing
          KeptExchanges,    \* _EVID_MAX_EXCH
          GroupAt           \* _CSRF_GROUP_THRESHOLD

Targets == ToSet(TargetSeq)

ASSUME PoolAssumption ==
    /\ TargetSeq \in Seq(Targets) /\ NoTarget \notin Targets
    /\ KeptExchanges \in Nat \ {0} /\ GroupAt \in Nat \ {0}
    /\ IsInjective(TargetSeq)

VARIABLES taken,      \* targets handed to the pool's threads so far
          job,        \* the target of each worker
          pc,         \* the step of its program it is at
          at,         \* the payload it sends next; 0 before the check began
          told,       \* the payloads of this check that told
          buf,        \* _EVID.buf
          ctx,        \* the target _INJ.ctx describes
          found,      \* what each target's probing has found
          finished,   \* targets whose probing returned
          gathered,   \* results collected by the caller
          out, csrfs  \* its findings, and the CSRF hits it holds back

pvars == <<taken, job, pc, at, told, buf, ctx, found, finished, gathered,
           out, csrfs>>

-----------------------------------------------------------------------------
Check ==
    [csrf |-> VerifyCsrf(FuzzForms), dom |-> VerifyDomXss,
     cmdi |-> VerifyCmdi, xss |-> VerifyReflectedXss, sqli |-> VerifySqli,
     lfi |-> VerifyLfi, redirect |-> VerifyOpenRedirect,
     stored |-> VerifyStoredXss]

(* The steps of a target: two page-level checks, the injection shape, then *)
(* each parameter's checks.                                                *)
ParamSteps(t, p) ==
    LET Applies(c) ==
            /\ c = "redirect" => p \in RedirectParams
            /\ c = "stored" => Facts[t].method = "POST" /\ FuzzForms
        own == SelectSeq(Append(Classes, "stored"), Applies)
    IN  [i \in DOMAIN own |-> [check |-> own[i], param |-> p]]

ParamProgram(t) ==
    FlattenSeq([i \in DOMAIN Facts[t].params |->
                    ParamSteps(t, Facts[t].params[i])])

(* CSRF is asked of what writes and carries no token.                      *)
Program == [t \in Targets |->
    (IF Facts[t].method = "GET" \/ Facts[t].token THEN <<>>
     ELSE <<[check |-> "csrf", param |-> "none"]>>)
    \o <<[check |-> "dom", param |-> "none"],
         [check |-> "shape", param |-> "none"]>>
    \o ParamProgram(t)]

Params == UNION {ToSet(Facts[t].params) : t \in Targets}
Steps == [check : DOMAIN Check \union {"shape"}, param : Params \union {"none"}]

(* The type of a definition the prover cannot unfold; TLC evaluates it.    *)
ASSUME ProgramAssumption == \A t \in Targets : ParamProgram(t) \in Seq(Steps)

(* Wrong variant: plain globals, one slot for all threads.                 *)
SlotShared(w) == CHOOSE v \in Workers : TRUE

(* Both thread-local names resolve to the running thread's own slot.       *)
Slot(w) == w

(* The way _req delivers a payload, read off the target whose shape is in  *)
(* the slot.                                                               *)
Route(t, method, p) ==
    IF t = NoTarget THEN "classic"
    ELSE IF p \in Facts[t].path THEN "path"
    ELSE IF Facts[t].json /\ method = "POST" THEN "json"
    ELSE "classic"

Step(w) == Program[job[w]][pc[w]]
Script_(w) == Check[Step(w).check]

PInit ==
    /\ taken = 0 /\ gathered = 0
    /\ job = [w \in Workers |-> NoTarget]
    /\ pc = [w \in Workers |-> 1]
    /\ at = [w \in Workers |-> 0]
    /\ told = [w \in Workers |-> {}]
    /\ buf = [w \in Workers |-> <<>>]
    /\ ctx = [w \in Workers |-> NoTarget]
    /\ found = [t \in Targets |-> <<>>]
    /\ finished = {}
    /\ out = <<>> /\ csrfs = <<>>

-----------------------------------------------------------------------------
(* An idle thread takes the next target; a login form is not touched.      *)
Take(w) ==
    /\ job[w] = NoTarget /\ taken < Len(TargetSeq)
    /\ taken' = taken + 1
    /\ LET t == TargetSeq[taken + 1]
       IN  IF Facts[t].shut
           THEN finished' = finished \union {t} /\ UNCHANGED <<job, pc>>
           ELSE /\ job' = [job EXCEPT ![w] = t]
                /\ pc' = [pc EXCEPT ![w] = 1]
                /\ UNCHANGED finished
    /\ UNCHANGED <<at, told, buf, ctx, found, gathered, out, csrfs>>

AtStep(w) == job[w] # NoTarget /\ pc[w] <= Len(Program[job[w]])

(* _set_inject_ctx: the shape of this target replaces that of the last one *)
(* the thread probed.                                                      *)
SetShape(w) ==
    /\ AtStep(w) /\ Step(w).check = "shape"
    /\ ctx' = [ctx EXCEPT ![Slot(w)] = job[w]]
    /\ pc' = [pc EXCEPT ![w] = @ + 1]
    /\ UNCHANGED <<taken, job, at, told, buf, found, finished, gathered, out,
                   csrfs>>

(* _evid_start before a check.                                             *)
Begin(w) ==
    /\ AtStep(w) /\ Step(w).check # "shape" /\ at[w] = 0
    /\ at' = [at EXCEPT ![w] = 1]
    /\ told' = [told EXCEPT ![w] = {}]
    /\ buf' = [buf EXCEPT ![Slot(w)] = <<>>]
    /\ UNCHANGED <<taken, job, pc, ctx, found, finished, gathered, out, csrfs>>

(* Wrong variant: the first exchanges are kept, not the latest.            *)
RecordedFirst(b, x) ==
    IF Len(b) < KeptExchanges THEN Append(b, x) ELSE b

(* The exchange _rec stores, and the buffer with it: the latest are kept.  *)
Exchange(w, ans) ==
    [target |-> job[w], step |-> Step(w), tells |-> ans = "tell",
     via |-> IF Script_(w).shaped
             THEN Route(ctx[Slot(w)], Facts[job[w]].method, Step(w).param)
             ELSE "classic"]

Recorded(b, x) ==
    LET all == Append(b, x)
    IN  SubSeq(all, IF Len(all) > KeptExchanges
                    THEN Len(all) - KeptExchanges + 1 ELSE 1, Len(all))

BufferAfter(w, ans) ==
    IF Script_(w).recorded /\ ans # "error"
    THEN Recorded(buf[Slot(w)], Exchange(w, ans)) ELSE buf[Slot(w)]

(* _evid_take and _emit: the check's exchanges become the finding's proof. *)
Close(w, verdict, evid) ==
    /\ found' = IF verdict # "yes" THEN found
                ELSE [found EXCEPT ![job[w]] =
                        Append(@, [target |-> job[w], step |-> Step(w),
                                   evid |-> evid])]
    /\ buf' = [buf EXCEPT ![Slot(w)] = <<>>]
    /\ pc' = [pc EXCEPT ![w] = @ + 1]
    /\ at' = [at EXCEPT ![w] = 0]
    /\ told' = [told EXCEPT ![w] = {}]

(* One request of a check, its answer or its failure.                      *)
Send(w, ans) ==
    /\ AtStep(w) /\ at[w] > 0
    /\ LET c == Script_(w)
           known == Told(c, told[w], c.sends[at[w]], ans)
           verdict == Verdict(c, known, at[w], ans)
       IN  IF verdict = "open"
           THEN /\ at' = [at EXCEPT ![w] = @ + 1]
                /\ told' = [told EXCEPT ![w] = known]
                /\ buf' = [buf EXCEPT ![Slot(w)] = BufferAfter(w, ans)]
                /\ UNCHANGED <<pc, found>>
           ELSE Close(w, verdict, BufferAfter(w, ans))
    /\ UNCHANGED <<taken, job, ctx, finished, gathered, out, csrfs>>

(* Wrong variant: the exception ends the thread's job without a result.    *)
RaiseEscapes(w) ==
    /\ AtStep(w) /\ at[w] > 0
    /\ job' = [job EXCEPT ![w] = NoTarget]
    /\ at' = [at EXCEPT ![w] = 0]
    /\ UNCHANGED <<taken, pc, told, buf, ctx, found, finished, gathered, out,
                   csrfs>>

(* A check that raises is given up, and its exchanges with it.             *)
Raise(w) ==
    /\ AtStep(w) /\ at[w] > 0
    /\ Close(w, "no", <<>>)
    /\ UNCHANGED <<taken, job, ctx, finished, gathered, out, csrfs>>

Return(w) ==
    /\ job[w] # NoTarget /\ pc[w] > Len(Program[job[w]])
    /\ finished' = finished \union {job[w]}
    /\ job' = [job EXCEPT ![w] = NoTarget]
    /\ UNCHANGED <<taken, pc, at, told, buf, ctx, found, gathered, out, csrfs>>

(* CSRF hits wait for those of the other targets.                          *)
HeldBack(f) == f.step.check = "csrf"
TakenAtOnce(f) == ~HeldBack(f)

(* Wrong variant: results are taken as they complete.                      *)
GatherEarliest ==
    /\ gathered < Len(TargetSeq)
    /\ \E t \in finished :
         /\ out' = out \o Where(found[t], TakenAtOnce)
         /\ csrfs' = csrfs \o Where(found[t], HeldBack)
    /\ gathered' = gathered + 1
    /\ UNCHANGED <<taken, job, pc, at, told, buf, ctx, found, finished>>

(* ex.map yields the next result in the order of submission, however late  *)
(* it is.                                                                  *)
Gather ==
    /\ gathered < Len(TargetSeq)
    /\ TargetSeq[gathered + 1] \in finished
    /\ LET fs == found[TargetSeq[gathered + 1]]
       IN  /\ out' = out \o Where(fs, TakenAtOnce)
           /\ csrfs' = csrfs \o Where(fs, HeldBack)
    /\ gathered' = gathered + 1
    /\ UNCHANGED <<taken, job, pc, at, told, buf, ctx, found, finished>>

(* Above the threshold the CSRF hits become one systemic finding, with the *)
(* first hit's place and proof; below it each is its own.                  *)
CsrfFindings ==
    IF Len(csrfs) >= GroupAt THEN <<csrfs[1]>> ELSE csrfs

Collapse ==
    /\ gathered = Len(TargetSeq) /\ csrfs # <<>>
    /\ out' = out \o CsrfFindings
    /\ csrfs' = <<>>
    /\ UNCHANGED <<taken, job, pc, at, told, buf, ctx, found, finished,
                   gathered>>

Work(w) ==
    \/ Take(w) \/ SetShape(w) \/ Begin(w)
    \/ \E ans \in Answers : Send(w, ans)
    \/ Raise(w) \/ Return(w)

PNext == (\E w \in Workers : Work(w)) \/ Gather \/ Collapse

(* Every request has a timeout, so a thread that can go on does; so does   *)
(* the caller.                                                             *)
PSpec == PInit /\ [][PNext]_pvars
         /\ \A w \in Workers : WF_pvars(Work(w))
         /\ WF_pvars(Gather \/ Collapse)

-----------------------------------------------------------------------------
TypeOK ==
    /\ taken \in 0 .. Len(TargetSeq) /\ gathered \in 0 .. Len(TargetSeq)
    /\ job \in [Workers -> Targets \union {NoTarget}]
    /\ at \in [Workers -> 0 .. 7]
    /\ ctx \in [Workers -> Targets \union {NoTarget}]
    /\ finished \subseteq Targets

All == UNION {ToSet(found[t]) : t \in Targets}

(* Whatever the interleaving, and whichever target a thread probed before, *)
(* the proof of a finding holds only exchanges of its own check on its own *)
(* target, delivered in that target's shape.                               *)
ProofIsOwn ==
    \A f \in All : \A x \in ToSet(f.evid) :
        /\ x.target = f.target /\ x.step = f.step
        /\ Check[f.step.check].shaped =>
             x.via = Route(f.target, Facts[f.target].method, f.step.param)

(* A recorded check ships the exchange that proves it, as the last one it  *)
(* shows; only the check that tries on for a better proof, reflected XSS,  *)
(* may show more tries behind it.                                          *)
ToldByItsProof ==
    \A f \in All : Check[f.step.check].recorded =>
        /\ \E x \in ToSet(f.evid) : x.tells
        /\ Check[f.step.check].late = {} => f.evid[Len(f.evid)].tells

(* The pool's result is that of probing one target after the other.        *)
List == INSTANCE ProbeList WITH probed <- gathered, report <- out
OneByOne == List!LSpec

(* No interleaving of the threads keeps the result from its caller.        *)
Drained == <>(gathered = Len(TargetSeq) /\ csrfs = <<>>)
=============================================================================
