-------------------------------- MODULE Engine --------------------------------
(***************************************************************************)
(* The pipeline engine (internal/pipeline/engine.go) with the state store  *)
(* it checkpoints to (internal/pipeline/state.go): `init` and `resume`     *)
(* commands, each an operating-system process that executes the sorted     *)
(* steps of one run, over one DynamoDB table that outlives them all.       *)
(*                                                                         *)
(* One action is one call that another process, a crash or a signal can    *)
(* come between: a Set on the store, a List, a credential resolution, an   *)
(* IsDone, an attempt of Run, a back-off.  The code between two calls is   *)
(* local to the process and is part of the action of the first.            *)
(***************************************************************************)
EXTENDS Integers, Sequences

CONSTANTS Steps,          \* the steps registered in the pipeline
          Deps,           \* Deps[s]: the steps s declares as dependencies
          Order,          \* what DAG.TopoSort returns, a sequence of Steps
          RetryLimit,     \* RetryLimit[s]: RetryPolicy().MaxAttempts of s
          Keys,           \* the step outputs
          Owner,          \* Owner[k]: the step that sets output k
          Runs,           \* the run identifiers
          Procs,          \* the processes that may exist at a time
          DryRunFlags,    \* the values of --dry-run the operators use
          StoreMayFail,   \* may a call to the store fail with a live context?
          Pages,          \* the steps whose records a List may see
          NoRun           \* "no run"; not a run identifier

ASSUME StepsAssumption == /\ Deps \in [Steps -> SUBSET Steps]
                          /\ RetryLimit \in [Steps -> Nat]
                          /\ Owner \in [Keys -> Steps]

\* What DAG.TopoSort guarantees (module DAG): every step exactly once, after
\* the steps it depends on.
ASSUME OrderAssumption ==
    /\ Order \in Seq(Steps)
    /\ Order # <<>>
    /\ \A s \in Steps : \E i \in 1..Len(Order) : Order[i] = s
    /\ \A i, j \in 1..Len(Order) : Order[i] = Order[j] => i = j
    /\ \A i \in 1..Len(Order) :
          \A d \in Deps[Order[i]] : \E j \in 1..(i - 1) : Order[j] = d

ASSUME RunAssumption == /\ NoRun \notin Runs
                        /\ DryRunFlags \subseteq BOOLEAN
                        /\ StoreMayFail \in BOOLEAN
                        /\ Pages \subseteq SUBSET Steps

VARIABLES eng,      \* eng[p]: the engine in process p
          db,       \* the DynamoDB table: step states, run metas, outputs
          effect,   \* the steps whose effect exists in the world
          started   \* the run identifiers already used

vars == <<eng, db, effect, started>>

-------------------------------------------------------------------------------
(* Types *)

Status == {"none", "running", "succeeded", "failed", "skipped"}
Done   == {"succeeded", "skipped"}

PC == {"idle", "init_meta", "init_last", "load", "reset", "step",
       "resolve_failed", "isdone", "save_skipped", "save_running", "run",
       "wait", "save_ran", "outputs", "save_succeeded", "save_failed",
       "fail_meta", "fail_last", "finish_meta", "finish_last"}

Engines == [pc       : PC,
            run      : Runs \cup {NoRun},
            dry      : BOOLEAN,
            existing : [Steps -> Status],           \* states a resume loaded
            idx      : 1..(Len(Order) + 1),         \* position in the order
            attempt  : Nat,
            outcome  : {"ok", "error", "cancelled"},\* of runWithRetry
            todo     : SUBSET (Steps \cup Keys),    \* rest of a map iteration
            ctxDone  : BOOLEAN]                     \* the context is cancelled

Tables == [step : [Runs -> [Steps -> Status]],
           meta : [Runs -> {"none", "running", "succeeded", "failed"}],
           last : Runs \cup {NoRun},                \* last_run_id
           out  : [Keys -> Runs \cup {NoRun}]]      \* the run that wrote it

\* Every variable is of its type.
TypeOK == /\ eng \in [Procs -> Engines]
          /\ db \in Tables
          /\ effect \subseteq Steps
          /\ started \subseteq Runs

-------------------------------------------------------------------------------
(* The parts of a process *)

Nothing == [s \in Steps |-> "none"]

\* A process that is not there.
Idle == [pc |-> "idle", run |-> NoRun, dry |-> FALSE, existing |-> Nothing,
         idx |-> 1, attempt |-> 0, outcome |-> "ok", todo |-> {},
         ctxDone |-> FALSE]

\* A process that begins to work on a run.
Begin(pc, r, dry) == [Idle EXCEPT !.pc = pc, !.run = r, !.dry = dry]

Cur(p)  == Order[eng[p].idx]                 \* the step at hand
At(p, pc) == [eng[p] EXCEPT !.pc = pc]       \* the process moved on to pc
Outputs(s) == {k \in Keys : Owner[k] = s}

MaxAttempts(s) == IF RetryLimit[s] < 1 THEN 1 ELSE RetryLimit[s]

\* The loop of execute goes on to the next step, or leaves it.
NextStep(p) ==
    [eng[p] EXCEPT !.pc = IF eng[p].idx < Len(Order) THEN "step"
                                                     ELSE "finish_meta",
                   !.idx = @ + 1, !.attempt = 0, !.todo = {}]

\* The process moves from pc "from" without touching the store or the world.
Local(p, from, next) == /\ eng[p].pc = from
                        /\ eng' = [eng EXCEPT ![p] = next]
                        /\ UNCHANGED <<db, effect, started>>

-------------------------------------------------------------------------------
(* The store (configctl.Client.Set) *)

\* What a Set may answer.  "ok": stored.  "refused": an error, and nothing was
\* stored, which is the only answer on a cancelled context.  "lost": an error,
\* though the item was stored.  "cut": the same, because the signal that cancels
\* the context arrives while the call is under way.
Answers(p) == IF eng[p].ctxDone THEN {"refused"}
              ELSE {"ok", "cut"} \cup IF StoreMayFail THEN {"refused", "lost"}
                                                     ELSE {}

\* Process p, at pc "from", has the store replace its content by "new", is
\* answered a, and goes on as "next".
Set(p, from, new, a, next) ==
    /\ eng[p].pc = from
    /\ a \in Answers(p)
    /\ db' = IF a = "refused" THEN db ELSE new
    /\ eng' = [eng EXCEPT ![p] =
                 IF a = "cut" /\ next # Idle THEN [next EXCEPT !.ctxDone = TRUE]
                                             ELSE next]
    /\ UNCHANGED <<effect, started>>

StepState(p, s, st)  == [db EXCEPT !.step[eng[p].run][s] = st]
RunMeta(p, st)       == [db EXCEPT !.meta[eng[p].run] = st]
LastRunID(p)         == [db EXCEPT !.last = eng[p].run]

-------------------------------------------------------------------------------
(* Slips: actions below as a plausible mistake would write them.  Nothing uses *)
(* them; a property is worth its run if one of them breaks it.                 *)

\* Skips a step on any record, a FAILED one too.
SkipRecordedSlip(p) == /\ eng[p].pc = "step"
                       /\ eng[p].existing[Cur(p)] # "none"
                       /\ Local(p, "step", NextStep(p))

\* Trusts only SUCCEEDED records and runs SKIPPED steps again.
ResolveSlip(p) == /\ eng[p].pc = "step"
                  /\ eng[p].existing[Cur(p)] # "succeeded"
                  /\ Local(p, "step", At(p, "isdone"))

\* Goes on to the next step when credentials cannot be resolved.
SaveResolveFailureSlip(p, a) ==
    Set(p, "resolve_failed", StepState(p, Cur(p), "failed"), a, NextStep(p))

\* Ignores that RUNNING could not be recorded.
SaveRunningSlip(p, a) ==
    Set(p, "save_running", StepState(p, Cur(p), "running"), a,
        [eng[p] EXCEPT !.pc = "run", !.attempt = 1])

\* Forgets the error of the last attempt.
RunFailsSlip(p) ==
    LET again == eng[p].attempt < MaxAttempts(Cur(p))
    IN  /\ eng[p].pc = "run"
        /\ effect' \in {effect} \cup IF eng[p].dry THEN {}
                                                   ELSE {effect \cup {Cur(p)}}
        /\ eng' = [eng EXCEPT ![p].pc = IF again THEN "wait" ELSE "save_ran",
                              ![p].outcome = IF again THEN "error" ELSE "ok"]
        /\ UNCHANGED <<db, started>>

\* Does not count the attempt.
BackoffElapsesSlip(p) == Local(p, "wait", At(p, "run"))

\* Leaves the outputs that are not persisted yet behind.
OutputsPersistedSlip(p) == Local(p, "outputs", At(p, "save_succeeded"))

\* Goes on after a failed step.
SaveFailedSlip(p, a) == Set(p, "save_failed", StepState(p, Cur(p), "failed"), a,
                            NextStep(p))

\* Records the outcome of runWithRetry in place of a status.
SaveFailedTypeSlip(p, a) ==
    Set(p, "save_failed", StepState(p, Cur(p), eng[p].outcome), a,
        At(p, "fail_meta"))

\* Takes an interrupted step for a finished one.
ResetInterruptedSlip(p, s, a) ==
    /\ s \in eng[p].todo
    /\ Set(p, "reset", StepState(p, s, "failed"), a,
           [eng[p] EXCEPT !.existing[s] = "succeeded", !.todo = @ \ {s}])

\* Leaves the status of the run as it was.
SaveFinishMetaSlip(p, a) ==
    Set(p, "finish_meta", RunMeta(p, "running"), a,
        IF a = "ok" THEN At(p, "finish_last") ELSE Idle)

-------------------------------------------------------------------------------
(* Engine.Init and Engine.Resume *)

Init == /\ eng = [p \in Procs |-> Idle]
        /\ db = [step |-> [r \in Runs |-> Nothing],
                 meta |-> [r \in Runs |-> "none"],
                 last |-> NoRun,
                 out  |-> [k \in Keys |-> NoRun]]
        /\ effect = {}
        /\ started = {}

\* `init`: a run with an identifier nobody has used.
StartInit(p, r, dry) == /\ eng[p].pc = "idle"
                        /\ r \notin started
                        /\ eng' = [eng EXCEPT ![p] = Begin("init_meta", r, dry)]
                        /\ started' = started \cup {r}
                        /\ UNCHANGED <<db, effect>>

\* SaveRunMeta is two Sets, and an error of either ends the command.
SaveInitMeta(p, a) ==
    Set(p, "init_meta", RunMeta(p, "running"), a,
        IF a = "ok" THEN At(p, "init_last") ELSE Idle)

SaveInitLast(p, a) == Set(p, "init_last", LastRunID(p), a,
                          IF a = "ok" THEN At(p, "step") ELSE Idle)

\* `resume`: any identifier; nothing says whether another process is at it, or
\* whether the run exists at all.
Resume(p, r, dry) == /\ eng[p].pc = "idle"
                     /\ eng' = [eng EXCEPT ![p] = Begin("load", r, dry)]
                     /\ started' = started \cup {r}
                     /\ UNCHANGED <<db, effect>>

\* List is one Query, whose answer ends where its page does: a record beyond it
\* counts as absent.
Found(r, page) == [s \in Steps |-> IF s \in page THEN db.step[r][s] ELSE "none"]

\* The states still to be reset are those found RUNNING.
LoadStates(p) ==
    \E page \in Pages :
        LET found == Found(eng[p].run, page)
        IN  /\ ~eng[p].ctxDone
            /\ Local(p, "load",
                     [eng[p] EXCEPT !.pc = "reset", !.existing = found,
                        !.todo = {s \in Steps : found[s] = "running"}])

LoadFails(p) == /\ eng[p].ctxDone \/ StoreMayFail
                /\ Local(p, "load", Idle)

\* The loop over the loaded states, a Go map: in any order.  An error is logged.
ResetInterrupted(p, s, a) ==
    /\ s \in eng[p].todo
    /\ Set(p, "reset", StepState(p, s, "failed"), a,
           [eng[p] EXCEPT !.existing[s] = "failed", !.todo = @ \ {s}])

ResetDone(p) == /\ eng[p].todo = {}
                /\ Local(p, "reset", At(p, "step"))

-------------------------------------------------------------------------------
(* Engine.execute, one step at a time *)

SkipRecorded(p) == /\ eng[p].pc = "step"
                   /\ eng[p].existing[Cur(p)] \in Done
                   /\ Local(p, "step", NextStep(p))

Resolve(p) == /\ eng[p].pc = "step"
              /\ eng[p].existing[Cur(p)] \notin Done
              /\ Local(p, "step", At(p, "isdone"))

ResolveFails(p) == /\ eng[p].pc = "step"
                   /\ eng[p].existing[Cur(p)] \notin Done
                   /\ Local(p, "step", At(p, "resolve_failed"))

\* The step is recorded FAILED; the run's own record is left as it is.
SaveResolveFailure(p, a) ==
    Set(p, "resolve_failed", StepState(p, Cur(p), "failed"), a, Idle)

\* IsDone may answer true only when the effect is in the world, and may fail to
\* notice it: an error of IsDone counts as "not done".
FoundDone(p) == /\ eng[p].pc = "isdone"
                /\ Cur(p) \in effect
                /\ Local(p, "isdone", At(p, "save_skipped"))

FoundNotDone(p) == Local(p, "isdone", At(p, "save_running"))

SaveSkipped(p, a) ==
    Set(p, "save_skipped", StepState(p, Cur(p), "skipped"), a, NextStep(p))

\* The one write of a step state whose error stops the run.
SaveRunning(p, a) ==
    Set(p, "save_running", StepState(p, Cur(p), "running"), a,
        IF a = "ok" THEN [eng[p] EXCEPT !.pc = "run", !.attempt = 1] ELSE Idle)

\* An attempt succeeds.  It sets every output of the step; a dry run leaves the
\* world alone and sets the outputs it likes.
RunSucceeds(p, set) ==
    /\ eng[p].pc = "run"
    /\ IF eng[p].dry THEN set \subseteq Outputs(Cur(p)) ELSE set = Outputs(Cur(p))
    /\ effect' = IF eng[p].dry THEN effect ELSE effect \cup {Cur(p)}
    /\ eng' = [eng EXCEPT ![p].pc = "save_ran", ![p].outcome = "ok",
                          ![p].todo = set]
    /\ UNCHANGED <<db, started>>

\* An attempt fails, and the effect may be there all the same.  The last attempt
\* gives up, another one backs off.
RunFails(p) ==
    LET again == eng[p].attempt < MaxAttempts(Cur(p))
    IN  /\ eng[p].pc = "run"
        /\ effect' \in {effect} \cup IF eng[p].dry THEN {}
                                                   ELSE {effect \cup {Cur(p)}}
        /\ eng' = [eng EXCEPT ![p].pc = IF again THEN "wait" ELSE "save_ran",
                              ![p].outcome = "error"]
        /\ UNCHANGED <<db, started>>

BackoffElapses(p) ==
    Local(p, "wait", [eng[p] EXCEPT !.pc = "run", !.attempt = @ + 1])

BackoffCancelled(p) ==
    /\ eng[p].ctxDone
    /\ Local(p, "wait", [eng[p] EXCEPT !.pc = "save_ran",
                                       !.outcome = "cancelled"])

\* The state runWithRetry returns is saved before its error is looked at: FAILED
\* when the attempts are exhausted, RUNNING still when it succeeded or was
\* cancelled.
SaveRan(p, a) ==
    Set(p, "save_ran",
        StepState(p, Cur(p),
                  IF eng[p].outcome = "error" THEN "failed" ELSE "running"), a,
        At(p, IF eng[p].outcome = "ok" THEN "outputs" ELSE "save_failed"))

\* The outputs are a Go map too; an error is logged and the loop goes on.
PersistOutput(p, k, a) ==
    /\ k \in eng[p].todo
    /\ Set(p, "outputs", [db EXCEPT !.out[k] = eng[p].run], a,
           [eng[p] EXCEPT !.todo = @ \ {k}])

OutputsPersisted(p) == /\ eng[p].todo = {}
                       /\ Local(p, "outputs", At(p, "save_succeeded"))

SaveSucceeded(p, a) ==
    Set(p, "save_succeeded", StepState(p, Cur(p), "succeeded"), a, NextStep(p))

\* The step failed: its state, then the run's meta, then last_run_id.
SaveFailed(p, a) == Set(p, "save_failed", StepState(p, Cur(p), "failed"), a,
                        At(p, "fail_meta"))

\* SaveRunMeta stops at its first error.
SaveFailMeta(p, a) == Set(p, "fail_meta", RunMeta(p, "failed"), a,
                          IF a = "ok" THEN At(p, "fail_last") ELSE Idle)

SaveFailLast(p, a) == Set(p, "fail_last", LastRunID(p), a, Idle)

\* All steps are behind: the run is recorded SUCCEEDED.
SaveFinishMeta(p, a) ==
    Set(p, "finish_meta", RunMeta(p, "succeeded"), a,
        IF a = "ok" THEN At(p, "finish_last") ELSE Idle)

SaveFinishLast(p, a) == Set(p, "finish_last", LastRunID(p), a, Idle)

-------------------------------------------------------------------------------
(* The environment *)

\* SIGINT or SIGTERM: the context is cancelled, the engine goes on.
Signal(p) == /\ eng[p].pc # "idle"
             /\ ~eng[p].ctxDone
             /\ eng' = [eng EXCEPT ![p].ctxDone = TRUE]
             /\ UNCHANGED <<db, effect, started>>

\* The process is killed, or the machine is lost.
Kill(p) == /\ eng[p].pc # "idle"
           /\ eng' = [eng EXCEPT ![p] = Idle]
           /\ UNCHANGED <<db, effect, started>>

-------------------------------------------------------------------------------
(* The specification *)

Save(p, a) == \/ SaveInitMeta(p, a)
              \/ SaveInitLast(p, a)
              \/ \E s \in Steps : ResetInterrupted(p, s, a)
              \/ SaveResolveFailure(p, a)
              \/ SaveSkipped(p, a)
              \/ SaveRunning(p, a)
              \/ SaveRan(p, a)
              \/ \E k \in Keys : PersistOutput(p, k, a)
              \/ SaveSucceeded(p, a)
              \/ SaveFailed(p, a)
              \/ SaveFailMeta(p, a)
              \/ SaveFailLast(p, a)
              \/ SaveFinishMeta(p, a)
              \/ SaveFinishLast(p, a)

\* What the process does by itself, when all goes well ...
Proceed(p) == \/ Save(p, "ok")
              \/ LoadStates(p)
              \/ ResetDone(p)
              \/ SkipRecorded(p)
              \/ Resolve(p)
              \/ FoundDone(p)
              \/ FoundNotDone(p)
              \/ \E set \in SUBSET Keys : RunSucceeds(p, set)
              \/ BackoffElapses(p)
              \/ OutputsPersisted(p)

\* ... and when something it calls goes wrong.
Fault(p) == \/ \E a \in {"refused", "lost", "cut"} : Save(p, a)
            \/ LoadFails(p)
            \/ ResolveFails(p)
            \/ RunFails(p)
            \/ BackoffCancelled(p)

Interrupt(p) == Signal(p) \/ Kill(p)

Command(p) == \E r \in Runs, dry \in DryRunFlags :
                 StartInit(p, r, dry) \/ Resume(p, r, dry)

Next == \E p \in Procs : \/ Proceed(p)
                         \/ Fault(p)
                         \/ Interrupt(p)
                         \/ Command(p)

Spec == Init /\ [][Next]_vars

\* A process that can go on does: every call it makes returns, well or badly,
\* and a back-off of at most 60 seconds elapses.  Nobody has to type a command
\* and nothing has to go wrong.
Fairness == \A p \in Procs : WF_vars(Proceed(p) \/ Fault(p))

FairSpec == Spec /\ Fairness

\* From some moment on all goes well.
Calm == <>[][\E p \in Procs : Proceed(p) \/ Command(p)]_vars

-------------------------------------------------------------------------------
(* Properties *)

Active(p) == eng[p].pc # "idle"

\* A step recorded SUCCEEDED or SKIPPED, in whichever run, has its effect in the
\* world: no order of crashes, lost writes and concurrent resumes makes the
\* engine record a step it never carried out (execute, engine.go:148-194).
SucceededHasEffect ==
    \A r \in Runs, s \in Steps : db.step[r][s] \in Done => s \in effect

\* A run recorded SUCCEEDED means the whole platform is in place, whatever the
\* history of failed and resumed commands (engine.go:185-192).
CompleteRunProvisioned ==
    \A r \in Runs : db.meta[r] = "succeeded" => effect = Steps

\* A step takes effect only after every step it depends on, also when the
\* dependency was carried out by an earlier process and only its record is left
\* (shouldSkipStep, engine.go:196-212).
DepsInEffect == \A s \in effect : Deps[s] \subseteq effect

\* The records of a run are a finished prefix of the order followed by at most
\* one step at hand, so that a resume finds where to go on (Resume's comment,
\* engine.go:118: "re-runs from the first non-succeeded step").
CheckpointPrefix ==
    \A r \in Runs : \A i, j \in 1..Len(Order) :
        i < j /\ db.step[r][Order[j]] # "none" => db.step[r][Order[i]] \in Done

\* A run recorded SUCCEEDED has every step recorded SUCCEEDED or SKIPPED
\* (engine.go:185-192 writes the one without looking at the others).
CompleteMeansRecorded ==
    \A r \in Runs : db.meta[r] = "succeeded" =>
                       \A s \in Steps : db.step[r][s] \in Done

\* While a step is being executed its record says RUNNING, so that a kill at any
\* moment leaves a trace for Resume to find (transitionToRunning,
\* engine.go:265-276).
RunningIsDurable ==
    \A p \in Procs : eng[p].pc \in {"run", "wait"} =>
                        db.step[eng[p].run][Cur(p)] = "running"

\* A record SUCCEEDED or SKIPPED is never replaced by another, through any number
\* of resumes (shouldSkipStep, engine.go:201).
SucceededIsStable ==
    [][\A r \in Runs, s \in Steps :
          db.step[r][s] \in Done => db'.step[r][s] = db.step[r][s]]_vars

\* The outputs of a step recorded SUCCEEDED are in the store (context.go:74,
\* "Outputs are persisted to configctl by the engine after the step succeeds").
OutputsDurable ==
    \A r \in Runs, k \in Keys :
        db.step[r][Owner[k]] = "succeeded" => db.out[k] # NoRun

\* A process that is not a dry run leaves a step behind only when the step is in
\* effect (README.md:41-42 of --dry-run: "describes the actions a run would take
\* without executing them"; resume.go:15-17: "Steps that already succeeded are
\* skipped").
PassedStepsAreDone ==
    \A p \in Procs : Active(p) /\ ~eng[p].dry =>
        \A i \in 1..(eng[p].idx - 1) : Order[i] \in effect

\* Every command ends: the attempts of a step, the resets and the outputs run
\* out, whatever fails (runWithRetry, engine.go:343-380).
Terminates == \A p \in Procs : Active(p) ~> ~Active(p)

\* Once nothing goes wrong any more, resuming a run again and again completes it
\* for good (README.md:9-11, "a run that fails partway through can be continued
\* from the last successful step").
ResumeCompletes ==
    \A r \in Runs :
        Calm /\ []<><<\E p \in Procs, dry \in DryRunFlags : Resume(p, r, dry)>>_vars
            => <>[](db.meta[r] = "succeeded")

\* The engine implements Provisioning.
Abs == INSTANCE Provisioning
          WITH provisioned <- effect,
               complete <- {r \in Runs : db.meta[r] = "succeeded"}

ImplementsProvisioning == Abs!Spec

-------------------------------------------------------------------------------
(* The inductive invariant (proved in EngineProofs) *)

\* Where a process works on a step, and where it has left the loop.
AtStep == {"init_meta", "init_last", "load", "reset", "step", "resolve_failed",
           "isdone", "save_skipped", "save_running", "run", "wait", "save_ran",
           "outputs", "save_succeeded", "save_failed", "fail_meta", "fail_last"}
AtEnd  == {"finish_meta", "finish_last"}

\* A process works on a run, at a step or past the last one.
Placed(e) == /\ e.pc # "idle" => e.run \in Runs
             /\ e.pc \in AtStep => e.idx <= Len(Order)
             /\ e.pc \in AtEnd => e.idx = Len(Order) + 1

\* The step at hand has been carried out.
Carried(e) == \/ e.pc \in {"save_skipped", "outputs", "save_succeeded"}
              \/ e.pc = "save_ran" /\ e.outcome = "ok"

\* What a process holds agrees with the effects E: the states it loaded, the
\* steps it has passed, and the step it is about to record.
EngineSound(e, E) ==
    /\ e.dry = FALSE
    /\ \A s \in Steps : e.existing[s] \in Done => s \in E
    /\ \A i \in 1..(e.idx - 1) : Order[i] \in E
    /\ Carried(e) => Order[e.idx] \in E
    /\ e.pc \in AtEnd => E = Steps

\* What the store holds agrees with the effects E.
TableSound(t, E) ==
    /\ \A r \in Runs, s \in Steps : t.step[r][s] \in Done => s \in E
    /\ \A r \in Runs : t.meta[r] = "succeeded" => E = Steps

TypeInv == /\ TypeOK
           /\ \A p \in Procs : Placed(eng[p])

\* Without dry runs, nothing a process holds and nothing the store holds claims
\* an effect that is not there, and no effect precedes one it depends on
\* (execute, engine.go:148-194, together with the states a resume loads).
IInv == /\ TypeInv
        /\ \A p \in Procs : EngineSound(eng[p], effect)
        /\ TableSound(db, effect)
        /\ DepsInEffect
================================================================================
