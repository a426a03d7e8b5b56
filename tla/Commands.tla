-------------------------------- MODULE Commands --------------------------------
(***************************************************************************)
(* The commands `init` and `resume` (cmd/init.go, cmd/resume.go,           *)
(* cmd/root.go): which run they work on and for which target, collection,  *)
(* engine and hand-over to platform-runner one after the other, the exit   *)
(* code.  A target is a project and an environment; the records of all     *)
(* targets, and the one last_run_id, are in one place (state.go:53-56).    *)
(*                                                                         *)
(* Collection is one action, Collector has its inside.  A step is one      *)
(* action, whose record may be lost; Engine has the writes between.  The   *)
(* program platform-runner is external: a call succeeds or fails.          *)
(***************************************************************************)
EXTENDS Naturals, Sequences

CONSTANTS Procs,      \* the processes, one command at a time
          Runs,       \* the run identifiers
          NoRun,      \* "no run"; not a run identifier
          Targets,
          NumSteps,   \* the length of the pipeline
          DryRunFlags

ASSUME CommandsAssumption == /\ NoRun \notin Runs
                             /\ NumSteps \in Nat \ {0}
                             /\ DryRunFlags \subseteq BOOLEAN

VARIABLES cmd,      \* cmd[p]: the command in process p
          meta,     \* meta[r]: the status recorded of run r
          rec,      \* rec[r]: the steps run r has recorded SUCCEEDED or SKIPPED
          last,     \* last_run_id
          used,     \* the run identifiers that were given out (history)
          worked    \* worked[r]: the steps that were executed, or found done,
                    \* under run r, with the target it was for (history)

vars == <<cmd, meta, rec, last, used, worked>>

Steps == 1..NumSteps

\* The calls to platform-runner, in order.
Subcommands == <<"validate", "sync-template", "plan-all">>

Statuses == {"none", "running", "failed", "succeeded"}

Commands == [pc      : {"idle", "pointer", "collect", "list", "step", "meta", "last",
                        "runner"},
             name    : {"init", "resume"},
             target  : Targets,
             run     : Runs \cup {NoRun},
             dry     : BOOLEAN,
             hand    : BOOLEAN,                 \* --run
             loaded  : SUBSET Steps,            \* the records that resume has read
             at      : 1..(NumSteps + 1),
             status  : Statuses,                \* that SaveRunMeta records
             called  : Seq([name : {Subcommands[i] : i \in 1..3}, dry : BOOLEAN]),
             stopped : BOOLEAN,                 \* the context is cancelled
             exit    : {"none", "zero", "one"}]

\* Every variable is of its type.
TypeOK == /\ cmd \in [Procs -> Commands]
          /\ meta \in [Runs -> Statuses]
          /\ rec \in [Runs -> SUBSET Steps]
          /\ last \in Runs \cup {NoRun}
          /\ used \subseteq Runs
          /\ worked \in [Runs -> SUBSET (Targets \X Steps)]

-------------------------------------------------------------------------------

Idle(t) == [pc |-> "idle", name |-> "init", target |-> t, run |-> NoRun,
            dry |-> FALSE, hand |-> FALSE, loaded |-> {}, at |-> 1,
            status |-> "none", called |-> <<>>, stopped |-> FALSE, exit |-> "none"]

Init == /\ cmd \in [Procs -> {Idle(t) : t \in Targets}]
        /\ meta = [r \in Runs |-> "none"]
        /\ rec = [r \in Runs |-> {}]
        /\ last = NoRun
        /\ used = {}
        /\ worked = [r \in Runs |-> {}]

\* The command in p stands elsewhere now.
Becomes(p, next) == cmd' = [cmd EXCEPT ![p] = next]

\* Nothing else changes.
Moves(p, next) == Becomes(p, next) /\ UNCHANGED <<meta, rec, last, used, worked>>

At(p, pc) == cmd[p].pc = pc

\* A call to the store, to AWS or to a program can succeed.
Answering(p) == ~cmd[p].stopped

\* The command ends.  executeCommand makes 1 of every error.
Succeeded(p) == [cmd[p] EXCEPT !.pc = "idle", !.exit = "zero", !.loaded = {}, !.at = 1,
                               !.status = "none", !.stopped = FALSE]
Failed(p) == [Idle(cmd[p].target) EXCEPT !.exit = "one"]

Fails(p) == Moves(p, Failed(p))

-------------------------------------------------------------------------------
(* Slips: definitions below as a plausible mistake would write them *)

\* Takes an error for the end of the pipeline.
AfterFailureSlip(p) == [cmd[p] EXCEPT !.pc = "runner"]

\* Counts on behind the last step.
PassedSlip(p) == [cmd[p] EXCEPT !.at = @ + 1]

\* Writes the pointer first.
SaveMetaSlip(p) == /\ At(p, "meta")
                   /\ Answering(p)
                   /\ last' = cmd[p].run
                   /\ Becomes(p, [cmd[p] EXCEPT !.pc = "last"])
                   /\ UNCHANGED <<meta, rec, used, worked>>

\* Forgets a record that it has read.
ListSlip(p) == /\ At(p, "list")
               /\ Answering(p)
               /\ Moves(p, [cmd[p] EXCEPT !.pc = "step", !.at = 1, !.loaded = Steps])

-------------------------------------------------------------------------------
(* Start and collection *)

StartInit(p, t, r, dry, hand) ==
    /\ At(p, "idle")
    /\ r \notin used
    /\ used' = used \cup {r}
    /\ Becomes(p, [Idle(t) EXCEPT !.pc = "collect", !.run = r, !.dry = dry,
                                  !.hand = hand])
    /\ UNCHANGED <<meta, rec, last, worked>>

\* resume --run-id: nothing checks the identifier.
StartResume(p, t, r, dry) ==
    /\ At(p, "idle")
    /\ used' = used \cup {r}
    /\ Becomes(p, [Idle(t) EXCEPT !.pc = "collect", !.name = "resume", !.run = r,
                                  !.dry = dry])
    /\ UNCHANGED <<meta, rec, last, worked>>

\* resume without --run-id, which asks the store for the last run.
StartResumeLast(p, t, dry) ==
    /\ At(p, "idle")
    /\ Moves(p, [Idle(t) EXCEPT !.pc = "pointer", !.name = "resume", !.dry = dry])

LastRunID(p) == /\ At(p, "pointer")
                /\ Answering(p)
                /\ last # NoRun
                /\ Moves(p, [cmd[p] EXCEPT !.pc = "collect", !.run = last])

\* init records the run, resume reads its records.
Collected(p) == /\ At(p, "collect")
                /\ Moves(p, IF cmd[p].name = "init"
                            THEN [cmd[p] EXCEPT !.pc = "meta", !.status = "running"]
                            ELSE [cmd[p] EXCEPT !.pc = "list"])

List(p) == /\ At(p, "list")
           /\ Answering(p)
           /\ Moves(p, [cmd[p] EXCEPT !.pc = "step", !.at = 1,
                                      !.loaded = rec[cmd[p].run]])

\* No run, an input that is missing or refused, an error of the store.
StartFails(p) == /\ cmd[p].pc \in {"pointer", "collect", "list"}
                 /\ Fails(p)

-------------------------------------------------------------------------------
(* Engine.execute *)

\* The step at hand is passed; the last one leads to the run's SUCCEEDED.
Passed(p) == IF cmd[p].at < NumSteps
             THEN [cmd[p] EXCEPT !.at = @ + 1]
             ELSE [cmd[p] EXCEPT !.pc = "meta", !.at = @ + 1, !.status = "succeeded"]

Skip(p) == /\ At(p, "step")
           /\ cmd[p].at \in cmd[p].loaded
           /\ Moves(p, Passed(p))

\* The step is executed or found done.  The error of recording it is dropped.
Execute(p, recorded) ==
    LET r == cmd[p].run IN
    /\ At(p, "step")
    /\ cmd[p].at \notin cmd[p].loaded
    /\ Answering(p)
    /\ worked' = [worked EXCEPT ![r] = @ \cup {<<cmd[p].target, cmd[p].at>>}]
    /\ rec' = IF recorded THEN [rec EXCEPT ![r] = @ \cup {cmd[p].at}] ELSE rec
    /\ Becomes(p, Passed(p))
    /\ UNCHANGED <<meta, last, used>>

\* A step that fails, or that cannot begin: only the first changes the run's status.
AfterFailure(p) == Failed(p)

StepFails(p) == /\ At(p, "step")
                /\ cmd[p].at \notin cmd[p].loaded
                /\ \/ Moves(p, [cmd[p] EXCEPT !.pc = "meta", !.status = "failed"])
                   \/ Moves(p, AfterFailure(p))

-------------------------------------------------------------------------------
(* StateStore.SaveRunMeta: the run's record, then last_run_id *)

\* Where SaveRunMeta returns to: only Engine.Init looks at its error.
Saved(p, ok) ==
    CASE cmd[p].status = "running" ->
             IF ok THEN [cmd[p] EXCEPT !.pc = "step"] ELSE AfterFailure(p)
      [] cmd[p].status = "failed" -> AfterFailure(p)
      [] cmd[p].status = "succeeded" ->
             IF cmd[p].hand THEN [cmd[p] EXCEPT !.pc = "runner"]
                            ELSE Succeeded(p)

SaveMeta(p) == /\ At(p, "meta")
               /\ Answering(p)
               /\ meta' = [meta EXCEPT ![cmd[p].run] = cmd[p].status]
               /\ Becomes(p, [cmd[p] EXCEPT !.pc = "last"])
               /\ UNCHANGED <<rec, last, used, worked>>

SaveLast(p) == /\ At(p, "last")
               /\ Answering(p)
               /\ last' = cmd[p].run
               /\ Becomes(p, Saved(p, TRUE))
               /\ UNCHANGED <<meta, rec, used, worked>>

\* One of the two Sets returns an error; it may have happened.
SaveFails(p) == /\ cmd[p].pc \in {"meta", "last"}
                /\ Becomes(p, Saved(p, FALSE))
                /\ \/ UNCHANGED <<meta, last>>
                   \/ Answering(p) /\ At(p, "meta") /\ UNCHANGED last
                      /\ meta' = [meta EXCEPT ![cmd[p].run] = cmd[p].status]
                   \/ Answering(p) /\ At(p, "last") /\ UNCHANGED meta
                      /\ last' = cmd[p].run
                /\ UNCHANGED <<rec, used, worked>>

-------------------------------------------------------------------------------
(* invokeRunner *)

\* plan-all always has --dry-run, the others if the command has.
Call(p) == LET name == Subcommands[Len(cmd[p].called) + 1]
           IN [name |-> name, dry |-> cmd[p].dry \/ name = "plan-all"]

RunnerSucceeds(p) ==
    /\ At(p, "runner")
    /\ Answering(p)
    /\ Moves(p, [IF Len(cmd[p].called) + 1 < Len(Subcommands) THEN cmd[p] ELSE Succeeded(p)
                     EXCEPT !.called = Append(@, Call(p))])

\* It cannot be started, fails, or is killed with the context.
RunnerFails(p) == At(p, "runner") /\ Fails(p)

-------------------------------------------------------------------------------

Signal(p) == ~At(p, "idle") /\ Moves(p, [cmd[p] EXCEPT !.stopped = TRUE])

\* SIGKILL: there is no exit code.
Kill(p) == ~At(p, "idle") /\ Moves(p, Idle(cmd[p].target))

Proceed(p) == \/ LastRunID(p) \/ Collected(p) \/ List(p) \/ StartFails(p)
              \/ Skip(p) \/ StepFails(p)
              \/ \E recorded \in BOOLEAN : Execute(p, recorded)
              \/ SaveMeta(p) \/ SaveLast(p) \/ SaveFails(p)
              \/ RunnerSucceeds(p) \/ RunnerFails(p)

Start(p) == \E t \in Targets, dry \in DryRunFlags :
                \/ StartResumeLast(p, t, dry)
                \/ \E r \in Runs : \/ StartResume(p, t, r, dry)
                                   \/ \E hand \in BOOLEAN : StartInit(p, t, r, dry, hand)

Next == \E p \in Procs : Start(p) \/ Proceed(p) \/ Signal(p) \/ Kill(p)

Spec == Init /\ [][Next]_vars

-------------------------------------------------------------------------------
(* Properties *)

\* Exit code 0 means that every step of the run has been executed or found done, by
\* this command or those before it, and that all of platform-runner's calls succeeded,
\* whatever was lost, killed or running beside it (root.go:91-99, init.go:98-110).
ZeroIsComplete ==
    \A p \in Procs : cmd[p].exit = "zero" =>
        /\ \A i \in Steps : \E t \in Targets : <<t, i>> \in worked[cmd[p].run]
        /\ cmd[p].hand => Len(cmd[p].called) = Len(Subcommands)

\* platform-runner is called after the whole pipeline was carried out for the target at
\* hand only, in order, and changes nothing in a dry run or as plan-all (README.md:43-45,
\* "after the pipeline completes"; invoker.go:75-76, "to produce a preview only").
HandedOverWhenComplete ==
    \A p \in Procs : cmd[p].called # <<>> =>
        /\ \A i \in Steps : <<cmd[p].target, i>> \in worked[cmd[p].run]
        /\ \A i \in 1..Len(cmd[p].called) :
              /\ cmd[p].called[i].name = Subcommands[i]
              /\ cmd[p].dry \/ i = 3 => cmd[p].called[i].dry

\* last_run_id never points to a run of which nothing is recorded, however SaveRunMeta
\* is cut short (state.go:58, "persists a RunMeta record and updates the last_run_id
\* pointer").
LastIsRecorded == last # NoRun => meta[last] # "none"
================================================================================
