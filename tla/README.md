# A formal model of the platform orchestrator

`platform-orchestrator` provisions an AWS platform: `init` starts a run of a
pipeline of nine steps, every step is checkpointed in DynamoDB, and `resume`
continues a run that failed or was killed. What it must get right is seldom on one
line of the code: it is what remains after a crash between two writes, a write that
failed, a second operator, a run left half done last week. This directory models
that in TLA+, checks it with TLC and proves nearly all of its safety with TLAPS.

Line numbers are those of the sources this was written from. `PROJECT.json` maps
every definition to its lines.

## 1. The system

| Component | State it keeps | Operations | Depends on |
|---|---|---|---|
| Engine (`internal/pipeline/engine.go`) | position in the order, attempt, states loaded by `Resume`, context | `Init`, `Resume`, `execute` and its handlers | state store, resolver, steps, DAG |
| Run and step state store (`state.go`) | nothing of its own; records in the config store | `SaveRunMeta` (two Sets), `SaveStepState`, `LoadAllStepStates` (one List) | config store |
| Step contract (`step.go`, `context.go`) | output buffer of one step | `IsDone`, `Run`, `RetryPolicy`, `SetOutput` | |
| DAG and registry (`dag.go`, `steps/registry.go`) | steps, edges | `Register`, `BuildDAG`, `Validate`, `TopoSort` | |
| Config store (`internal/configctl`) | one DynamoDB table | `Get`, `Set`, `Delete`, `List` | DynamoDB, the AWS SDK's retries |
| Credential resolver (`internal/credential`) | none | `Resolve(class)` | config store (role ARNs), STS |
| Nine platform-setup steps (`internal/steps`) | AWS, the Terraform module directory, store keys | `IsDone`, `Run` | everything above |
| Input collection (`internal/prompt`) | collected inputs in the store | `Collect`, `BatchPrompter.Ask`, `InteractivePrompter.Ask` | config store, a person |
| Commands (`cmd`) | flags; run id; exit code | `init`, `resume`; `status`, `steps`, `output`, which only read | everything above |
| Post-run invoker (`internal/postrun`) | none | validate, sync-template, plan-all | `platform-runner` |
| Process runner, configuration, logging | none | one call each | |

How they interact. A command is one operating-system process. It builds an engine
over one table that it shares with every other command, past and present: records
are the only memory between two commands, and outputs and ARNs the only channel
between two steps. The engine calls, in this order and for each step in sorted
order: the record loaded at the start, `Resolve`, `IsDone`, a write of RUNNING, up to
`MaxAttempts` attempts of `Run` with back-offs between them, a rewrite of the record, one
write per output, a write of SUCCEEDED. The errors of most of these writes are
dropped. SIGINT and SIGTERM cancel the context, after which every call fails;
SIGKILL leaves whatever was written.

What is hard, and what makes each component correct:

- *Crashes and lost writes.* Between the effect of a step and its SUCCEEDED record lie
  several writes. Correct: no record ever claims what is not there; a run's records
  are a finished prefix of the order; a finished record is final; a resume always
  finds where to go on.
- *Several commands on one run.* Nothing locks a run, and `Resume` takes every
  RUNNING record for that of a dead process (engine.go:125-135). Correct: whatever
  the two overwrite, the records stay true, and effects come in dependency order.
- *Retries.* An attempt can fail after its effect. Correct: attempts end; a repeated
  attempt does no harm.
- *Dry runs.* They write the same records and outputs as real runs. Correct: they
  leave nothing a real run would mistake for its own.
- *The store.* Set reads, compares and writes in separate requests, which the SDK
  repeats. Correct: a Set that returned without error has happened, in between.
- *The DAG.* Repeated, circular, unknown and self dependencies; Go's random map
  order. Correct: the order is topological and the same in every process.
- *Input collection.* A key is read, a person asked (or, in batch mode, the store once
  more), and the answer stored, while other commands and platform-configctl write to the same table.
  Correct: success means every required input has had a value that is not empty and valid, and a good
  value is not replaced by a bad one, both but for a stored "" in batch mode (section 3); nothing is
  made up without a person; the collection ends.
- *Commands.* Which run a command works on, and for which target, comes from one pointer
  and one partition that all targets share. Correct: exit code 0 and the hand-over to
  platform-runner only follow a pipeline that was carried out; the pointer never names
  a run without a record.
- *Several targets.* Some keys belong to the target, some to `_platform/global`, and a
  role ARN passes from one to the other. Correct: an ARN names a finished role; a
  target gets a role that trusts its repository.
- *The steps.* Each `IsDone` infers a whole effect from part of it, each `Run` is a
  series of calls that can stop anywhere. Correct: a stored ARN names a finished
  thing; what is recorded is in place; a run can always be completed.

## 2. The modules

| Module | What it is |
|---|---|
| `Provisioning` | What the orchestrator promises: effects in dependency order, completion only when all are there. |
| `Engine` | Engine, step contract and state store, one process per command. Refines `Provisioning`. |
| `EngineProofs` | Theorems about `Engine`: what is recorded is true. |
| `CheckpointProofs` | Theorems about `Engine`: the records of a run fit together. |
| `MCEngine` | Small pipelines for TLC. |
| `DAG`, `MCDAG` | `Register`, `BuildDAG`, `TopoSort`; its result is the `OrderAssumption` of `Engine`. |
| `DAGProofs` | Theorems about `DAG`. |
| `ConfigStore` | What the store client promises: a set happens between call and return, or may happen any time after an error. |
| `DynamoStore`, `MCDynamoStore` | Get, Set, Delete over GetItem, PutItem, DeleteItem. Refines `ConfigStore`. |
| `DynamoStoreProofs` | Theorems about `DynamoStore`, and what lets the other modules take a Set for one step. |
| `PlatformSetup`, `MCPlatformSetup` | The nine steps, call by call, over AWS, the module directory and the store. |
| `PlatformSetupProofs` | Theorems about `PlatformSetup`. |
| `Collector`, `MCCollector` | Input collection, with a person and without, over a store that others write, too. |
| `CollectorProofs` | Theorems about `Collector`. |
| `Commands`, `MCCommands` | `init` and `resume` from their flags to their exit code: run id, collection, engine, hand-over. |
| `CommandsProofs` | Theorems about `Commands`. |
| `Targets`, `MCTargets` | The three steps whose keys are shared by targets, for several targets and processes at a time. |
| `TargetsProofs` | Theorems about `Targets`. |

In the modules, a definition whose name ends in `Slip` is not part of the
specification: it is the definition of the same name as a plausible mistake would
have it, and stands there so that every checked property is seen to fail on one.

### Engine

`eng[p]` is the engine in process p: `pc` names the call it stands before, `existing`
is the snapshot `Resume` loaded, `todo` what is left of a loop over a Go map (the
resets at engine.go:126, the outputs at 300), `ctxDone` the cancelled context. `db` is
the table: step states and metas per run, `last_run_id`, and per output the run that
wrote it. `effect` is the world.

One action is one call that something else can come between; the local code after a
call belongs to its action. Every Set goes through `Set`, which has the outcomes of
dynamo.go:70-121: written and acknowledged, written with an error, not written with
an error; with a cancelled context only errors. The error is dropped or returned
where the code does so. The two Sets of `SaveRunMeta` are two actions.

| Code | Actions |
|---|---|
| `Engine.Init` 95-113 | `StartInit`, `SaveInitMeta`, `SaveInitLast` |
| `Engine.Resume` 115-146 | `Resume`, `LoadStates`, `LoadFails`, `ResetInterrupted`, `ResetDone` |
| `shouldSkipStep`, `buildExecutionContext` | `SkipRecorded`, `Resolve`, `ResolveFails`, `SaveResolveFailure` |
| `shouldSkipBecauseDone` | `FoundDone`, `FoundNotDone`, `SaveSkipped` |
| `transitionToRunning`, `runWithRetry` | `SaveRunning`, `RunSucceeds`, `RunFails`, `BackoffElapses`, `BackoffCancelled`, `SaveRan` |
| `handleStepSuccess`, `persistStepOutputs` | `PersistOutput`, `OutputsPersisted`, `SaveSucceeded` |
| `handleStepFailure` | `SaveFailed`, `SaveFailMeta`, `SaveFailLast` |
| end of `execute` | `SaveFinishMeta`, `SaveFinishLast` |
| main's signal context; SIGKILL | `Signal`, `Kill` |

What a step does is abstracted to its contract: an attempt of `Run` may succeed, fail
before its effect, or fail after it, and `IsDone` is true only of a step in effect.
`PlatformSetup` looks at how far the nine steps keep to that.

`Pages` says which records one List may return: all of them, or, in
`engine_liveness`, also a page that ends before those of the run (dynamo.go:138 reads one
page only).

### DAG

A registry is filled step by step, the graph is built in any map order, validated,
and sorted by the loop at dag.go:59-73; one action is one iteration. A step's rank
stands for its name, so "sorted by name" is the order of the integers.

### DynamoStore

A call is a chain of requests. A write is sent up to `MaxSends` times by the SDK; a
copy can be lost, arrive late, or arrive after its call has given up (`loose`). The
table is external and modelled from how the code calls it: PutItem without a
condition, GetItem without ConsistentRead. The `version` attribute is left out:
nothing reads it.

### PlatformSetup

`Order` and `Calls` list the steps and their state-changing calls in the order of the
code. An attempt enters `Run` (`Entry`, with the looks at `plan_has_changes` and at
`DryRun` in the order each step has them), makes its calls, and may fail before any of them
and after the last. `aws`, `dir` and `store` are what the calls change; of the Terraform
module only the version counts. One command runs at a time. Records are written
without fail, which `Engine` covers; outputs may be lost. `past` is a history variable: the runs
started since the last edit of the module, and those touched by a dry run.

Terraform is external: `plan` saves from which version to which, `apply` takes
a saved plan only if nothing was applied since, and neither works partly. The
abstraction of a role to none / bare / full keeps what create_admin_role's two calls
can leave behind.

### Collector

`col[c]` is the collection of command c: the input at hand, its default, the answer
that is to be stored. `Specs` is what `init` and `resume` gather from all steps in
sorted order, `Deduped` the specs that `dedupeSpecs` leaves. An input is a key, a default, whether it is
optional, and the set of values its `Verify` lets pass. The store is `ConfigStore`'s, one
step per Get or Set; a Set that fails may have stored.

| Code | Actions |
|---|---|
| `collectInputs` init.go:163-195, `Collect` 36-48 | `Start`, `Settled` |
| `collectOne` 63-75, `loadExisting` | `Load`, `LoadFails` |
| `collectOne` 77-94 | `Answered` (in the action of the answer), `Store`, `StoreFails` |
| `BatchPrompter.Ask` | `AskStore`, `AskFails` |
| `InteractivePrompter.Ask` | `PrintPrompt`, `Answer`, `Refuse`, `AskFails` |
| main's signal context | `Signal`, seen by calls to the store and not by the prompt |
| platform-configctl (external) | `StoreElsewhere` |

`seen` is a history variable: the values each key has had since the collection began, until it
fails or begins again. `EmptyPasses` names the one case in which a collection takes a value for a required input that it
would not accept from a person: batch mode, a "" in the store, and a check that lets it pass.

### Commands

`cmd[p]` is the command in process p. Collection is one action (`Collector` has its
inside) and so is a step, whose record may be lost (`Engine` has the writes between).
What this module adds is the code around them: the run id, `last_run_id`, the two
Sets of SaveRunMeta, which error ends a command and which does not, the calls to
platform-runner, the exit code. `used` and `worked` are history variables; `worked` says
under which run and for which target a step was carried out.

| Code | Actions |
|---|---|
| `runInit`, `newRunID` | `StartInit`, `Collected` |
| `newResumeCmd` | `StartResume`, `StartResumeLast`, `LastRunID`, `Collected`, `List` |
| errors before the engine | `StartFails` |
| `Engine.execute` | `Skip`, `Execute`, `StepFails` |
| `SaveRunMeta` | `SaveMeta`, `SaveLast`, `SaveFails` |
| `invokeRunner`, `Invoker.exec` | `RunnerSucceeds`, `RunnerFails` |
| `executeCommand`, `exitCodeForError` | `Succeeded`, `Failed` |
| main's signal context; SIGKILL | `Signal`, `Kill` |

### Targets

`PlatformSetup` has nine steps and one target; this module has three steps and several
targets, with the names of their roles. `cmd[p]` is the step in process p, `global` the
keys of `_platform/global`, `out[t]` the role ARN among target t's outputs, `trust[n]` and
`attached` the roles in AWS. The calls are those of the code one by one: the name is read by
`IsDone` and again by `Run`, CreateRole of a role that exists reads it instead, the ARN is
stored under a key that all targets share and read back by the next step.

## 3. What the runs check

| Run | Question | Bounds | Result |
|---|---|---|---|
| `engine_crash` | Are one run's records right through any sequence of crashes, signals and resumes? | 3 steps in a branch (the head of the real pipeline), one with 2 attempts, 2 outputs, 1 run, 1 process at a time | 20 thousand states, holds |
| `engine_concurrent` | Do the records stay true when two processes work on the same run? Does the engine implement `Provisioning`? | 2 steps, 1 attempt each, no outputs, 2 processes (symmetric), 1 run | 1.9 million states, holds |
| `engine_liveness` | Does every command end? Do repeated resumes complete a run? | 2 steps, one with 2 attempts, 1 output, dry and real, every store call may fail, a List page may be short | 109 thousand states, holds |
| `dag` | Is the sort right on every registry? | up to 4 steps, 7 dependency lists | 73 thousand states, holds |
| `dynamo_atomic` | Is the client an atomic store for its callers? | 2 clients (symmetric), 1 key, 2 values, 2 sends per write | 90 thousand states, holds |
| `platform_setup` | Are the stored ARNs real, the records true, and how can a run get stuck? | 9 steps, 2 runs, module versions 0 and 1, outputs may be lost | 450 thousand states, holds |
| `collect` | Is what collection reports and stores right while others write? Does it end? | 2 commands, one with a person, 3 inputs over 2 keys (checked, repeated, optional), 2 values and ""; a check that rejects one value and lets "" pass; the other tool stores any value, "" included, under the required key, and deletes either key | 350 thousand states, holds |
| `commands` | What do exit code 0, the hand-over and last_run_id say, whatever is lost, killed or concurrent? | 2 processes, 2 targets, 1 run, 2 steps, dry and real | 1.5 million states, holds |
| `targets` | Do the ARNs in the store name the right roles? | 2 processes, 2 targets with a role each, the admin role's name changed once by hand | 310 thousand states, holds |

The bounds are where the interesting cases first appear. In the engine every conflict is between
one step and its successor, between two outputs of one step, or between two
processes; three steps give a finished step, the one at hand and one after it, two
attempts give one retry. The proofs (section 5) lift most of the safety part to any size.
Four steps hold a diamond next to a repeated edge. Two sends and two clients give
a repeated write around another's, and a late copy after it. Two versions of the module suffice for a
stale plan, two runs for one that finds what another left. In `collect` every conflict is between a
command and one other writer of the key at hand; the repeated spec makes `dedupeSpecs`
matter, the optional one has the answer that is not stored. The store of a required key may hold
"", and a batch command takes it: without the exception `EmptyPasses` both `SuccessMeansCollected` and
`GoodStaysGood` fail in this run. The other tool only deletes the optional key, whose check lets everything pass; the commands
store there. In `commands` one run identifier is enough for a fresh
run, a resume of it for the other target, and a resume of a run that was never
started; what goes wrong there is between two commands on one run.

Properties, in words, stand above their definitions. The ones to read first:
`CheckpointPrefix`, `SucceededHasEffect`, `ImplementsProvisioning` and `ResumeCompletes` in
`Engine`; `KahnInv` and `LeastOrder` in `DAG`; `ImplementsConfigStore` in `DynamoStore`; `GoodStaysGood` in
`Collector`; `ZeroIsComplete` in `Commands`; `OwnRoleExists` in `Targets`; and in `PlatformSetup` `StoredIsReal`, `RecordedIsInPlace` and `CompletesUnlessWedged`. The last says that a
run which is resumed again and again, with the operator role stored and nothing
going wrong any more, completes unless a call is refused in one of two ways (`Wedged`). One is
a create_org that failed between its two Sets: IsDone looks at the first only, and
enable_scp never finds root_ou_id (create_org.go:89-92). The other is an apply that
took effect and was not recorded: every resume applies the same, now stale, plan and
fails (apply.go:59); a new `init` recovers.

### Where the code does not do what is said of it

Each is a run TLC is expected to find a violation in.

| Run | What happens |
|---|---|
| `dry_run_then_resume` | A dry run is cut short; resumed for real, the run passes over steps nobody executed. |
| `stale_read` | set, delete, set of the same value by one process: a stale GetItem makes the last Set report success and write nothing. |
| `stale_plan` | The module is edited between two runs; the second skips the plan on the first one's outputs and succeeds without applying the edit. |

Further divergences met while modelling, which have no run of their own:

- A second `resume` resets to FAILED a step that a live process is executing and executes
  it again (engine.go:125-135, "process was killed mid-step"). `engine_concurrent`
  shows that the records stay true all the same; that `Run` bears it is step.go:38's demand.
- A dropped error at engine.go:290 lets a step execute while its dependency is
  recorded RUNNING, although step.go:21-22 asks for SUCCEEDED; a dropped error at
  303 leaves a SUCCEEDED step without its output, against context.go:74. This is why
  `CheckpointPrefix` and `OutputsDurable` are checked with a store that answers.
- Outputs are kept per environment, not per run (engine.go:301-302), so that a run
  may read another's. A dry run's `plan_has_changes` = `false` (plan.go:56) makes a
  real run that stands between plan and apply skip the apply: `LatestIsApplied` also
  fails that way, with dry runs and without edits.
- write_oidc_outputs does not look at `DryRun` and writes in a dry run (write_outputs.go:31). It
  stores the role ARN before the provider ARN and IsDone asks for the first only.
- No step writes operator_role_arn, which the last step needs.
- `List` reads one page (dynamo.go:138): a resume may miss records of its own run, take a
  SUCCEEDED step up again and replace its record. `engine_liveness` shows that it
  completes all the same; with a page that is complete, `SucceededIsStable` holds.
- Get is eventually consistent (dynamo.go:50, client.go:9): it may miss what the step before
  stored.
- `InteractivePrompter.Ask` drops its context (interactive.go:52): a signal at the prompt ends
  the command only at the next call to the store, against root.go:84-85.
- In batch mode a required input that is stored as "" and passes its check is accepted
  (batch.go:36-39) and stored once more, possibly over another command's answer (collector.go:82-87),
  against README.md:75 and against collector.go:69, for which "" is missing. `SuccessMeansCollected` and `GoodStaysGood` name it as
  their exception (`EmptyPasses`). Of the pipeline's inputs only org_module_path has a check.
- The default of an optional input is returned unchecked (batch.go:28-29), and can be the stored
  value that failed its check (collector.go:107-112): the other exception of `GoodStaysGood`, which no
  input of the pipeline meets. Nothing uses spec.go:17-18's secret store.
- A collection that fails leaves no run recorded, so a resume without `--run-id` takes up an
  older run (init.go:94-100 against init.go:44).
- last_run_id and the records are shared by all targets (resume.go:28, state.go:55): after `init` for
  one target, `resume` for another passes over every step and exits with 0. `ZeroIsComplete`
  therefore says "for some target". An unknown `--run-id` runs the whole pipeline.
- A command for a second target between two of the first makes the first's outputs
  name the second's role (write_outputs.go:33 against README.md:13-14): `OutputIsOwn`
  holds only as long as no other target has a role.
- Targets that keep the default role name share one role, which trusts the first
  target's repository only (create_role.go:36, 47-50, 105-110 against step.go:34-35):
  `OwnRoleExists` needs names of their own.
- The admin role's name is collected under the target and read from `_platform/global`
  (create_admin_role.go:50, 69), where only a person can have put it.
- `exec.CommandContext` kills terraform with SIGKILL on a signal, against main.go's "cleanly".

## 4. Fairness

`Engine` assumes weak fairness of what a process does by itself, failing calls
included: every call returns, well or badly, and a back-off of at most 60 seconds
elapses. Nothing assumes that anybody types a command, that a call succeeds, or that
no signal comes; `ResumeCompletes` and `CompletesUnlessWedged` take those as
hypotheses (`Calm`, and resumes again and again) because no run can complete without
them. `DAG` assumes that its loops run once called. `PlatformSetup` assumes weak fairness
of `Proceed` alone, for the same reason as `Engine`. `Collector` assumes it of `Proceed`, too: a call to the store
returns, but a person need not answer; `InteractiveEnds` takes as its hypothesis that a person who is
asked again and again gives an acceptable answer again and again. `Commands` and
`Targets` state safety only. `CHECK_DEADLOCK FALSE` is set for `DAG`
only, where a rejected registry is the end; the other systems can always be given another command.

## 5. What is proved

`EngineProofs` holds for every pipeline that satisfies `OrderAssumption` (what `DAG`
checks of `TopoSort`), any number of processes, runs, outputs and attempts, with or
without store failures, and with any pages a List may return.

| Theorem | States |
|---|---|
| `TypeCorrect` | `Spec => []TypeOK`, dry runs included |
| `Sound` | `Spec => []IInv` |
| `RecordsAreTrue` | `Spec => []SucceededHasEffect` |
| `CompletionIsTrue` | `Spec => []CompleteRunProvisioned` |
| `DependenciesFirst` | `Spec => []DepsInEffect` |
| `PassedIsDone` | `Spec => []PassedStepsAreDone` |
| `EngineImplementsProvisioning` | `Spec => ImplementsProvisioning` |
| `CommandsRunOut` | `Spec => []AttemptsLimited /\ EveryChangeDescends` |

All but the first and the last assume `DryRunFlags = {FALSE}`; `dry_run_then_resume` shows that
they need to.

The argument. `SucceededHasEffect` is not inductive: the record that a process is
about to write depends on what it holds. So `IInv` adds what each process holds
(`EngineSound`): the states it loaded are true, the steps it has passed are in effect, the step
it is about to record has been carried out, and past the loop everything is. It adds
for the table (`TableSound`) that records and metas are true, and `DepsInEffect`. Effects
only grow, so another process's step never makes any of this false
(`SoundGrows`): that is why concurrent resumes do no harm to the records, however they
interleave. Each group of actions has one lemma for `TypeInv` and one for `IInv`
(`SaveSound`, `LocalStepSound`, `RunSound`, `CommandSound`). For the refinement, a step that changes
`effect` is `Provision` (its guard is `IInv`'s "all passed" with `OrderAssumption`), a meta that becomes
SUCCEEDED is `Report`, one that stops being it `Reopen`, all else stutters.

`CommandsRunOut` is the part of `Terminates` that needs no fairness. `Descends` orders what a process
holds: first the index into the order, then the attempt, then the place within the
step (`Rank`), then what is left of a loop over a map, then the context. Every change takes
a process down this order or ends it, whether the change is its own, the store's, or a signal,
so only a call that never returns could keep a command from ending. The
one way back is a retry, and `AttemptsLimited` bounds the attempts by the step's policy (engine.go:343-380).

`CheckpointProofs` has the rest of the engine's safety properties: how the records of a run
fit together, which needs more of the store and of the operators than their truth does.

| Theorem | States | Premise |
|---|---|---|
| `Consistent` | `Spec => []CInv` | `OneAtATime` |
| `RecordsAreAPrefix` | `Spec => []CheckpointPrefix` | `OneAtATime` |
| `CompletionIsRecorded` | `Spec => []CompleteMeansRecorded` | `OneAtATime` |
| `RunningIsTraced` | `Spec => []RunningIsDurable` | `OneAtATime` |
| `FinishedStaysFinished` | `Spec => SucceededIsStable` | `OneAtATime` |
| `OutputsAreStored` | `Spec => []OutputsDurable` | no dry runs, a store that answers |

`OneAtATime` is the setting of `engine_crash`: one process at a time, a store whose calls
fail only when a signal cuts them off, and a List that shows every record. Pipelines, runs,
attempts, kills, signals, resumes and dry runs are unrestricted. TLC finds `CheckpointPrefix` violated as
soon as any of the three is dropped. `OutputsAreStored` has any number of processes.

The argument. `CheckpointPrefix` is not inductive: whether a write keeps the prefix depends
on the process knowing where the prefix ends. `Follows` says it does: of a run it begins there is no record
(identifiers are fresh, `Regular`), what it resumes is what it loaded, the steps it has passed are
recorded, those ahead are as it loaded them, and the one at hand is not finished
(`StepWrite` is the one lemma on tables this takes). A process whose context is cancelled
need not follow anything, as each of its writes is refused: a signal loses it the table and the
table is safe from it. That is why a write that was cut short, whose record the engine
takes for missing, does no harm. For the outputs, `Holds` follows an output from the attempt that
set it, through the map that is being stored, to the record of the step.

`DAGProofs` holds for any finite set of steps and any dependency lists.

| Theorem | States |
|---|---|
| `TypeCorrect` | `Spec => []TypeOK` |
| `Sound` | `Spec => []IInv` |
| `LoopIsRight` | `Spec => []KahnInv` |
| `OrderIsTopological` | `Spec => []ReadyIsTopological` |
| `RejectedForACycle` | `Spec => []CycleIsReal` |
| `OrderIsLeast` | `Spec => []LeastOrder` |
| `OneOrder` | `Spec => []SortIsDeterministic` |
| `AcceptedIsAcyclic` | `Spec => []ReadyIsAcyclic` |
| `LoopsRunOut` | `Spec => BuildRunsOut` |

The argument. `Kahn` is the invariant of the loop at dag.go:59-73. A degree counts places in a
list, not steps, and `MentionsAre` says that emitting a step takes as many off as the list names it;
so a degree stays a natural number, and passes zero on the way exactly when the last of a
step's dependencies is sorted. Then the queue is the set of the steps that are free
(`QueueIsFree`), from which `EmitKahn` has both the order and the choice of the least (`Greedy`). At the end the
queue is empty, and a count tells a finished sort from a cycle: the sorted steps
are distinct (`LenIsCardinality`), and of those left each waits for another. With `OrderIsTopological` what
`EngineProofs` assumes of `Order` is not taken on trust: the one is about the
dependency lists, the other about the sets of their elements.

`OneOrder` is why `Order` can be a constant of `Engine` and the same for all its processes: two orders in
which each step is the least that is free agree at the first place where they could
differ (`LeastIsUnique`), and what `TopoSort` returns is such an order, so it is
a function of the registry. `AcceptedIsAcyclic` is the converse of `RejectedForACycle`: of steps that wait for
each other the first in the order would have nothing to wait for. `LoopsRunOut` counts what is `Left`,
two iterations for each step and three more; it is what `BuildReturns` has besides fairness.

`DynamoStoreProofs` holds for any number of clients, keys, values and sends.

| Theorem | States | Premise |
|---|---|---|
| `TypeCorrect` | `Spec => []TypeOK` | |
| `Sound` | `Spec => []IInv` | |
| `Implements` | `Spec => ImplementsConfigStore` | reads are up to date |
| `SkipsSafely` | `Spec => SkippedWriteIsStored` | reads are up to date |
| `SetIsAtomic` | `Spec /\ []Apart => []DoneIsStored /\ ChangedOnce` | reads are up to date, no late copies |

The argument. `Course` relates where a call stands, how often its write was sent, which copies are
under way, and whether one was carried out (`took`). Then every step of the table or of a client is
a step of `ConfigStore` or a stutter: each copy of a write that is carried out is a `Write`, one of a call
that has returned a `WriteLate`, and a Set that finds its value in place writes at the moment of
its read (dynamo.go:91-98). That is where the premise comes in: GetItem is called without ConsistentRead,
and `stale_read` shows what a Set may then report.

`SetIsAtomic` says when `Engine`, `Targets` and `PlatformSetup` may take a Set for one step, as
they do. `Apart` says that no two calls write the same key at a time. Under it the table
changes at most once in a call, however often the SDK sends the write, and a Set that
answers ok has its value in the table. Without it a repeated copy, and without the other premise one of a call that has
returned, may undo another process's Set. `ConfigStore` allows that and the three modules do not
have it: for two `resume`s of one run, or the commands of two targets that write one global key, what
they show holds as far as the requests of the two do not cross.

`PlatformSetupProofs` holds under `SetupAssumption` alone: any set of runs, any
versions of the module, any failures, with or without lost outputs, dry runs included.

| Theorem | States |
|---|---|
| `TypeCorrect` | `Spec => []TypeOK` |
| `ArnsAreReal` | `Spec => []StoredIsReal` |
| `RecordsAreInPlace` | `Spec => []RecordedIsInPlace` |
| `SucceededMeansComplete` | `Spec => []SucceededIsComplete` |
| `LatestIsAppliedWhenClean` | `Spec => [](Clean => LatestIsApplied)` |
| `DryRunsAreContained` | `Spec => DryRunIsContained` |

The argument. `TypeOK` needs to know that a command that is at a step has a run and an
index into `Order` (`Placed`). `StoredIsReal` is not inductive: a call that stores an ARN
says nothing of what the ARN names. `CallSound` adds what the calls before it left (at
`StoreAdminARN` the role is full, at `StoreGitHubARN` the provider is stored); the rest
follows because nothing in AWS or in the store goes away (`NothingLost`).
`RecordedIsInPlace` is only claimed of a `Clean` history, and needs three more facts,
together `LevelInv`. `Level` says that the saved plan leads to the module on disk, that
`plan_has_changes = "false"` and `applied = "true"` both mean the module is in place, and
(`AttemptSound`) that the output and the place of an attempt tell what it has done so
far. `Traces` says that a run leaves nothing before it has begun, so that an edit of the module,
which makes a history clean again only if no run ever began, finds nothing to
invalidate. Without dry runs and edits no effect goes away (`Lasts`, `EffectsLast`). TLC finds
that the premise is needed: `stale_plan`.

`SucceededMeansComplete` is what an operator reads into SUCCEEDED: all nine steps are recorded and, if
the history is `Clean`, organisation, policies, roles, provider and infrastructure are what the steps
describe. `Passed` carries it: a command has the records of all steps before the one it
is at, and a run's meta says SUCCEEDED only when every step is recorded. `LatestIsAppliedWhenClean` follows; it bounds
what `stale_plan` refutes. `DryRunsAreContained` says what a dry run can reach (README.md:41):
`DryPlaces` has the only calls it comes to, those of write_oidc_outputs, so that it changes
nothing in AWS or in terraform's files, and of the keys only the target project's.

`CollectorProofs` holds under `CollectorAssumption`: any number of commands, inputs and
values, and whatever another tool stores or deletes. None has a premise: the
exceptions stand in the properties.

| Theorem | States |
|---|---|
| `TypeCorrect` | `Spec => []TypeOK` |
| `Sound` | `Spec => []IInv` |
| `SuccessIsReal` | `Spec => []SuccessMeansCollected` |
| `BatchInventsNothing` | `Spec => NothingInvented` |
| `GoodIsKept` | `Spec => GoodStaysGood` |
| `QuestionsRunOut` | `Spec => CollectionMovesOn` |

The argument. Success speaks of the past, so the invariant follows what a collection
carries: `Traced` says where its default and its answer come from (a spec, or what it has seen in the
store), `Filled` that the answer is acceptable and every input it has passed has been met. `Kinds` sorts
the actions by what they do to the collection (settle the input, end, ask, prompt, hold an answer),
so that neither needs one case per action. A step of another command or tool only
adds to what has been seen. A "" is carried as what it is: `Filled` and `Met` let it through only for
a batch collection that has seen it in the store, so that interactive collections keep the full claim.

`QuestionsRunOut` is the part of `BatchEnds` and `InteractiveEnds` that needs no fairness. `Ahead` counts four steps for
each input left and those left of the one at hand. Every step of the program lowers it or ends the
collection, signals and other commands leave it, and only a refused answer adds to it.

`CommandsProofs` has no premise beyond `Commands`' assumptions: any number of processes,
targets, runs and steps, with any losses and kills.

| Theorem | States |
|---|---|
| `TypeCorrect` | `Spec => []TypeOK` |
| `Sound` | `Spec => []IInv` |
| `ZeroIsTrue` | `Spec => []ZeroIsComplete` |
| `HandOverIsRight` | `Spec => []HandedOverWhenComplete` |
| `PointerIsRecorded` | `Spec => []LastIsRecorded` |

The argument. What a command has passed (`Passes`) and handed over (`Handed`) is carried along its program
counter (`Placed`); `worked` only grows, so no other process can take it back, and a record is only
written for a step that somebody carried out (`Recorded`). `Recorded` also has the moment between the two Sets of
SaveRunMeta, without which the pointer's truth is not inductive.

`TargetsProofs` holds for any number of targets and processes. All but `TypeCorrect`
assume `RolesApart`: targets name roles of their own, none of them an admin role's. Targets that
keep the default name violate it, and then `OwnRoleExists` is false (section 3).

| Theorem | States |
|---|---|
| `TypeCorrect` | `Spec => []TypeOK` |
| `Sound` | `Spec => []IInv` |
| `ArnsAreRight` | `Spec => []ArnsNameRoles` |
| `RolesAreOwn` | `Spec => []OwnRoleExists` |
| `OutputsAreOwn` | `Spec => []OutputIsOwn` |

The argument. `Held` says what a name or an ARN in the hand of a command denotes, `Kept` what the ones in the
store do. A role, its trust and its policy never go away (`Grows`), so both survive
the steps of others; `RolesApart` makes the role CreateRole finds the target's own.

Some properties are stated for the theorems alone and no run checks them: `AttemptsLimited` and
`EveryChangeDescends`, `SucceededIsComplete`, `DryRunIsContained`, `DoneIsStored` and
`ChangedOnce`, `SortIsDeterministic` and `ReadyIsAcyclic`, and what the loops of `DAG` and `Collector` descend. They were
checked by TLC on the instances of section 3 before they were proved (`SortIsDeterministic` against the sequences of
up to four steps).

Only model-checked: all liveness (`Terminates`, `ResumeCompletes`, `BuildReturns`,
`CompletesUnlessWedged`, `BatchEnds`, `InteractiveEnds`), which is out of the prover's reach together with
ENABLED. Of `Terminates`, `BuildReturns`, `BatchEnds` and `InteractiveEnds` the part that
does not depend on fairness is proved, as said above; that fairness then leads to the end is induction over the
descent, which TLC checks. Every other property of a passing run is stated by a theorem.

## 6. Not modelled

Display commands (they read and format), logging, configuration and the process runner
(no state, or one call). `VerifyRootStep` is not registered in the pipeline. Rollback is
never called. The prompters' `Confirm` and `Gate` are not called by the program. Of inputs, `Collector` has
whether a value is empty and passes its check, `Targets` which role name it is, and
the others only whether reading one fails. Partial effects of `terraform apply`: its failure in the middle leaves
the same stale plan as its unrecorded success. Sessions of an assumed role that expire.

## 7. Plan

Done: all modules of section 2, and a theorem for every safety property of a passing run. Left, in this order:

1. The descent of a `PlatformSetup` run, as `CommandsRunOut` has it for `Engine`: what of `CompletesUnlessWedged` needs no fairness.
2. `Targets` and `Engine` over `ConfigStore` instead of an atomic Set, for keys that two processes write at once.
3. `PlatformSetup` for two commands at a time.
