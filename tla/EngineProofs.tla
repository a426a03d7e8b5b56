----------------------------- MODULE EngineProofs -----------------------------
(***************************************************************************)
(* Proofs about Engine for every pipeline, every set of runs and every     *)
(* number of processes, with store failures, crashes and signals.          *)
(***************************************************************************)
EXTENDS Engine, TLAPS

-------------------------------------------------------------------------------
(* Type correctness *)

\* A process that is not there, and one that begins, are engines.
LEMMA BeginType ==
    /\ Idle \in Engines
    /\ \A pc \in PC, r \in Runs, dry \in BOOLEAN : Begin(pc, r, dry) \in Engines
<1>1. Len(Order) \in Nat BY OrderAssumption
<1>2. 1 \in 1..(Len(Order) + 1) BY <1>1
<1>. QED BY <1>2 DEF Idle, Begin, Nothing, Engines, PC, Status

\* A process that moves to another pc, or on to the next step, is an engine.
LEMMA MoveType ==
    ASSUME NEW p \in Procs, eng[p] \in Engines
    PROVE  /\ \A pc \in PC : At(p, pc) \in Engines
           /\ eng[p].idx <= Len(Order) => NextStep(p) \in Engines
<1>1. Len(Order) \in Nat BY OrderAssumption
<1>2. ASSUME NEW pc \in PC PROVE At(p, pc) \in Engines
    BY <1>2 DEF At, Engines
<1>3. ASSUME eng[p].idx <= Len(Order) PROVE NextStep(p) \in Engines
    <2>1. eng[p].idx + 1 \in 1..(Len(Order) + 1) BY <1>1, <1>3 DEF Engines
    <2>. QED BY <2>1 DEF NextStep, Engines, PC
<1>. QED BY <1>2, <1>3

\* A Set that would leave a table and an engine leaves them, whatever it answers.
LEMMA SetType ==
    ASSUME TypeOK, NEW p \in Procs, NEW from, NEW new \in Tables, NEW a,
           NEW next \in Engines, Set(p, from, new, a, next)
    PROVE  TypeOK'
<1>1. [next EXCEPT !.ctxDone = TRUE] \in Engines BY DEF Engines
<1>2. db' \in Tables BY DEF Set, TypeOK
<1>3. eng' \in [Procs -> Engines] BY <1>1 DEF Set, TypeOK
<1>. QED BY <1>2, <1>3 DEF Set, TypeOK

\* A local step that would leave an engine leaves one.
LEMMA LocalType ==
    ASSUME TypeOK, NEW p \in Procs, NEW from, NEW next \in Engines,
           Local(p, from, next)
    PROVE  TypeOK'
BY DEF Local, TypeOK

\* The contents the engine stores are tables.
LEMMA TableType ==
    ASSUME TypeOK, NEW p \in Procs, eng[p].run \in Runs
    PROVE  /\ \A s \in Steps, st \in Status : StepState(p, s, st) \in Tables
           /\ \A st \in {"running", "succeeded", "failed"} :
                 RunMeta(p, st) \in Tables
           /\ LastRunID(p) \in Tables
           /\ \A k \in Keys : [db EXCEPT !.out[k] = eng[p].run] \in Tables
<1>. USE DEF TypeOK, Tables
<1>1. ASSUME NEW s \in Steps, NEW st \in Status
      PROVE  StepState(p, s, st) \in Tables
    BY <1>1 DEF StepState
<1>2. ASSUME NEW st \in {"running", "succeeded", "failed"}
      PROVE  RunMeta(p, st) \in Tables
    BY <1>2 DEF RunMeta
<1>3. LastRunID(p) \in Tables BY DEF LastRunID
<1>4. ASSUME NEW k \in Keys PROVE [db EXCEPT !.out[k] = eng[p].run] \in Tables
    BY <1>4
<1>. QED BY <1>1, <1>2, <1>3, <1>4

-------------------------------------------------------------------------------
(* Every step keeps every process placed *)

\* Moves between the places of a step, from one step on, and out of the way.
LEMMA MovePlaced ==
    ASSUME TypeInv, NEW p \in Procs, eng[p].pc \in AtStep
    PROVE  /\ \A pc \in AtStep : At(p, pc) \in Engines /\ Placed(At(p, pc))
           /\ NextStep(p) \in Engines /\ Placed(NextStep(p))
           /\ Idle \in Engines /\ Placed(Idle)
           /\ eng[p].run \in Runs
           /\ Cur(p) \in Steps
<1>1. Len(Order) \in Nat /\ \A i \in 1..Len(Order) : Order[i] \in Steps
    BY OrderAssumption
<1>2. eng[p] \in Engines /\ Placed(eng[p]) BY DEF TypeInv, TypeOK
<1>3. eng[p].run \in Runs /\ eng[p].idx \in 1..Len(Order)
    BY <1>1, <1>2 DEF Placed, AtStep, Engines
<1>4. ASSUME NEW pc \in AtStep PROVE At(p, pc) \in Engines /\ Placed(At(p, pc))
    <2>1. pc \in PC /\ pc \notin AtEnd BY DEF AtStep, AtEnd, PC
    <2>2. At(p, pc).pc = pc /\ At(p, pc).run = eng[p].run
          /\ At(p, pc).idx = eng[p].idx
        BY <1>2 DEF At, Engines
    <2>. QED BY <1>2, <1>3, <2>1, <2>2, MoveType DEF Placed
<1>5. NextStep(p) \in Engines /\ Placed(NextStep(p))
    <2>1. /\ NextStep(p).run = eng[p].run
          /\ NextStep(p).idx = eng[p].idx + 1
          /\ NextStep(p).pc = IF eng[p].idx < Len(Order) THEN "step"
                                                         ELSE "finish_meta"
        BY <1>2 DEF NextStep, Engines
    <2>2. NextStep(p) \in Engines BY <1>2, <1>3, MoveType
    <2>. QED BY <1>1, <1>3, <2>1, <2>2 DEF Placed, AtStep, AtEnd
<1>6. Placed(Idle) BY DEF Placed, Idle, AtStep, AtEnd
<1>. QED BY <1>1, <1>3, <1>4, <1>5, <1>6, BeginType DEF Cur

\* A Set and a local step keep TypeInv if what they go on with is placed.
LEMMA SetPlaced ==
    ASSUME TypeInv, NEW p \in Procs, NEW from, NEW new \in Tables, NEW a,
           NEW next \in Engines, Placed(next), Set(p, from, new, a, next)
    PROVE  TypeInv'
<1>1. TypeOK' BY SetType DEF TypeInv
<1>2. Placed([next EXCEPT !.ctxDone = TRUE]) BY DEF Placed, Engines
<1>3. \A q \in Procs : Placed(eng'[q]) BY <1>2 DEF Set, TypeInv, TypeOK
<1>. QED BY <1>1, <1>3 DEF TypeInv

LEMMA LocalPlaced ==
    ASSUME TypeInv, NEW p \in Procs, NEW from, NEW next \in Engines,
           Placed(next), Local(p, from, next)
    PROVE  TypeInv'
<1>1. TypeOK' BY LocalType DEF TypeInv
<1>2. \A q \in Procs : Placed(eng'[q]) BY DEF Local, TypeInv, TypeOK
<1>. QED BY <1>1, <1>2 DEF TypeInv

\* The writes.
LEMMA SavePlaced ==
    ASSUME TypeInv, NEW p \in Procs, NEW a, Save(p, a)
    PROVE  TypeInv'
<1>1. eng[p] \in Engines /\ Placed(eng[p]) /\ TypeOK BY DEF TypeInv, TypeOK
<1>2. Idle \in Engines /\ Placed(Idle)
    BY BeginType DEF Placed, Idle, AtStep, AtEnd
<1>3. eng[p].pc \in AtStep \cup AtEnd
    BY DEF Save, SaveInitMeta, SaveInitLast, ResetInterrupted,
           SaveResolveFailure, SaveSkipped, SaveRunning, SaveRan, PersistOutput,
           SaveSucceeded, SaveFailed, SaveFailMeta, SaveFailLast,
           SaveFinishMeta, SaveFinishLast, Set, AtStep, AtEnd
<1>4. eng[p].run \in Runs BY <1>1, <1>3 DEF Placed, AtStep, AtEnd
<1>5. CASE SaveInitMeta(p, a)
    <2>1. eng[p].pc \in AtStep BY <1>5 DEF SaveInitMeta, Set, AtStep
    <2>. QED BY <1>1, <1>4, <1>5, <2>1, MovePlaced, TableType, SetPlaced
             DEF SaveInitMeta, AtStep
<1>6. CASE SaveInitLast(p, a)
    <2>1. eng[p].pc \in AtStep BY <1>6 DEF SaveInitLast, Set, AtStep
    <2>. QED BY <1>1, <1>4, <1>6, <2>1, MovePlaced, TableType, SetPlaced
             DEF SaveInitLast, AtStep
<1>7. ASSUME NEW s \in Steps, ResetInterrupted(p, s, a) PROVE TypeInv'
    <2> DEFINE next == [eng[p] EXCEPT !.existing[s] = "failed", !.todo = @ \ {s}]
    <2>1. next \in Engines BY <1>1 DEF Engines, Status
    <2>2. next.pc = eng[p].pc /\ next.run = eng[p].run /\ next.idx = eng[p].idx
        BY <1>1 DEF Engines
    <2>3. Placed(next) BY <1>1, <2>2 DEF Placed
    <2>4. Set(p, "reset", StepState(p, s, "failed"), a, next)
        BY <1>7 DEF ResetInterrupted
    <2>5. StepState(p, s, "failed") \in Tables BY <1>1, <1>4, TableType DEF Status
    <2>. HIDE DEF next
    <2>. QED BY <2>1, <2>3, <2>4, <2>5, SetPlaced
<1>8. CASE SaveResolveFailure(p, a)
    <2>1. eng[p].pc \in AtStep BY <1>8 DEF SaveResolveFailure, Set, AtStep
    <2>. QED BY <1>1, <1>4, <1>8, <2>1, MovePlaced, TableType, SetPlaced
             DEF SaveResolveFailure, AtStep, Status
<1>9. CASE SaveSkipped(p, a)
    <2>1. eng[p].pc \in AtStep BY <1>9 DEF SaveSkipped, Set, AtStep
    <2>. QED BY <1>1, <1>4, <1>9, <2>1, MovePlaced, TableType, SetPlaced
             DEF SaveSkipped, AtStep, Status
<1>10. CASE SaveRunning(p, a)
    <2> DEFINE running == [eng[p] EXCEPT !.pc = "run", !.attempt = 1]
    <2>1. eng[p].pc \in AtStep BY <1>10 DEF SaveRunning, Set, AtStep
    <2>2. running \in Engines BY <1>1 DEF Engines, PC
    <2>3. running.pc = "run" /\ running.run = eng[p].run
          /\ running.idx = eng[p].idx
        BY <1>1 DEF Engines
    <2>4. Placed(running) BY <1>1, <2>1, <2>3 DEF Placed, AtStep, AtEnd
    <2>. HIDE DEF running
    <2>5. Set(p, "save_running", StepState(p, Cur(p), "running"), a,
              IF a = "ok" THEN running ELSE Idle)
        BY <1>10 DEF SaveRunning, running
    <2>6. StepState(p, Cur(p), "running") \in Tables
        BY <1>1, <1>4, <2>1, MovePlaced, TableType DEF Status
    <2>. QED BY <1>2, <2>2, <2>4, <2>5, <2>6, SetPlaced
<1>11. CASE SaveRan(p, a)
    <2>1. eng[p].pc \in AtStep BY <1>11 DEF SaveRan, Set, AtStep
    <2>. QED BY <1>1, <1>4, <1>11, <2>1, MovePlaced, TableType, SetPlaced
             DEF SaveRan, AtStep, Status
<1>12. ASSUME NEW k \in Keys, PersistOutput(p, k, a) PROVE TypeInv'
    <2> DEFINE next == [eng[p] EXCEPT !.todo = @ \ {k}]
    <2>1. next \in Engines BY <1>1 DEF Engines
    <2>2. next.pc = eng[p].pc /\ next.run = eng[p].run /\ next.idx = eng[p].idx
        BY <1>1 DEF Engines
    <2>3. Placed(next) BY <1>1, <2>2 DEF Placed
    <2>4. Set(p, "outputs", [db EXCEPT !.out[k] = eng[p].run], a, next)
        BY <1>12 DEF PersistOutput
    <2>5. [db EXCEPT !.out[k] = eng[p].run] \in Tables BY <1>1, <1>4, TableType
    <2>. HIDE DEF next
    <2>. QED BY <2>1, <2>3, <2>4, <2>5, SetPlaced
<1>13. CASE SaveSucceeded(p, a)
    <2>1. eng[p].pc \in AtStep BY <1>13 DEF SaveSucceeded, Set, AtStep
    <2>. QED BY <1>1, <1>4, <1>13, <2>1, MovePlaced, TableType, SetPlaced
             DEF SaveSucceeded, AtStep, Status
<1>14. CASE SaveFailed(p, a)
    <2>1. eng[p].pc \in AtStep BY <1>14 DEF SaveFailed, Set, AtStep
    <2>. QED BY <1>1, <1>4, <1>14, <2>1, MovePlaced, TableType, SetPlaced
             DEF SaveFailed, AtStep, Status
<1>15. CASE SaveFailMeta(p, a)
    <2>1. eng[p].pc \in AtStep BY <1>15 DEF SaveFailMeta, Set, AtStep
    <2>. QED BY <1>1, <1>4, <1>15, <2>1, MovePlaced, TableType, SetPlaced
             DEF SaveFailMeta, AtStep, Status
<1>16. CASE SaveFailLast(p, a)
    <2>1. eng[p].pc \in AtStep BY <1>16 DEF SaveFailLast, Set, AtStep
    <2>. QED BY <1>1, <1>4, <1>16, <2>1, MovePlaced, TableType, SetPlaced
             DEF SaveFailLast, AtStep, Status
<1>17. CASE SaveFinishMeta(p, a)
    <2>1. eng[p].pc = "finish_meta" BY <1>17 DEF SaveFinishMeta, Set
    <2>2. At(p, "finish_last") \in Engines BY <1>1, MoveType DEF PC
    <2>3. /\ At(p, "finish_last").pc = "finish_last"
          /\ At(p, "finish_last").run = eng[p].run
          /\ At(p, "finish_last").idx = eng[p].idx
        BY <1>1 DEF At, Engines
    <2>4. Placed(At(p, "finish_last"))
        BY <1>1, <1>4, <2>1, <2>3 DEF Placed, AtStep, AtEnd
    <2>. QED BY <1>1, <1>2, <1>4, <1>17, <2>2, <2>4, TableType, SetPlaced
             DEF SaveFinishMeta
<1>18. CASE SaveFinishLast(p, a)
    BY <1>1, <1>2, <1>4, <1>18, TableType, SetPlaced DEF SaveFinishLast
<1>. QED BY <1>5, <1>6, <1>7, <1>8, <1>9, <1>10, <1>11, <1>12, <1>13,
             <1>14, <1>15, <1>16, <1>17, <1>18 DEF Save

\* The steps of the process that leave the store alone.
LEMMA LocalStepPlaced ==
    ASSUME TypeInv, NEW p \in Procs,
           \/ LoadStates(p)
           \/ LoadFails(p)
           \/ ResetDone(p)
           \/ SkipRecorded(p)
           \/ Resolve(p)
           \/ ResolveFails(p)
           \/ FoundDone(p)
           \/ FoundNotDone(p)
           \/ BackoffElapses(p)
           \/ BackoffCancelled(p)
           \/ OutputsPersisted(p)
    PROVE  TypeInv'
<1>1. eng[p] \in Engines /\ Placed(eng[p]) /\ TypeOK BY DEF TypeInv, TypeOK
<1>2. eng[p].pc \in AtStep
    BY DEF LoadStates, LoadFails, ResetDone, SkipRecorded, Resolve,
           ResolveFails, FoundDone, FoundNotDone, BackoffElapses,
           BackoffCancelled, OutputsPersisted, Local, AtStep
<1>3. CASE LoadStates(p)
    <2>. PICK page \in Pages :
             Local(p, "load",
                   [eng[p] EXCEPT !.pc = "reset",
                      !.existing = Found(eng[p].run, page),
                      !.todo = {s \in Steps :
                                   Found(eng[p].run, page)[s] = "running"}])
        BY <1>3 DEF LoadStates
    <2> DEFINE found == Found(eng[p].run, page)
               next  == [eng[p] EXCEPT !.pc = "reset", !.existing = found,
                           !.todo = {s \in Steps : found[s] = "running"}]
    <2>1. found \in [Steps -> Status] BY <1>1, <1>2, MovePlaced DEF TypeOK, Tables, Found, Status
    <2>2. next \in Engines BY <1>1, <2>1 DEF Engines, PC
    <2>3. next.pc = "reset" /\ next.run = eng[p].run /\ next.idx = eng[p].idx
        BY <1>1 DEF Engines
    <2>4. Placed(next) BY <1>1, <1>2, <2>3 DEF Placed, AtStep, AtEnd
    <2>5. Local(p, "load", next) OBVIOUS
    <2>. HIDE DEF next
    <2>. QED BY <2>2, <2>4, <2>5, LocalPlaced
<1>4. CASE BackoffElapses(p)
    <2> DEFINE next == [eng[p] EXCEPT !.pc = "run", !.attempt = @ + 1]
    <2>1. next \in Engines
        <3>1. eng[p].attempt + 1 \in Nat BY <1>1 DEF Engines
        <3>. QED BY <1>1, <3>1 DEF Engines, PC
    <2>2. next.pc = "run" /\ next.run = eng[p].run /\ next.idx = eng[p].idx
        BY <1>1 DEF Engines
    <2>3. Placed(next) BY <1>1, <1>2, <2>2 DEF Placed, AtStep, AtEnd
    <2>4. Local(p, "wait", next) BY <1>4 DEF BackoffElapses
    <2>. HIDE DEF next
    <2>. QED BY <2>1, <2>3, <2>4, LocalPlaced
<1>5. CASE BackoffCancelled(p)
    <2> DEFINE next == [eng[p] EXCEPT !.pc = "save_ran", !.outcome = "cancelled"]
    <2>1. next \in Engines BY <1>1 DEF Engines, PC
    <2>2. next.pc = "save_ran" /\ next.run = eng[p].run /\ next.idx = eng[p].idx
        BY <1>1 DEF Engines
    <2>3. Placed(next) BY <1>1, <1>2, <2>2 DEF Placed, AtStep, AtEnd
    <2>4. Local(p, "wait", next) BY <1>5 DEF BackoffCancelled
    <2>. HIDE DEF next
    <2>. QED BY <2>1, <2>3, <2>4, LocalPlaced
<1>6. CASE LoadFails(p)
    BY <1>2, <1>6, MovePlaced, LocalPlaced DEF LoadFails
<1>7. CASE ResetDone(p)
    BY <1>2, <1>7, MovePlaced, LocalPlaced DEF ResetDone, AtStep
<1>8. CASE SkipRecorded(p)
    BY <1>2, <1>8, MovePlaced, LocalPlaced DEF SkipRecorded
<1>9. CASE Resolve(p)
    BY <1>2, <1>9, MovePlaced, LocalPlaced DEF Resolve, AtStep
<1>10. CASE ResolveFails(p)
    BY <1>2, <1>10, MovePlaced, LocalPlaced DEF ResolveFails, AtStep
<1>11. CASE FoundDone(p)
    BY <1>2, <1>11, MovePlaced, LocalPlaced DEF FoundDone, AtStep
<1>12. CASE FoundNotDone(p)
    BY <1>2, <1>12, MovePlaced, LocalPlaced DEF FoundNotDone, AtStep
<1>13. CASE OutputsPersisted(p)
    BY <1>2, <1>13, MovePlaced, LocalPlaced DEF OutputsPersisted, AtStep
<1>. QED BY <1>3, <1>4, <1>5, <1>6, <1>7, <1>8, <1>9, <1>10, <1>11, <1>12, <1>13

\* An attempt of Run, which is the one step that touches the world.
LEMMA RunPlaced ==
    ASSUME TypeInv, NEW p \in Procs,
           RunFails(p) \/ \E set \in SUBSET Keys : RunSucceeds(p, set)
    PROVE  TypeInv'
<1>1. eng[p] \in Engines /\ Placed(eng[p]) /\ TypeOK BY DEF TypeInv, TypeOK
<1>2. eng[p].pc \in AtStep BY DEF RunFails, RunSucceeds, AtStep
<1>3. Cur(p) \in Steps BY <1>2, MovePlaced
<1>4. ASSUME NEW pc \in {"wait", "save_ran"}, NEW outcome \in {"ok", "error"},
             NEW todo \in SUBSET (Steps \cup Keys)
      PROVE  LET next == [eng[p] EXCEPT !.pc = pc, !.outcome = outcome,
                                        !.todo = todo]
             IN  next \in Engines /\ Placed(next)
    <2> DEFINE next == [eng[p] EXCEPT !.pc = pc, !.outcome = outcome,
                                      !.todo = todo]
    <2>1. next \in Engines BY <1>1 DEF Engines, PC
    <2>2. next.pc = pc /\ next.run = eng[p].run /\ next.idx = eng[p].idx
        BY <1>1 DEF Engines
    <2>. QED BY <1>1, <1>2, <2>1, <2>2 DEF Placed, AtStep, AtEnd
<1>5. ASSUME NEW set \in SUBSET Keys, RunSucceeds(p, set) PROVE TypeInv'
    <2>1. effect' \subseteq Steps BY <1>1, <1>3, <1>5 DEF RunSucceeds, TypeOK
    <2>2. eng' = [eng EXCEPT ![p] = [eng[p] EXCEPT !.pc = "save_ran",
                                        !.outcome = "ok", !.todo = set]]
        BY <1>1, <1>5 DEF RunSucceeds, TypeOK, Engines
    <2>3. \A q \in Procs : eng'[q] \in Engines /\ Placed(eng'[q])
        BY <1>1, <1>4, <2>2 DEF TypeInv, TypeOK
    <2>4. eng' \in [Procs -> Engines] BY <1>1, <2>2, <2>3 DEF TypeOK
    <2>. QED BY <1>1, <1>5, <2>1, <2>3, <2>4 DEF RunSucceeds, TypeInv, TypeOK
<1>6. CASE RunFails(p)
    <2>1. effect' \subseteq Steps BY <1>1, <1>3, <1>6 DEF RunFails, TypeOK
    <2>2. PICK pc \in {"wait", "save_ran"} :
             eng' = [eng EXCEPT ![p] = [eng[p] EXCEPT !.pc = pc,
                                 !.outcome = "error", !.todo = eng[p].todo]]
        BY <1>1, <1>6 DEF RunFails, TypeOK, Engines
    <2>3. eng[p].todo \in SUBSET (Steps \cup Keys) BY <1>1 DEF Engines
    <2> DEFINE next == [eng[p] EXCEPT !.pc = pc, !.outcome = "error",
                                      !.todo = eng[p].todo]
    <2>4. next \in Engines /\ Placed(next) BY <1>4, <2>3
    <2>5. \A q \in Procs : eng'[q] \in Engines /\ Placed(eng'[q])
        <3>. HIDE DEF next
        <3>1. eng' = [eng EXCEPT ![p] = next] BY <2>2 DEF next
        <3>. QED BY <1>1, <2>4, <3>1 DEF TypeInv, TypeOK
    <2>6. eng' \in [Procs -> Engines] BY <1>1, <2>2, <2>5 DEF TypeOK
    <2>. QED BY <1>1, <1>6, <2>1, <2>5, <2>6 DEF RunFails, TypeInv, TypeOK
<1>. QED BY <1>5, <1>6

\* The commands and the environment.
LEMMA CommandPlaced ==
    ASSUME TypeInv, NEW p \in Procs, Command(p) \/ Interrupt(p)
    PROVE  TypeInv'
<1>1. eng[p] \in Engines /\ Placed(eng[p]) /\ TypeOK BY DEF TypeInv, TypeOK
<1>2. ASSUME NEW next \in Engines, Placed(next), eng' = [eng EXCEPT ![p] = next],
             db' = db, effect' = effect, started' \subseteq Runs
      PROVE  TypeInv'
    BY <1>2 DEF TypeInv, TypeOK
<1>3. ASSUME NEW r \in Runs, NEW dry \in DryRunFlags,
             StartInit(p, r, dry) \/ Resume(p, r, dry)
      PROVE  TypeInv'
    <2>1. dry \in BOOLEAN BY RunAssumption
    <2>2. PICK pc \in {"init_meta", "load"} :
             eng' = [eng EXCEPT ![p] = Begin(pc, r, dry)]
        BY <1>3 DEF StartInit, Resume
    <2>3. Begin(pc, r, dry) \in Engines BY <2>1, BeginType DEF PC
    <2>4. Begin(pc, r, dry).pc = pc /\ Begin(pc, r, dry).run = r
          /\ Begin(pc, r, dry).idx = 1
        BY DEF Begin, Idle
    <2>5. 1 <= Len(Order) BY OrderAssumption
    <2>6. Placed(Begin(pc, r, dry)) BY <2>4, <2>5 DEF Placed, AtStep, AtEnd
    <2>. QED BY <1>1, <1>2, <1>3, <2>2, <2>3, <2>6
             DEF StartInit, Resume, TypeOK
<1>4. CASE Signal(p)
    <2> DEFINE next == [eng[p] EXCEPT !.ctxDone = TRUE]
    <2>1. next \in Engines BY <1>1 DEF Engines
    <2>2. next.pc = eng[p].pc /\ next.run = eng[p].run /\ next.idx = eng[p].idx
        BY <1>1 DEF Engines
    <2>3. Placed(next) BY <1>1, <2>2 DEF Placed
    <2>4. eng' = [eng EXCEPT ![p] = next] BY <1>1, <1>4 DEF Signal, Engines
    <2>. HIDE DEF next
    <2>. QED BY <1>1, <1>2, <1>4, <2>1, <2>3, <2>4 DEF Signal, TypeOK
<1>5. CASE Kill(p)
    <2>1. Placed(Idle) BY DEF Placed, Idle, AtStep, AtEnd
    <2>. QED BY <1>1, <1>2, <1>5, <2>1, BeginType DEF Kill, TypeOK
<1>. QED BY <1>3, <1>4, <1>5 DEF Command, Interrupt

\* Every step of the specification.
LEMMA NextPlaced == TypeInv /\ [Next]_vars => TypeInv'
<1>. SUFFICES ASSUME TypeInv, [Next]_vars PROVE TypeInv'
    OBVIOUS
<1>1. CASE UNCHANGED vars
    BY <1>1 DEF vars, TypeInv, TypeOK
<1>2. ASSUME NEW p \in Procs, Proceed(p) PROVE TypeInv'
    BY <1>2, SavePlaced, LocalStepPlaced, RunPlaced DEF Proceed
<1>3. ASSUME NEW p \in Procs, Fault(p) PROVE TypeInv'
    BY <1>3, SavePlaced, LocalStepPlaced, RunPlaced DEF Fault
<1>. QED BY <1>1, <1>2, <1>3, CommandPlaced DEF Next

LEMMA InitPlaced == Init => TypeInv
<1>1. Placed(Idle) BY DEF Placed, Idle, AtStep, AtEnd
<1>2. Nothing \in [Steps -> Status] BY DEF Nothing, Status
<1>. QED BY <1>1, <1>2, BeginType DEF Init, TypeInv, TypeOK, Tables

\* Every variable keeps its type, dry runs, store failures, crashes and any
\* number of processes included.
THEOREM TypeCorrect == Spec => []TypeOK
<1>1. TypeInv => TypeOK BY DEF TypeInv
<1>. QED BY <1>1, InitPlaced, NextPlaced, PTL DEF Spec

-------------------------------------------------------------------------------
(* Without dry runs, nothing claims an effect that is not there *)

\* What agrees with the effects agrees with more of them.
LEMMA SoundGrows ==
    ASSUME NEW E, NEW F, E \subseteq F, F \subseteq Steps
    PROVE  /\ \A e : EngineSound(e, E) => EngineSound(e, F)
           /\ \A t : TableSound(t, E) => TableSound(t, F)
<1>1. ASSUME NEW e, EngineSound(e, E) PROVE EngineSound(e, F)
    BY <1>1 DEF EngineSound
<1>2. ASSUME NEW t, TableSound(t, E) PROVE TableSound(t, F)
    BY <1>2 DEF TableSound
<1>. QED BY <1>1, <1>2

\* A process that is not there, or begins, claims nothing.
LEMMA BeginSound ==
    ASSUME NEW E
    PROVE  /\ EngineSound(Idle, E)
           /\ \A pc \in {"init_meta", "load"}, r \in Runs :
                 EngineSound(Begin(pc, r, FALSE), E)
<1>1. ASSUME NEW e, e.dry = FALSE, e.existing = Nothing, e.idx = 1,
             e.pc \in {"idle", "init_meta", "load"}
      PROVE  EngineSound(e, E)
    BY <1>1 DEF EngineSound, Nothing, Carried, AtEnd, Done
<1>2. EngineSound(Idle, E) BY <1>1 DEF Idle
<1>3. ASSUME NEW pc \in {"init_meta", "load"}, NEW r \in Runs
      PROVE  EngineSound(Begin(pc, r, FALSE), E)
    <2>1. /\ Begin(pc, r, FALSE).dry = FALSE
          /\ Begin(pc, r, FALSE).existing = Nothing
          /\ Begin(pc, r, FALSE).idx = 1
          /\ Begin(pc, r, FALSE).pc = pc
        BY DEF Begin, Idle
    <2>. QED BY <1>1, <2>1
<1>. QED BY <1>2, <1>3

\* A move that claims nothing new, and the move past a step that is in effect.
LEMMA MoveSound ==
    ASSUME IInv, NEW p \in Procs
    PROVE  /\ \A pc \in AtStep :
                 pc \notin {"save_skipped", "save_ran", "outputs",
                           "save_succeeded"}
                     => EngineSound(At(p, pc), effect)
           /\ eng[p].pc \in AtStep /\ Cur(p) \in effect
                 => EngineSound(NextStep(p), effect)
<1>1. eng[p] \in Engines /\ Placed(eng[p]) /\ EngineSound(eng[p], effect)
      /\ effect \subseteq Steps
    BY DEF IInv, TypeInv, TypeOK
<1>2. ASSUME NEW pc \in AtStep,
             pc \notin {"save_skipped", "save_ran", "outputs", "save_succeeded"}
      PROVE  EngineSound(At(p, pc), effect)
    <2>1. /\ At(p, pc).pc = pc
          /\ At(p, pc).dry = eng[p].dry
          /\ At(p, pc).existing = eng[p].existing
          /\ At(p, pc).idx = eng[p].idx
        BY <1>1 DEF At, Engines
    <2>. QED BY <1>1, <1>2, <2>1 DEF EngineSound, Carried, AtStep, AtEnd
<1>3. ASSUME eng[p].pc \in AtStep, Cur(p) \in effect
      PROVE  EngineSound(NextStep(p), effect)
    <2>1. Len(Order) \in Nat
          /\ \A s \in Steps : \E i \in 1..Len(Order) : Order[i] = s
        BY OrderAssumption
    <2>2. /\ NextStep(p).dry = eng[p].dry
          /\ NextStep(p).existing = eng[p].existing
          /\ NextStep(p).idx = eng[p].idx + 1
          /\ NextStep(p).pc = IF eng[p].idx < Len(Order) THEN "step"
                                                         ELSE "finish_meta"
        BY <1>1 DEF NextStep, Engines
    <2>3. eng[p].idx \in 1..Len(Order)
        BY <1>1, <1>3, <2>1 DEF Placed, Engines, AtStep
    <2>4. \A i \in 1..(NextStep(p).idx - 1) : Order[i] \in effect
        BY <1>1, <1>3, <2>1, <2>2, <2>3 DEF EngineSound, Cur
    <2>5. NextStep(p).pc \in AtEnd => effect = Steps
        <3>. SUFFICES ASSUME NextStep(p).pc \in AtEnd PROVE Steps \subseteq effect
            BY <1>1
        <3>1. eng[p].idx = Len(Order) BY <2>1, <2>2, <2>3 DEF AtEnd
        <3>2. NextStep(p).idx - 1 = Len(Order) BY <2>1, <2>2, <3>1
        <3>. QED BY <2>1, <2>4, <3>2
    <2>. QED BY <1>1, <2>2, <2>4, <2>5 DEF EngineSound, Carried
<1>. QED BY <1>2, <1>3

\* A Set keeps the invariant if what it stores and what it goes on with agree
\* with the effects.
LEMMA SetSound ==
    ASSUME IInv, TypeInv', NEW p \in Procs, NEW from, NEW new, NEW a,
           NEW next \in Engines, Set(p, from, new, a, next),
           TableSound(new, effect), EngineSound(next, effect)
    PROVE  IInv'
<1>1. EngineSound([next EXCEPT !.ctxDone = TRUE], effect)
    <2> DEFINE n == [next EXCEPT !.ctxDone = TRUE]
    <2>1. n.pc = next.pc /\ n.dry = next.dry /\ n.existing = next.existing
          /\ n.idx = next.idx /\ n.outcome = next.outcome
        BY DEF Engines
    <2>. QED BY <2>1 DEF EngineSound, Carried
<1>2. \A q \in Procs : EngineSound(eng'[q], effect')
    BY <1>1 DEF Set, IInv, TypeInv, TypeOK
<1>3. TableSound(db', effect') BY DEF Set, IInv
<1>. QED BY <1>2, <1>3 DEF IInv, DepsInEffect, Set

LEMMA LocalSound ==
    ASSUME IInv, TypeInv', NEW p \in Procs, NEW from, NEW next,
           Local(p, from, next), EngineSound(next, effect)
    PROVE  IInv'
<1>1. \A q \in Procs : EngineSound(eng'[q], effect')
    BY DEF Local, IInv, TypeInv, TypeOK
<1>. QED BY <1>1 DEF IInv, DepsInEffect, Local

\* A step state that does not claim an effect, or one that is there, and a run
\* meta that does not claim completion, may be stored.
LEMMA TableStaysSound ==
    ASSUME IInv, NEW p \in Procs, eng[p].run \in Runs
    PROVE  /\ \A s \in Steps, st \in Status : (st \in Done => s \in effect)
                 => TableSound(StepState(p, s, st), effect)
           /\ \A st \in {"running", "succeeded", "failed"} :
                 (st = "succeeded" => effect = Steps)
                 => TableSound(RunMeta(p, st), effect)
           /\ TableSound(LastRunID(p), effect)
           /\ \A k \in Keys : TableSound([db EXCEPT !.out[k] = eng[p].run], effect)
<1>1. TableSound(db, effect) /\ db \in Tables BY DEF IInv, TypeInv, TypeOK
<1>2. ASSUME NEW s \in Steps, NEW st \in Status, st \in Done => s \in effect
      PROVE  TableSound(StepState(p, s, st), effect)
    <2>1. StepState(p, s, st).meta = db.meta
        BY <1>1 DEF StepState, Tables
    <2>2. \A r \in Runs, t \in Steps : StepState(p, s, st).step[r][t] =
             IF r = eng[p].run /\ t = s THEN st ELSE db.step[r][t]
        BY <1>1 DEF StepState, Tables
    <2>. QED BY <1>1, <1>2, <2>1, <2>2 DEF TableSound
<1>3. ASSUME NEW st \in {"running", "succeeded", "failed"},
             st = "succeeded" => effect = Steps
      PROVE  TableSound(RunMeta(p, st), effect)
    <2>1. RunMeta(p, st).step = db.step
        BY <1>1 DEF RunMeta, Tables
    <2>2. \A r \in Runs : RunMeta(p, st).meta[r] =
             IF r = eng[p].run THEN st ELSE db.meta[r]
        BY <1>1 DEF RunMeta, Tables
    <2>. QED BY <1>1, <1>3, <2>1, <2>2 DEF TableSound
<1>4. TableSound(LastRunID(p), effect)
    <2>1. LastRunID(p).step = db.step /\ LastRunID(p).meta = db.meta
        BY <1>1 DEF LastRunID, Tables
    <2>. QED BY <1>1, <2>1 DEF TableSound
<1>5. ASSUME NEW k \in Keys
      PROVE  TableSound([db EXCEPT !.out[k] = eng[p].run], effect)
    <2> DEFINE t == [db EXCEPT !.out[k] = eng[p].run]
    <2>1. t.step = db.step /\ t.meta = db.meta BY <1>1 DEF Tables
    <2>. QED BY <1>1, <2>1 DEF TableSound
<1>. QED BY <1>2, <1>3, <1>4, <1>5

\* The writes.
LEMMA SaveSound ==
    ASSUME IInv, TypeInv', NEW p \in Procs, NEW a, Save(p, a)
    PROVE  IInv'
<1>1. /\ TypeInv /\ eng[p] \in Engines
      /\ Placed(eng[p]) /\ EngineSound(eng[p], effect)
      /\ Idle \in Engines
    BY BeginType DEF IInv, TypeInv, TypeOK
<1>2. eng[p].run \in Runs
    <2>1. eng[p].pc # "idle"
        BY DEF Save, SaveInitMeta, SaveInitLast, ResetInterrupted,
               SaveResolveFailure, SaveSkipped, SaveRunning, SaveRan,
               PersistOutput, SaveSucceeded, SaveFailed, SaveFailMeta,
               SaveFailLast, SaveFinishMeta, SaveFinishLast, Set
    <2>. QED BY <1>1, <2>1 DEF Placed
<1>3. CASE SaveInitMeta(p, a)
    BY <1>1, <1>2, <1>3, MovePlaced, MoveSound, BeginSound, TableStaysSound,
       SetSound DEF SaveInitMeta, Set, AtStep, Status, Done
<1>4. CASE SaveInitLast(p, a)
    BY <1>1, <1>2, <1>4, MovePlaced, MoveSound, BeginSound, TableStaysSound,
       SetSound DEF SaveInitLast, Set, AtStep, Status, Done
<1>5. ASSUME NEW s \in Steps, ResetInterrupted(p, s, a) PROVE IInv'
    <2> DEFINE next == [eng[p] EXCEPT !.existing[s] = "failed", !.todo = @ \ {s}]
    <2>1. next \in Engines BY <1>1 DEF Engines, Status
    <2>2. /\ next.pc = eng[p].pc /\ next.dry = eng[p].dry
          /\ next.idx = eng[p].idx /\ next.outcome = eng[p].outcome
          /\ \A t \in Steps : next.existing[t] = IF t = s THEN "failed"
                                                 ELSE eng[p].existing[t]
        BY <1>1 DEF Engines
    <2>3. EngineSound(next, effect) BY <1>1, <2>2 DEF EngineSound, Carried, Done
    <2>4. Set(p, "reset", StepState(p, s, "failed"), a, next)
        BY <1>5 DEF ResetInterrupted
    <2>5. TableSound(StepState(p, s, "failed"), effect)
        BY <1>2, TableStaysSound DEF Status, Done
    <2>. HIDE DEF next
    <2>. QED BY <2>1, <2>3, <2>4, <2>5, SetSound
<1>6. CASE SaveResolveFailure(p, a)
    BY <1>1, <1>2, <1>6, MovePlaced, MoveSound, BeginSound, TableStaysSound,
       SetSound DEF SaveResolveFailure, Set, AtStep, Status, Done
<1>7. CASE SaveSkipped(p, a)
    <2>1. eng[p].pc = "save_skipped" BY <1>7 DEF SaveSkipped, Set
    <2>2. Cur(p) \in effect BY <1>1, <2>1 DEF EngineSound, Carried, Cur
    <2>3. TableSound(StepState(p, Cur(p), "skipped"), effect)
        BY <1>1, <1>2, <2>1, <2>2, MovePlaced, TableStaysSound DEF AtStep, Status
    <2>. QED BY <1>1, <1>7, <2>1, <2>2, <2>3, MovePlaced, MoveSound, SetSound
             DEF SaveSkipped, AtStep
<1>8. CASE SaveRunning(p, a)
    <2> DEFINE running == [eng[p] EXCEPT !.pc = "run", !.attempt = 1]
    <2>1. eng[p].pc = "save_running" BY <1>8 DEF SaveRunning, Set
    <2>2. running \in Engines BY <1>1 DEF Engines, PC
    <2>3. /\ running.pc = "run" /\ running.dry = eng[p].dry
          /\ running.idx = eng[p].idx /\ running.existing = eng[p].existing
        BY <1>1 DEF Engines
    <2>4. EngineSound(running, effect) BY <1>1, <2>3 DEF EngineSound, Carried, AtEnd
    <2>. HIDE DEF running
    <2>5. Set(p, "save_running", StepState(p, Cur(p), "running"), a,
              IF a = "ok" THEN running ELSE Idle)
        BY <1>8 DEF SaveRunning, running
    <2>6. TableSound(StepState(p, Cur(p), "running"), effect)
        BY <1>1, <1>2, <2>1, MovePlaced, TableStaysSound DEF AtStep, Status, Done
    <2>. QED BY <1>1, <2>2, <2>4, <2>5, <2>6, BeginSound, SetSound
<1>9. CASE SaveRan(p, a)
    <2> DEFINE pc == IF eng[p].outcome = "ok" THEN "outputs" ELSE "save_failed"
               st == IF eng[p].outcome = "error" THEN "failed" ELSE "running"
    <2>1. eng[p].pc = "save_ran" BY <1>9 DEF SaveRan, Set
    <2>2. At(p, pc) \in Engines BY <1>1, <2>1, MovePlaced DEF AtStep
    <2>3. /\ At(p, pc).pc = pc
          /\ At(p, pc).dry = eng[p].dry
          /\ At(p, pc).existing = eng[p].existing
          /\ At(p, pc).idx = eng[p].idx
        BY <1>1 DEF At, Engines
    <2>4. EngineSound(At(p, pc), effect)
        BY <1>1, <2>1, <2>3 DEF EngineSound, Carried, AtEnd
    <2>5. TableSound(StepState(p, Cur(p), st), effect)
        BY <1>1, <1>2, <2>1, MovePlaced, TableStaysSound DEF AtStep, Status, Done
    <2>6. Set(p, "save_ran", StepState(p, Cur(p), st), a, At(p, pc))
        BY <1>9 DEF SaveRan
    <2>. QED BY <2>2, <2>4, <2>5, <2>6, SetSound
<1>10. ASSUME NEW k \in Keys, PersistOutput(p, k, a) PROVE IInv'
    <2> DEFINE next == [eng[p] EXCEPT !.todo = @ \ {k}]
    <2>1. next \in Engines BY <1>1 DEF Engines
    <2>2. /\ next.pc = eng[p].pc /\ next.dry = eng[p].dry
          /\ next.idx = eng[p].idx /\ next.outcome = eng[p].outcome
          /\ next.existing = eng[p].existing
        BY <1>1 DEF Engines
    <2>3. EngineSound(next, effect) BY <1>1, <2>2 DEF EngineSound, Carried
    <2>4. Set(p, "outputs", [db EXCEPT !.out[k] = eng[p].run], a, next)
        BY <1>10 DEF PersistOutput
    <2>5. TableSound([db EXCEPT !.out[k] = eng[p].run], effect)
        BY <1>2, TableStaysSound
    <2>. HIDE DEF next
    <2>. QED BY <2>1, <2>3, <2>4, <2>5, SetSound
<1>11. CASE SaveSucceeded(p, a)
    <2>1. eng[p].pc = "save_succeeded" BY <1>11 DEF SaveSucceeded, Set
    <2>2. Cur(p) \in effect BY <1>1, <2>1 DEF EngineSound, Carried, Cur
    <2>3. TableSound(StepState(p, Cur(p), "succeeded"), effect)
        BY <1>1, <1>2, <2>1, <2>2, MovePlaced, TableStaysSound DEF AtStep, Status
    <2>. QED BY <1>1, <1>11, <2>1, <2>2, <2>3, MovePlaced, MoveSound, SetSound
             DEF SaveSucceeded, AtStep
<1>12. CASE SaveFailed(p, a)
    BY <1>1, <1>2, <1>12, MovePlaced, MoveSound, BeginSound, TableStaysSound,
       SetSound DEF SaveFailed, Set, AtStep, Status, Done
<1>13. CASE SaveFailMeta(p, a)
    BY <1>1, <1>2, <1>13, MovePlaced, MoveSound, BeginSound, TableStaysSound,
       SetSound DEF SaveFailMeta, Set, AtStep, Status, Done
<1>14. CASE SaveFailLast(p, a)
    BY <1>1, <1>2, <1>14, MovePlaced, MoveSound, BeginSound, TableStaysSound,
       SetSound DEF SaveFailLast, Set, AtStep, Status, Done
<1>15. CASE SaveFinishMeta(p, a)
    <2>1. eng[p].pc = "finish_meta" BY <1>15 DEF SaveFinishMeta, Set
    <2>2. effect = Steps BY <1>1, <2>1 DEF EngineSound, AtEnd
    <2>3. At(p, "finish_last") \in Engines BY <1>1, MoveType DEF PC
    <2>4. /\ At(p, "finish_last").pc = "finish_last"
          /\ At(p, "finish_last").dry = eng[p].dry
          /\ At(p, "finish_last").existing = eng[p].existing
          /\ At(p, "finish_last").idx = eng[p].idx
        BY <1>1 DEF At, Engines
    <2>5. EngineSound(At(p, "finish_last"), effect)
        BY <1>1, <2>2, <2>4 DEF EngineSound, Carried
    <2>. QED BY <1>1, <1>2, <1>15, <2>2, <2>3, <2>5, BeginSound,
                TableStaysSound, SetSound DEF SaveFinishMeta
<1>16. CASE SaveFinishLast(p, a)
    BY <1>1, <1>2, <1>16, BeginSound, TableStaysSound, SetSound
       DEF SaveFinishLast
<1>. QED BY <1>3, <1>4, <1>5, <1>6, <1>7, <1>8, <1>9, <1>10, <1>11,
             <1>12, <1>13, <1>14, <1>15, <1>16 DEF Save

\* The steps of the process that leave the store alone.
LEMMA LocalStepSound ==
    ASSUME IInv, TypeInv', NEW p \in Procs,
           \/ LoadStates(p)
           \/ LoadFails(p)
           \/ ResetDone(p)
           \/ SkipRecorded(p)
           \/ Resolve(p)
           \/ ResolveFails(p)
           \/ FoundDone(p)
           \/ FoundNotDone(p)
           \/ BackoffElapses(p)
           \/ BackoffCancelled(p)
           \/ OutputsPersisted(p)
    PROVE  IInv'
<1>1. /\ TypeInv /\ TypeOK /\ eng[p] \in Engines
      /\ Placed(eng[p]) /\ EngineSound(eng[p], effect)
    BY DEF IInv, TypeInv, TypeOK
<1>2. CASE LoadStates(p)
    <2>. PICK page \in Pages :
             Local(p, "load",
                   [eng[p] EXCEPT !.pc = "reset",
                      !.existing = Found(eng[p].run, page),
                      !.todo = {s \in Steps :
                                   Found(eng[p].run, page)[s] = "running"}])
        BY <1>2 DEF LoadStates
    <2> DEFINE found == Found(eng[p].run, page)
               next  == [eng[p] EXCEPT !.pc = "reset", !.existing = found,
                           !.todo = {s \in Steps : found[s] = "running"}]
    <2>1. eng[p].run \in Runs BY <1>1, <1>2 DEF LoadStates, Local, Placed
    <2>2. \A s \in Steps : found[s] \in Done => s \in effect
        BY <2>1 DEF IInv, TableSound, Found, Done
    <2>3. /\ next.pc = "reset" /\ next.dry = eng[p].dry
          /\ next.idx = eng[p].idx /\ next.existing = found
        BY <1>1 DEF Engines
    <2>4. EngineSound(next, effect)
        BY <1>1, <2>2, <2>3 DEF EngineSound, Carried, AtEnd
    <2>5. Local(p, "load", next) OBVIOUS
    <2>. HIDE DEF next
    <2>. QED BY <2>4, <2>5, LocalSound
<1>3. CASE BackoffElapses(p)
    <2> DEFINE next == [eng[p] EXCEPT !.pc = "run", !.attempt = @ + 1]
    <2>1. /\ next.pc = "run" /\ next.dry = eng[p].dry
          /\ next.idx = eng[p].idx /\ next.existing = eng[p].existing
        BY <1>1 DEF Engines
    <2>2. EngineSound(next, effect) BY <1>1, <2>1 DEF EngineSound, Carried, AtEnd
    <2>3. Local(p, "wait", next) BY <1>3 DEF BackoffElapses
    <2>. HIDE DEF next
    <2>. QED BY <2>2, <2>3, LocalSound
<1>4. CASE BackoffCancelled(p)
    <2> DEFINE next == [eng[p] EXCEPT !.pc = "save_ran", !.outcome = "cancelled"]
    <2>1. /\ next.pc = "save_ran" /\ next.dry = eng[p].dry
          /\ next.idx = eng[p].idx /\ next.existing = eng[p].existing
          /\ next.outcome = "cancelled"
        BY <1>1 DEF Engines
    <2>2. EngineSound(next, effect) BY <1>1, <2>1 DEF EngineSound, Carried, AtEnd
    <2>3. Local(p, "wait", next) BY <1>4 DEF BackoffCancelled
    <2>. HIDE DEF next
    <2>. QED BY <2>2, <2>3, LocalSound
<1>5. CASE LoadFails(p)
    BY <1>5, BeginSound, LocalSound DEF LoadFails
<1>6. CASE SkipRecorded(p)
    <2>1. eng[p].pc \in AtStep BY <1>6 DEF SkipRecorded, AtStep
    <2>2. Cur(p) \in effect
        BY <1>1, <1>6, <2>1, MovePlaced DEF SkipRecorded, EngineSound
    <2>. QED BY <1>6, <2>1, <2>2, MoveSound, LocalSound DEF SkipRecorded
<1>7. CASE FoundDone(p)
    <2>1. /\ At(p, "save_skipped").pc = "save_skipped"
          /\ At(p, "save_skipped").dry = eng[p].dry
          /\ At(p, "save_skipped").existing = eng[p].existing
          /\ At(p, "save_skipped").idx = eng[p].idx
        BY <1>1 DEF At, Engines
    <2>2. EngineSound(At(p, "save_skipped"), effect)
        BY <1>1, <1>7, <2>1 DEF FoundDone, Cur, EngineSound, AtEnd
    <2>. QED BY <1>7, <2>2, LocalSound DEF FoundDone
<1>8. CASE OutputsPersisted(p)
    <2>1. eng[p].pc = "outputs" BY <1>8 DEF OutputsPersisted, Local
    <2>2. /\ At(p, "save_succeeded").pc = "save_succeeded"
          /\ At(p, "save_succeeded").dry = eng[p].dry
          /\ At(p, "save_succeeded").existing = eng[p].existing
          /\ At(p, "save_succeeded").idx = eng[p].idx
        BY <1>1 DEF At, Engines
    <2>3. EngineSound(At(p, "save_succeeded"), effect)
        BY <1>1, <2>1, <2>2 DEF EngineSound, Carried, AtEnd
    <2>. QED BY <1>8, <2>3, LocalSound DEF OutputsPersisted
<1>9. CASE ResetDone(p)
    BY <1>9, MoveSound, LocalSound DEF ResetDone, AtStep
<1>10. CASE Resolve(p)
    BY <1>10, MoveSound, LocalSound DEF Resolve, AtStep
<1>11. CASE ResolveFails(p)
    BY <1>11, MoveSound, LocalSound DEF ResolveFails, AtStep
<1>12. CASE FoundNotDone(p)
    BY <1>12, MoveSound, LocalSound DEF FoundNotDone, AtStep
<1>. QED BY <1>2, <1>3, <1>4, <1>5, <1>6, <1>7, <1>8, <1>9, <1>10, <1>11, <1>12

\* An attempt of Run: the effect comes after those it depends on, which the
\* process has passed.
LEMMA RunSound ==
    ASSUME IInv, TypeInv', NEW p \in Procs,
           RunFails(p) \/ \E set \in SUBSET Keys : RunSucceeds(p, set)
    PROVE  IInv'
<1>1. /\ TypeInv /\ TypeOK /\ eng[p] \in Engines
      /\ Placed(eng[p]) /\ EngineSound(eng[p], effect)
    BY DEF IInv, TypeInv, TypeOK
<1>2. eng[p].pc = "run" /\ eng[p].dry = FALSE /\ Cur(p) \in Steps
    BY <1>1, MovePlaced DEF RunFails, RunSucceeds, AtStep, EngineSound
<1>3. effect \subseteq effect' /\ effect' \subseteq effect \cup {Cur(p)}
    BY <1>2 DEF RunFails, RunSucceeds
<1>4. effect' \subseteq Steps BY DEF TypeInv, TypeOK
<1>5. DepsInEffect'
    <2>1. Deps[Cur(p)] \subseteq effect
        <3>1. eng[p].idx \in 1..Len(Order)
            BY <1>1, <1>2, OrderAssumption DEF Placed, Engines, AtStep
        <3>2. \A d \in Deps[Cur(p)] : \E j \in 1..(eng[p].idx - 1) : Order[j] = d
            BY <3>1, OrderAssumption DEF Cur
        <3>. QED BY <1>1, <3>2 DEF EngineSound
    <2>. QED BY <1>3, <2>1 DEF IInv, DepsInEffect
<1>6. TableSound(db', effect')
    BY <1>3, <1>4, SoundGrows DEF IInv, RunFails, RunSucceeds
<1>7. \A q \in Procs : EngineSound(eng[q], effect')
    BY <1>3, <1>4, SoundGrows DEF IInv
<1>8. EngineSound(eng'[p], effect')
    <2>1. /\ eng'[p].dry = eng[p].dry
          /\ eng'[p].idx = eng[p].idx
          /\ eng'[p].existing = eng[p].existing
          /\ eng'[p].pc \in {"wait", "save_ran"}
          /\ eng'[p].outcome = "ok" /\ eng'[p].pc = "save_ran"
                => \E set \in SUBSET Keys : RunSucceeds(p, set)
        BY <1>1 DEF RunFails, RunSucceeds, TypeOK, Engines
    <2>2. (\E set \in SUBSET Keys : RunSucceeds(p, set)) => Cur(p) \in effect'
        BY <1>2 DEF RunSucceeds
    <2>3. Carried(eng'[p]) => Order[eng'[p].idx] \in effect'
        BY <2>1, <2>2 DEF Carried, Cur
    <2>4. eng'[p].pc \notin AtEnd BY <2>1 DEF AtEnd
    <2>. QED BY <1>7, <2>1, <2>3, <2>4 DEF EngineSound
<1>9. \A q \in Procs : EngineSound(eng'[q], effect')
    <2>1. \A q \in Procs \ {p} : eng'[q] = eng[q]
        BY <1>1 DEF RunFails, RunSucceeds, TypeOK
    <2>. QED BY <1>7, <1>8, <2>1
<1>. QED BY <1>5, <1>6, <1>9 DEF IInv

\* The commands, none of them a dry run, and the environment.
LEMMA CommandSound ==
    ASSUME DryRunFlags = {FALSE}, IInv, TypeInv', NEW p \in Procs,
           Command(p) \/ Interrupt(p)
    PROVE  IInv'
<1>1. /\ TypeInv /\ TypeOK /\ eng[p] \in Engines /\ EngineSound(eng[p], effect)
    BY DEF IInv, TypeInv, TypeOK
<1>2. ASSUME NEW next, EngineSound(next, effect), eng' = [eng EXCEPT ![p] = next],
             db' = db, effect' = effect
      PROVE  IInv'
    BY <1>1, <1>2 DEF IInv, DepsInEffect, TypeOK
<1>3. ASSUME NEW r \in Runs, NEW dry \in DryRunFlags,
             StartInit(p, r, dry) \/ Resume(p, r, dry)
      PROVE  IInv'
    <2>1. dry = FALSE OBVIOUS
    <2>2. PICK pc \in {"init_meta", "load"} :
             eng' = [eng EXCEPT ![p] = Begin(pc, r, FALSE)]
        BY <1>3, <2>1 DEF StartInit, Resume
    <2>3. EngineSound(Begin(pc, r, FALSE), effect) BY BeginSound
    <2>. QED BY <1>2, <1>3, <2>2, <2>3 DEF StartInit, Resume
<1>4. CASE Signal(p)
    <2> DEFINE next == [eng[p] EXCEPT !.ctxDone = TRUE]
    <2>1. /\ next.pc = eng[p].pc /\ next.dry = eng[p].dry
          /\ next.existing = eng[p].existing /\ next.idx = eng[p].idx
          /\ next.outcome = eng[p].outcome
        BY <1>1 DEF Engines
    <2>2. EngineSound(next, effect) BY <1>1, <2>1 DEF EngineSound, Carried
    <2>3. eng' = [eng EXCEPT ![p] = next] BY <1>1, <1>4 DEF Signal, Engines
    <2>. HIDE DEF next
    <2>. QED BY <1>2, <1>4, <2>2, <2>3 DEF Signal
<1>5. CASE Kill(p)
    BY <1>2, <1>5, BeginSound DEF Kill
<1>. QED BY <1>3, <1>4, <1>5 DEF Command, Interrupt

LEMMA NextSound ==
    ASSUME DryRunFlags = {FALSE}
    PROVE  IInv /\ [Next]_vars => IInv'
<1>. SUFFICES ASSUME IInv, [Next]_vars PROVE IInv'
    OBVIOUS
<1>1. TypeInv' BY NextPlaced DEF IInv
<1>2. CASE UNCHANGED vars
    BY <1>1, <1>2 DEF vars, IInv, DepsInEffect
<1>3. ASSUME NEW p \in Procs, Proceed(p) PROVE IInv'
    BY <1>1, <1>3, SaveSound, LocalStepSound, RunSound DEF Proceed
<1>4. ASSUME NEW p \in Procs, Fault(p) PROVE IInv'
    BY <1>1, <1>4, SaveSound, LocalStepSound, RunSound DEF Fault
<1>. QED BY <1>1, <1>2, <1>3, <1>4, CommandSound DEF Next

LEMMA InitSound == Init => IInv
<1>. SUFFICES ASSUME Init PROVE IInv
    OBVIOUS
<1>1. \A p \in Procs : EngineSound(eng[p], effect) BY BeginSound DEF Init
<1>2. TableSound(db, effect) BY DEF Init, TableSound, Nothing, Done
<1>. QED BY <1>1, <1>2, InitPlaced DEF IInv, Init, DepsInEffect

\* The inductive invariant.
THEOREM Sound == ASSUME DryRunFlags = {FALSE} PROVE Spec => []IInv
BY InitSound, NextSound, PTL DEF Spec

\* No crash, lost write, retry or concurrent resume makes the engine record a
\* step that was never carried out (db.step against the world).
THEOREM RecordsAreTrue ==
    ASSUME DryRunFlags = {FALSE} PROVE Spec => []SucceededHasEffect
<1>1. IInv => SucceededHasEffect BY DEF IInv, TableSound, SucceededHasEffect
<1>. QED BY <1>1, Sound, PTL

\* A run recorded SUCCEEDED has the whole platform in place.
THEOREM CompletionIsTrue ==
    ASSUME DryRunFlags = {FALSE} PROVE Spec => []CompleteRunProvisioned
<1>1. IInv => CompleteRunProvisioned
    BY DEF IInv, TableSound, CompleteRunProvisioned
<1>. QED BY <1>1, Sound, PTL

\* No effect precedes one it depends on.
THEOREM DependenciesFirst ==
    ASSUME DryRunFlags = {FALSE} PROVE Spec => []DepsInEffect
<1>1. IInv => DepsInEffect BY DEF IInv
<1>. QED BY <1>1, Sound, PTL

\* A process only leaves behind steps that are in effect.
THEOREM PassedIsDone ==
    ASSUME DryRunFlags = {FALSE} PROVE Spec => []PassedStepsAreDone
<1>1. IInv => PassedStepsAreDone BY DEF IInv, EngineSound, PassedStepsAreDone
<1>. QED BY <1>1, Sound, PTL

-------------------------------------------------------------------------------
(* The engine implements Provisioning *)

\* A write leaves the world alone and touches the meta of one run at most.
LEMMA SaveTouchesOneMeta ==
    ASSUME TypeInv, NEW p \in Procs, NEW a, Save(p, a)
    PROVE  /\ effect' = effect
           /\ \E r \in Runs : \A q \in Runs \ {r} : db'.meta[q] = db.meta[q]
<1>1. db \in Tables /\ Placed(eng[p]) BY DEF TypeInv, TypeOK
<1>2. PICK from, new, next :
         /\ Set(p, from, new, a, next)
         /\ from # "idle"
         /\ \/ new = LastRunID(p)
            \/ \E k \in Keys : new = [db EXCEPT !.out[k] = eng[p].run]
            \/ \E st : new = RunMeta(p, st)
            \/ \E s, st : new = StepState(p, s, st)
    <2>1. CASE SaveInitMeta(p, a) \/ SaveFailMeta(p, a) \/ SaveFinishMeta(p, a)
        BY <2>1 DEF SaveInitMeta, SaveFailMeta, SaveFinishMeta
    <2>2. CASE SaveInitLast(p, a) \/ SaveFailLast(p, a) \/ SaveFinishLast(p, a)
        BY <2>2 DEF SaveInitLast, SaveFailLast, SaveFinishLast
    <2>3. CASE SaveResolveFailure(p, a) \/ SaveSkipped(p, a)
        BY <2>3 DEF SaveResolveFailure, SaveSkipped
    <2>4. CASE SaveRan(p, a) \/ SaveSucceeded(p, a) \/ SaveFailed(p, a)
        BY <2>4 DEF SaveRan, SaveSucceeded, SaveFailed
    <2>5. CASE \E k \in Keys : PersistOutput(p, k, a)
        BY <2>5 DEF PersistOutput
    <2>6. CASE \E s \in Steps : ResetInterrupted(p, s, a)
        BY <2>6 DEF ResetInterrupted
    <2>7. CASE SaveRunning(p, a)
        BY <2>7 DEF SaveRunning
    <2>. QED BY <2>1, <2>2, <2>3, <2>4, <2>5, <2>6, <2>7 DEF Save
<1>3. eng[p].run \in Runs BY <1>1, <1>2 DEF Set, Placed
<1>4. \A q \in Runs \ {eng[p].run} : new.meta[q] = db.meta[q]
    <2>1. CASE new = LastRunID(p) BY <1>1, <2>1 DEF LastRunID, Tables
    <2>2. CASE \E k \in Keys : new = [db EXCEPT !.out[k] = eng[p].run]
        BY <1>1, <2>2 DEF Tables
    <2>3. CASE \E st : new = RunMeta(p, st) BY <1>1, <2>3 DEF RunMeta, Tables
    <2>4. CASE \E s, st : new = StepState(p, s, st)
        BY <1>1, <2>4 DEF StepState, Tables
    <2>. QED BY <1>2, <2>1, <2>2, <2>3, <2>4
<1>. QED BY <1>2, <1>3, <1>4 DEF Set

\* A step that leaves the world alone, and the meta of all runs but one, reports
\* a run, reopens one, or is not seen by Provisioning.
LEMMA MetaStepImplements ==
    ASSUME IInv, IInv', effect' = effect, NEW r \in Runs,
           \A q \in Runs \ {r} : db'.meta[q] = db.meta[q]
    PROVE  [Abs!Next]_(Abs!vars)
<1> DEFINE complete == {q \in Runs : db.meta[q] = "succeeded"}
<1>1. CASE db'.meta[r] = "succeeded"
    <2>1. complete' = complete \cup {r} BY <1>1
    <2>2. effect = Steps BY <1>1 DEF IInv, TableSound
    <2>. QED BY <2>1, <2>2 DEF Abs!Next, Abs!Report, Abs!vars
<1>2. CASE db'.meta[r] # "succeeded"
    <2>1. complete' = complete \ {r} BY <1>2
    <2>. QED BY <2>1 DEF Abs!Next, Abs!Reopen, Abs!vars
<1>. QED BY <1>1, <1>2

\* An attempt of Run provisions the step or is not seen.
LEMMA RunImplements ==
    ASSUME IInv, IInv', NEW p \in Procs,
           RunFails(p) \/ \E set \in SUBSET Keys : RunSucceeds(p, set)
    PROVE  [Abs!Next]_(Abs!vars)
<1>1. TypeInv /\ TypeOK /\ eng[p].pc = "run"
    BY DEF IInv, TypeInv, RunFails, RunSucceeds
<1>2. Cur(p) \in Steps BY <1>1, MovePlaced DEF AtStep
<1>3. db' = db /\ (effect' = effect \/ effect' = effect \cup {Cur(p)})
    BY DEF RunFails, RunSucceeds
<1>4. CASE effect' = effect BY <1>3, <1>4 DEF Abs!vars
<1>5. CASE effect' = effect \cup {Cur(p)} /\ Cur(p) \notin effect
    <2>1. Deps[Cur(p)] \subseteq effect'
        BY <1>2, <1>5 DEF IInv, DepsInEffect
    <2>2. Cur(p) \notin Deps[Cur(p)]
        <3>1. eng[p].idx \in 1..Len(Order)
            BY <1>1, OrderAssumption
               DEF IInv, TypeInv, TypeOK, Placed, Engines, AtStep
        <3>2. SUFFICES ASSUME Cur(p) \in Deps[Cur(p)] PROVE FALSE
            OBVIOUS
        <3>3. PICK j \in 1..(eng[p].idx - 1) : Order[j] = Order[eng[p].idx]
            BY <3>1, <3>2, OrderAssumption DEF Cur
        <3>4. j \in 1..Len(Order) /\ j # eng[p].idx BY <3>1, OrderAssumption
        <3>. QED BY <3>1, <3>3, <3>4, OrderAssumption
    <2>3. Abs!Provision(Cur(p)) BY <1>3, <1>5, <2>1, <2>2 DEF Abs!Provision
    <2>. QED BY <1>2, <2>3 DEF Abs!Next
<1>. QED BY <1>3, <1>4, <1>5

LEMMA NextImplements ==
    ASSUME DryRunFlags = {FALSE}
    PROVE  IInv /\ IInv' /\ [Next]_vars => [Abs!Next]_(Abs!vars)
<1>. SUFFICES ASSUME IInv, IInv', [Next]_vars PROVE [Abs!Next]_(Abs!vars)
    OBVIOUS
<1>1. TypeInv BY DEF IInv
<1>2. CASE UNCHANGED vars BY <1>2 DEF vars, Abs!vars
<1>3. ASSUME NEW p \in Procs, NEW a, Save(p, a) PROVE [Abs!Next]_(Abs!vars)
    BY <1>1, <1>3, SaveTouchesOneMeta, MetaStepImplements
<1>4. ASSUME NEW p \in Procs,
             \/ LoadStates(p)
             \/ LoadFails(p)
             \/ ResetDone(p)
             \/ SkipRecorded(p)
             \/ Resolve(p)
             \/ ResolveFails(p)
             \/ FoundDone(p)
             \/ FoundNotDone(p)
             \/ BackoffElapses(p)
             \/ BackoffCancelled(p)
             \/ OutputsPersisted(p)
             \/ Command(p)
             \/ Interrupt(p)
      PROVE  [Abs!Next]_(Abs!vars)
    <2>1. db' = db /\ effect' = effect
        BY <1>4 DEF LoadStates, LoadFails, ResetDone, SkipRecorded, Resolve,
                    ResolveFails, FoundDone, FoundNotDone, BackoffElapses,
                    BackoffCancelled, OutputsPersisted, Local, Command,
                    StartInit, Resume, Interrupt, Signal, Kill
    <2>. QED BY <2>1 DEF Abs!vars
<1>5. ASSUME NEW p \in Procs, Proceed(p) PROVE [Abs!Next]_(Abs!vars)
    BY <1>3, <1>4, <1>5, RunImplements DEF Proceed
<1>6. ASSUME NEW p \in Procs, Fault(p) PROVE [Abs!Next]_(Abs!vars)
    BY <1>3, <1>4, <1>6, RunImplements DEF Fault
<1>. QED BY <1>2, <1>4, <1>5, <1>6 DEF Next

\* The engine, with any number of processes, crashes and store failures,
\* implements the abstract specification: effects come in dependency order and a
\* run is reported complete only when all of them are there.
THEOREM EngineImplementsProvisioning ==
    ASSUME DryRunFlags = {FALSE} PROVE Spec => ImplementsProvisioning
<1>1. Init => Abs!Init BY DEF Init, Abs!Init
<1>. QED BY <1>1, Sound, NextImplements, PTL
         DEF Spec, ImplementsProvisioning, Abs!Spec

-------------------------------------------------------------------------------
(* Every command runs out of steps *)

\* How far a process is from the end of what it does at one position.
Rank == [idle |-> 0, finish_last |-> 1, fail_last |-> 1, finish_meta |-> 2,
         fail_meta |-> 2, save_succeeded |-> 3, save_failed |-> 3, outputs |-> 4,
         save_ran |-> 5, wait |-> 6, run |-> 7, resolve_failed |-> 7,
         save_skipped |-> 7, save_running |-> 8, isdone |-> 9, step |-> 10,
         reset |-> 11, init_last |-> 11, load |-> 12, init_meta |-> 12]

\* From e to f a process comes nearer to its end: it ends, or it is further in the
\* order, or at a later attempt, or at a later place of the step, or a loop over
\* a map has less to do, or the context is cancelled.
Descends(e, f) ==
    \/ f.pc = "idle"
    \/ f.idx > e.idx
    \/ /\ f.idx = e.idx
       /\ \/ f.attempt > e.attempt
          \/ /\ f.attempt = e.attempt
             /\ \/ Rank[f.pc] < Rank[e.pc]
                \/ /\ f.pc = e.pc
                   /\ \/ f.todo \subseteq e.todo /\ f.todo # e.todo
                      \/ f.todo = e.todo /\ f.ctxDone /\ ~e.ctxDone

\* The attempts of a step are limited, those that are still to come included.
Limited(e) ==
    /\ e.pc \in {"init_meta", "init_last", "load", "reset", "step", "isdone",
                 "save_running"} => e.attempt = 0
    /\ e.idx <= Len(Order) => e.attempt <= MaxAttempts(Order[e.idx])
    /\ e.idx > Len(Order) => e.attempt = 0
    /\ e.pc = "wait" => e.attempt < MaxAttempts(Order[e.idx])

\* No step is attempted more often than its policy says (runWithRetry,
\* engine.go:343-380).
AttemptsLimited == \A p \in Procs : Limited(eng[p])

\* Whatever a process does or suffers brings it nearer to its end.  No command goes
\* on for ever, since each component of Descends has an end when Steps and Keys are
\* finite: the order and the limits of AttemptsLimited do (execute,
\* engine.go:134-194).
EveryChangeDescends ==
    [][\A p \in Procs : Active(p) /\ eng'[p] # eng[p]
                            => Descends(eng[p], eng'[p])]_vars

\* The moves within a step, before the loop and after it.
Forward == {<<"init_meta", "init_last">>, <<"init_last", "step">>,
            <<"load", "reset">>, <<"reset", "step">>,
            <<"step", "isdone">>, <<"step", "resolve_failed">>,
            <<"isdone", "save_skipped">>, <<"isdone", "save_running">>,
            <<"run", "save_ran">>, <<"wait", "save_ran">>,
            <<"save_ran", "outputs">>, <<"save_ran", "save_failed">>,
            <<"outputs", "save_succeeded">>, <<"save_failed", "fail_meta">>,
            <<"fail_meta", "fail_last">>, <<"finish_meta", "finish_last">>}

\* What a process may become by what it does.
Moves(e, f) ==
    \/ f.pc = "idle" /\ f.idx = 1 /\ f.attempt = 0
    \/ /\ e.idx <= Len(Order) /\ f.idx = e.idx + 1 /\ f.attempt = 0
       /\ f.pc \in {"step", "finish_meta"}
    \/ <<e.pc, f.pc>> \in Forward /\ f.idx = e.idx /\ f.attempt = e.attempt
    \/ /\ e.pc = "save_running" /\ f.pc = "run"
       /\ e.idx <= Len(Order) /\ f.idx = e.idx /\ f.attempt = 1
    \/ /\ e.pc = "run" /\ f.pc = "wait" /\ e.attempt < MaxAttempts(Order[e.idx])
       /\ f.idx = e.idx /\ f.attempt = e.attempt
    \/ /\ e.pc = "wait" /\ f.pc = "run"
       /\ e.idx <= Len(Order) /\ f.idx = e.idx /\ f.attempt = e.attempt + 1
    \/ /\ f.pc = e.pc /\ f.idx = e.idx /\ f.attempt = e.attempt
       /\ f.todo \subseteq e.todo /\ f.todo # e.todo

LEMMA LimitIsPositive == \A i \in 1..Len(Order) : MaxAttempts(Order[i]) \in Nat \ {0}
<1>1. \A i \in 1..Len(Order) : Order[i] \in Steps BY OrderAssumption
<1>2. \A s \in Steps : RetryLimit[s] \in Nat BY StepsAssumption
<1>. QED BY <1>1, <1>2 DEF MaxAttempts

LEMMA RankFalls == \A a, b \in PC : <<a, b>> \in Forward => Rank[b] < Rank[a]
<1>. SUFFICES ASSUME NEW a \in PC, NEW b \in PC, <<a, b>> \in Forward
              PROVE  Rank[b] < Rank[a]
    OBVIOUS
<1>. QED BY DEF Forward, Rank

LEMMA MovesDescend ==
    ASSUME NEW e \in Engines, NEW f \in Engines, Limited(e), Moves(e, f)
    PROVE  Descends(e, f)
<1>1. CASE <<e.pc, f.pc>> \in Forward /\ f.idx = e.idx /\ f.attempt = e.attempt
    BY <1>1, RankFalls DEF Engines, Descends
<1>2. CASE f.pc = "idle" BY <1>2 DEF Descends
<1>3. CASE f.idx = e.idx + 1 BY <1>3 DEF Engines, Descends
<1>4. CASE /\ e.pc = "save_running" /\ f.pc = "run"
           /\ f.idx = e.idx /\ f.attempt = 1
    BY <1>4 DEF Limited, Descends
<1>5. CASE /\ e.pc = "run" /\ f.pc = "wait"
           /\ f.idx = e.idx /\ f.attempt = e.attempt
    BY <1>5 DEF Rank, Descends
<1>6. CASE f.idx = e.idx /\ f.attempt = e.attempt + 1
    BY <1>6 DEF Engines, Descends
<1>7. CASE /\ f.pc = e.pc /\ f.idx = e.idx /\ f.attempt = e.attempt
           /\ f.todo \subseteq e.todo /\ f.todo # e.todo
    BY <1>7 DEF Descends
<1>. QED BY <1>1, <1>2, <1>3, <1>4, <1>5, <1>6, <1>7 DEF Moves

LEMMA MovesStayLimited ==
    ASSUME NEW e \in Engines, NEW f \in Engines, Limited(e), Moves(e, f)
    PROVE  Limited(f)
<1>1. Len(Order) \in Nat BY OrderAssumption
<1>2. \A i \in 1..Len(Order) : MaxAttempts(Order[i]) \in Nat /\ MaxAttempts(Order[i]) >= 1
    BY LimitIsPositive
<1>3. e.attempt \in Nat /\ f.attempt \in Nat /\ e.idx \in 1..(Len(Order) + 1)
      /\ f.idx \in 1..(Len(Order) + 1)
    BY DEF Engines
<1>4. CASE f.attempt = 0 /\ f.pc \in {"idle", "step", "finish_meta"}
    BY <1>1, <1>2, <1>3, <1>4 DEF Limited
<1>5. CASE <<e.pc, f.pc>> \in Forward /\ f.idx = e.idx /\ f.attempt = e.attempt
  <2>1. f.pc # "wait" BY <1>5 DEF Forward
  <2>2. f.pc \in {"init_meta", "init_last", "load", "reset", "step", "isdone",
                  "save_running"} => f.attempt = 0
      BY <1>5 DEF Forward, Limited
  <2>. QED BY <1>5, <2>1, <2>2 DEF Limited
<1>6. CASE /\ e.pc = "save_running" /\ f.pc = "run"
           /\ e.idx <= Len(Order) /\ f.idx = e.idx /\ f.attempt = 1
    BY <1>1, <1>2, <1>3, <1>6 DEF Limited
<1>7. CASE /\ e.pc = "run" /\ f.pc = "wait" /\ e.attempt < MaxAttempts(Order[e.idx])
           /\ f.idx = e.idx /\ f.attempt = e.attempt
    BY <1>7 DEF Limited
<1>8. CASE /\ e.pc = "wait" /\ f.pc = "run"
           /\ e.idx <= Len(Order) /\ f.idx = e.idx /\ f.attempt = e.attempt + 1
  <2>1. e.attempt < MaxAttempts(Order[e.idx]) BY <1>8 DEF Limited
  <2>. QED BY <1>1, <1>2, <1>3, <1>8, <2>1 DEF Limited
<1>9. CASE f.pc = e.pc /\ f.idx = e.idx /\ f.attempt = e.attempt
    BY <1>9 DEF Limited
<1>. QED BY <1>4, <1>5, <1>6, <1>7, <1>8, <1>9 DEF Moves

\* A Set and a local step take the process from where it was to where it goes on.
LEMMA SetMoves ==
    ASSUME TypeOK, NEW p \in Procs, NEW from, NEW new, NEW a, NEW next \in Engines,
           Set(p, from, new, a, next)
    PROVE  /\ eng[p].pc = from
           /\ eng'[p].pc = next.pc /\ eng'[p].idx = next.idx
           /\ eng'[p].attempt = next.attempt /\ eng'[p].todo = next.todo
           /\ \A q \in Procs \ {p} : eng'[q] = eng[q]
<1>1. eng'[p] = next \/ eng'[p] = [next EXCEPT !.ctxDone = TRUE]
    BY DEF Set, TypeOK
<1>. QED BY <1>1 DEF Set, TypeOK, Engines

LEMMA LocalMoves ==
    ASSUME TypeOK, NEW p \in Procs, NEW from, NEW next \in Engines,
           Local(p, from, next)
    PROVE  /\ eng[p].pc = from
           /\ eng'[p].pc = next.pc /\ eng'[p].idx = next.idx
           /\ eng'[p].attempt = next.attempt /\ eng'[p].todo = next.todo
           /\ \A q \in Procs \ {p} : eng'[q] = eng[q]
BY DEF Local, TypeOK

\* The places a process goes on to.
LEMMA NextPlaces ==
    ASSUME TypeInv, NEW p \in Procs
    PROVE  /\ \A pc \in PC : /\ At(p, pc) \in Engines
                             /\ At(p, pc).pc = pc /\ At(p, pc).idx = eng[p].idx
                             /\ At(p, pc).attempt = eng[p].attempt
                             /\ At(p, pc).todo = eng[p].todo
           /\ eng[p].pc \in AtStep =>
                  /\ NextStep(p) \in Engines
                  /\ NextStep(p).pc \in {"step", "finish_meta"}
                  /\ NextStep(p).idx = eng[p].idx + 1
                  /\ NextStep(p).attempt = 0
                  /\ eng[p].idx <= Len(Order)
           /\ Idle \in Engines /\ Idle.pc = "idle" /\ Idle.idx = 1 /\ Idle.attempt = 0
           /\ eng[p] \in Engines
<1>1. eng[p] \in Engines /\ Placed(eng[p]) BY DEF TypeInv, TypeOK
<1>2. \A pc \in PC : /\ At(p, pc) \in Engines
                     /\ At(p, pc).pc = pc /\ At(p, pc).idx = eng[p].idx
                     /\ At(p, pc).attempt = eng[p].attempt
                     /\ At(p, pc).todo = eng[p].todo
    BY <1>1, MoveType DEF At, Engines
<1>3. eng[p].pc \in AtStep =>
          /\ NextStep(p) \in Engines
          /\ NextStep(p).pc \in {"step", "finish_meta"}
          /\ NextStep(p).idx = eng[p].idx + 1
          /\ NextStep(p).attempt = 0
          /\ eng[p].idx <= Len(Order)
    BY <1>1, MoveType DEF NextStep, Engines, Placed
<1>4. Idle.pc = "idle" /\ Idle.idx = 1 /\ Idle.attempt = 0 BY DEF Idle
<1>. QED BY <1>1, <1>2, <1>3, <1>4, BeginType

\* p moves, and nobody else does.
Moved(p) == /\ Moves(eng[p], eng'[p])
            /\ \A q \in Procs \ {p} : eng'[q] = eng[q]

\* A process moves on along Forward.
LEMMA SetForward ==
    ASSUME TypeInv, NEW p \in Procs, NEW from, NEW to \in PC, NEW new, NEW a,
           Set(p, from, new, a, At(p, to)), <<from, to>> \in Forward
    PROVE  Moved(p)
BY NextPlaces, SetMoves DEF Moved, Moves, TypeInv

LEMMA LocalForward ==
    ASSUME TypeInv, NEW p \in Procs, NEW from, NEW to \in PC,
           Local(p, from, At(p, to)), <<from, to>> \in Forward
    PROVE  Moved(p)
BY NextPlaces, LocalMoves DEF Moved, Moves, TypeInv

\* ... goes on to the next step ...
LEMMA SetNextStep ==
    ASSUME TypeInv, NEW p \in Procs, NEW from \in AtStep, NEW new, NEW a,
           Set(p, from, new, a, NextStep(p))
    PROVE  Moved(p)
<1>1. eng[p].pc \in AtStep BY DEF Set
<1>. QED BY <1>1, NextPlaces, SetMoves DEF Moved, Moves, TypeInv

LEMMA LocalNextStep ==
    ASSUME TypeInv, NEW p \in Procs, NEW from \in AtStep, Local(p, from, NextStep(p))
    PROVE  Moved(p)
<1>1. eng[p].pc \in AtStep BY DEF Local
<1>. QED BY <1>1, NextPlaces, LocalMoves DEF Moved, Moves, TypeInv

\* ... or ends.
LEMMA SetIdle ==
    ASSUME TypeInv, NEW p \in Procs, NEW from, NEW new, NEW a, Set(p, from, new, a, Idle)
    PROVE  Moved(p)
BY NextPlaces, SetMoves DEF Moved, Moves, TypeInv

LEMMA LocalIdle ==
    ASSUME TypeInv, NEW p \in Procs, NEW from, Local(p, from, Idle)
    PROVE  Moved(p)
BY NextPlaces, LocalMoves DEF Moved, Moves, TypeInv

LEMMA SaveMoves ==
    ASSUME TypeInv, NEW p \in Procs, NEW a, Save(p, a)
    PROVE  Moved(p)
<1>. TypeOK BY DEF TypeInv
<1>0. eng[p] \in Engines BY DEF TypeOK
<1>1. CASE SaveInitMeta(p, a)
  <2>1. <<"init_meta", "init_last">> \in Forward BY DEF Forward
  <2>. QED BY <1>1, <2>1, SetForward, SetIdle DEF SaveInitMeta, PC
<1>2. CASE SaveInitLast(p, a)
  <2>1. <<"init_last", "step">> \in Forward BY DEF Forward
  <2>. QED BY <1>2, <2>1, SetForward, SetIdle DEF SaveInitLast, PC
<1>3. ASSUME NEW s \in Steps, ResetInterrupted(p, s, a) PROVE Moved(p)
  <2> DEFINE next == [eng[p] EXCEPT !.existing[s] = "failed", !.todo = @ \ {s}]
  <2>1. /\ next \in Engines /\ next.pc = eng[p].pc /\ next.idx = eng[p].idx
        /\ next.attempt = eng[p].attempt /\ next.todo = eng[p].todo \ {s}
      BY <1>0 DEF Engines, Status
  <2>2. s \in eng[p].todo /\ Set(p, "reset", StepState(p, s, "failed"), a, next)
      BY <1>3 DEF ResetInterrupted
  <2>. HIDE DEF next
  <2>. QED BY <2>1, <2>2, SetMoves DEF Moved, Moves
<1>4. CASE SaveResolveFailure(p, a) BY <1>4, SetIdle DEF SaveResolveFailure
<1>5. CASE SaveSkipped(p, a) BY <1>5, SetNextStep DEF SaveSkipped, AtStep
<1>6. CASE SaveRunning(p, a)
  <2> DEFINE running == [eng[p] EXCEPT !.pc = "run", !.attempt = 1]
  <2>1. /\ running \in Engines /\ running.pc = "run" /\ running.idx = eng[p].idx
        /\ running.attempt = 1
      BY <1>0 DEF Engines, PC
  <2>2. Set(p, "save_running", StepState(p, Cur(p), "running"), a,
            IF a = "ok" THEN running ELSE Idle)
      BY <1>6 DEF SaveRunning
  <2>3. eng[p].pc = "save_running" BY <2>2 DEF Set
  <2>4. eng[p].idx <= Len(Order) BY <2>3, NextPlaces DEF AtStep
  <2>. HIDE DEF running
  <2>5. CASE a = "ok" BY <2>1, <2>2, <2>3, <2>4, <2>5, SetMoves DEF Moved, Moves
  <2>6. CASE a # "ok" BY <2>2, <2>6, SetIdle
  <2>. QED BY <2>5, <2>6
<1>7. CASE SaveRan(p, a)
  <2>1. /\ <<"save_ran", "outputs">> \in Forward
        /\ <<"save_ran", "save_failed">> \in Forward
      BY DEF Forward
  <2>. QED BY <1>7, <2>1, SetForward DEF SaveRan, PC
<1>8. ASSUME NEW k \in Keys, PersistOutput(p, k, a) PROVE Moved(p)
  <2> DEFINE next == [eng[p] EXCEPT !.todo = @ \ {k}]
  <2>1. /\ next \in Engines /\ next.pc = eng[p].pc /\ next.idx = eng[p].idx
        /\ next.attempt = eng[p].attempt /\ next.todo = eng[p].todo \ {k}
      BY <1>0 DEF Engines
  <2>2. /\ k \in eng[p].todo
        /\ Set(p, "outputs", [db EXCEPT !.out[k] = eng[p].run], a, next)
      BY <1>8 DEF PersistOutput
  <2>. HIDE DEF next
  <2>. QED BY <2>1, <2>2, SetMoves DEF Moved, Moves
<1>9. CASE SaveSucceeded(p, a) BY <1>9, SetNextStep DEF SaveSucceeded, AtStep
<1>10. CASE SaveFailed(p, a)
  <2>1. <<"save_failed", "fail_meta">> \in Forward BY DEF Forward
  <2>. QED BY <1>10, <2>1, SetForward DEF SaveFailed, PC
<1>11. CASE SaveFailMeta(p, a)
  <2>1. <<"fail_meta", "fail_last">> \in Forward BY DEF Forward
  <2>. QED BY <1>11, <2>1, SetForward, SetIdle DEF SaveFailMeta, PC
<1>12. CASE SaveFailLast(p, a) BY <1>12, SetIdle DEF SaveFailLast
<1>13. CASE SaveFinishMeta(p, a)
  <2>1. <<"finish_meta", "finish_last">> \in Forward BY DEF Forward
  <2>. QED BY <1>13, <2>1, SetForward, SetIdle DEF SaveFinishMeta, PC
<1>14. CASE SaveFinishLast(p, a) BY <1>14, SetIdle DEF SaveFinishLast
<1>. QED BY <1>1, <1>2, <1>3, <1>4, <1>5, <1>6, <1>7, <1>8, <1>9, <1>10, <1>11,
            <1>12, <1>13, <1>14 DEF Save

\* The steps of the process that leave the store and the world alone.
LEMMA LocalStepMoves ==
    ASSUME TypeInv, NEW p \in Procs,
           \/ LoadStates(p)
           \/ LoadFails(p)
           \/ ResetDone(p)
           \/ SkipRecorded(p)
           \/ Resolve(p)
           \/ ResolveFails(p)
           \/ FoundDone(p)
           \/ FoundNotDone(p)
           \/ BackoffElapses(p)
           \/ BackoffCancelled(p)
           \/ OutputsPersisted(p)
    PROVE  Moved(p)
<1>. TypeOK BY DEF TypeInv
<1>1. eng[p] \in Engines BY DEF TypeOK
<1>2. /\ <<"load", "reset">> \in Forward /\ <<"reset", "step">> \in Forward
      /\ <<"step", "isdone">> \in Forward /\ <<"step", "resolve_failed">> \in Forward
      /\ <<"isdone", "save_skipped">> \in Forward
      /\ <<"isdone", "save_running">> \in Forward
      /\ <<"outputs", "save_succeeded">> \in Forward
      /\ <<"wait", "save_ran">> \in Forward
    BY DEF Forward
<1>3. CASE LoadStates(p)
  <2>. PICK page \in Pages :
           Local(p, "load",
                 [eng[p] EXCEPT !.pc = "reset",
                    !.existing = Found(eng[p].run, page),
                    !.todo = {s \in Steps : Found(eng[p].run, page)[s] = "running"}])
      BY <1>3 DEF LoadStates
  <2> DEFINE next == [eng[p] EXCEPT !.pc = "reset",
                        !.existing = Found(eng[p].run, page),
                        !.todo = {s \in Steps :
                                     Found(eng[p].run, page)[s] = "running"}]
  <2>1. next.pc = "reset" /\ next.idx = eng[p].idx /\ next.attempt = eng[p].attempt
      BY <1>1 DEF Engines
  <2>2. Local(p, "load", next) OBVIOUS
  <2>. HIDE DEF next
  <2>3. eng[p].pc = "load" /\ eng' = [eng EXCEPT ![p] = next] BY <2>2 DEF Local
  <2>. QED BY <1>2, <2>1, <2>3 DEF Moved, Moves, TypeOK
<1>4. CASE BackoffElapses(p)
  <2> DEFINE next == [eng[p] EXCEPT !.pc = "run", !.attempt = @ + 1]
  <2>1. next.pc = "run" /\ next.idx = eng[p].idx /\ next.attempt = eng[p].attempt + 1
      BY <1>1 DEF Engines
  <2>2. Local(p, "wait", next) BY <1>4 DEF BackoffElapses
  <2>. HIDE DEF next
  <2>3. eng[p].pc = "wait" /\ eng' = [eng EXCEPT ![p] = next] BY <2>2 DEF Local
  <2>4. eng[p].idx <= Len(Order) BY <2>3, NextPlaces DEF AtStep
  <2>. QED BY <2>1, <2>3, <2>4 DEF Moved, Moves, TypeOK
<1>5. CASE BackoffCancelled(p)
  <2> DEFINE next == [eng[p] EXCEPT !.pc = "save_ran", !.outcome = "cancelled"]
  <2>1. next.pc = "save_ran" /\ next.idx = eng[p].idx /\ next.attempt = eng[p].attempt
      BY <1>1 DEF Engines
  <2>2. Local(p, "wait", next) BY <1>5 DEF BackoffCancelled
  <2>. HIDE DEF next
  <2>3. eng[p].pc = "wait" /\ eng' = [eng EXCEPT ![p] = next] BY <2>2 DEF Local
  <2>. QED BY <1>2, <2>1, <2>3 DEF Moved, Moves, TypeOK
<1>6. CASE LoadFails(p) BY <1>6, LocalIdle DEF LoadFails
<1>7. CASE ResetDone(p) BY <1>2, <1>7, LocalForward DEF ResetDone, PC
<1>8. CASE SkipRecorded(p) BY <1>8, LocalNextStep DEF SkipRecorded, AtStep
<1>9. CASE Resolve(p) BY <1>2, <1>9, LocalForward DEF Resolve, PC
<1>10. CASE ResolveFails(p) BY <1>2, <1>10, LocalForward DEF ResolveFails, PC
<1>11. CASE FoundDone(p) BY <1>2, <1>11, LocalForward DEF FoundDone, PC
<1>12. CASE FoundNotDone(p) BY <1>2, <1>12, LocalForward DEF FoundNotDone, PC
<1>13. CASE OutputsPersisted(p)
    BY <1>2, <1>13, LocalForward DEF OutputsPersisted, PC
<1>. QED BY <1>3, <1>4, <1>5, <1>6, <1>7, <1>8, <1>9, <1>10, <1>11, <1>12, <1>13

LEMMA RunMoves ==
    ASSUME TypeInv, NEW p \in Procs,
           RunFails(p) \/ \E set \in SUBSET Keys : RunSucceeds(p, set)
    PROVE  Moved(p)
<1>1. eng \in [Procs -> Engines] BY DEF TypeInv, TypeOK
<1>2. <<"run", "save_ran">> \in Forward BY DEF Forward
<1>3. eng[p].pc = "run" BY DEF RunFails, RunSucceeds
<1>4. /\ eng'[p].idx = eng[p].idx /\ eng'[p].attempt = eng[p].attempt
      /\ \A q \in Procs \ {p} : eng'[q] = eng[q]
    BY <1>1 DEF RunFails, RunSucceeds, Engines
<1>5. \/ eng'[p].pc = "save_ran"
      \/ eng'[p].pc = "wait" /\ eng[p].attempt < MaxAttempts(Order[eng[p].idx])
    BY <1>1 DEF RunFails, RunSucceeds, Engines, Cur
<1>. QED BY <1>2, <1>3, <1>4, <1>5 DEF Moved, Moves

\* Whoever moves comes nearer to the end and stays within the limits.
LEMMA NextDescends ==
    ASSUME TypeInv, AttemptsLimited, [Next]_vars
    PROVE  /\ AttemptsLimited'
           /\ \A p \in Procs : Active(p) /\ eng'[p] # eng[p]
                                   => Descends(eng[p], eng'[p])
<1>. DEFINE Down == \A p \in Procs : Active(p) /\ eng'[p] # eng[p]
                                         => Descends(eng[p], eng'[p])
<1>1. TypeInv' BY NextPlaced
<1>2. eng \in [Procs -> Engines] /\ eng' \in [Procs -> Engines]
    BY <1>1 DEF TypeInv, TypeOK
<1>3. ASSUME NEW p \in Procs, Limited(eng'[p]), Active(p) => Descends(eng[p], eng'[p]),
             \A q \in Procs \ {p} : eng'[q] = eng[q]
      PROVE  AttemptsLimited' /\ Down
  <2>1. \A q \in Procs : Limited(eng'[q])
    <3>1. TAKE q \in Procs
    <3>2. CASE q = p BY <1>3, <3>2
    <3>3. CASE q # p BY <1>3, <3>3 DEF AttemptsLimited
    <3>. QED BY <3>2, <3>3
  <2>2. Down BY <1>3
  <2>. QED BY <2>1, <2>2 DEF AttemptsLimited
<1>4. ASSUME NEW p \in Procs, Moved(p) PROVE AttemptsLimited' /\ Down
  <2>1. Limited(eng[p]) /\ Moves(eng[p], eng'[p])
      BY <1>4 DEF AttemptsLimited, Moved
  <2>2. Limited(eng'[p]) /\ Descends(eng[p], eng'[p])
      BY <1>2, <2>1, MovesStayLimited, MovesDescend
  <2>. QED BY <1>3, <1>4, <2>2 DEF Moved
<1>5. ASSUME NEW p \in Procs, Proceed(p) \/ Fault(p) PROVE Moved(p)
    BY <1>5, SaveMoves, LocalStepMoves, RunMoves DEF Proceed, Fault
<1>6. ASSUME NEW e \in Engines, e.attempt = 0, e.pc # "wait" PROVE Limited(e)
  <2>1. Len(Order) \in Nat BY OrderAssumption
  <2>2. e.idx <= Len(Order) => 0 <= MaxAttempts(Order[e.idx])
      BY <2>1, LimitIsPositive DEF Engines
  <2>. QED BY <1>6, <2>2 DEF Limited
<1>7. ASSUME NEW p \in Procs, Command(p) PROVE AttemptsLimited' /\ Down
  <2>1. ~Active(p) /\ \A q \in Procs \ {p} : eng'[q] = eng[q]
      BY <1>2, <1>7 DEF Command, StartInit, Resume, Active
  <2>2. eng'[p].attempt = 0 /\ eng'[p].pc # "wait"
    <3>1. \E pc \in {"init_meta", "load"}, r \in Runs, dry \in DryRunFlags :
             eng' = [eng EXCEPT ![p] = Begin(pc, r, dry)]
        BY <1>7 DEF Command, StartInit, Resume
    <3>2. \A pc \in {"init_meta", "load"}, r \in Runs, dry \in DryRunFlags :
             Begin(pc, r, dry).attempt = 0 /\ Begin(pc, r, dry).pc = pc
        BY DEF Begin, Idle
    <3>. QED BY <1>2, <3>1, <3>2
  <2>3. Limited(eng'[p]) BY <1>2, <1>6, <2>2
  <2>. QED BY <1>3, <2>1, <2>3
<1>8. ASSUME NEW p \in Procs, Signal(p) PROVE AttemptsLimited' /\ Down
  <2>1. /\ eng'[p].pc = eng[p].pc /\ eng'[p].idx = eng[p].idx
        /\ eng'[p].attempt = eng[p].attempt /\ eng'[p].todo = eng[p].todo
        /\ eng'[p].ctxDone /\ ~eng[p].ctxDone
        /\ \A q \in Procs \ {p} : eng'[q] = eng[q]
      BY <1>2, <1>8 DEF Signal, Engines
  <2>2. Limited(eng'[p]) BY <2>1 DEF AttemptsLimited, Limited
  <2>3. Descends(eng[p], eng'[p]) BY <2>1 DEF Descends
  <2>. QED BY <1>3, <2>1, <2>2, <2>3
<1>9. ASSUME NEW p \in Procs, Kill(p) PROVE AttemptsLimited' /\ Down
  <2>1. /\ eng'[p].pc = "idle" /\ eng'[p].attempt = 0
        /\ \A q \in Procs \ {p} : eng'[q] = eng[q]
      BY <1>2, <1>9 DEF Kill, Idle
  <2>2. Limited(eng'[p]) BY <1>2, <1>6, <2>1
  <2>3. Descends(eng[p], eng'[p]) BY <2>1 DEF Descends
  <2>. QED BY <1>3, <2>1, <2>2, <2>3
<1>10. CASE UNCHANGED eng BY <1>10 DEF AttemptsLimited
<1>. QED BY <1>4, <1>5, <1>7, <1>8, <1>9, <1>10 DEF Next, Interrupt, vars

\* The part of Terminates that needs no fairness, for every pipeline and however
\* often the store, a step or the operator gets in the way: no step is attempted
\* more often than its policy says, and a process that is at work cannot go on
\* for ever, because whatever changes it takes it down an order that has no infinite descent.
THEOREM CommandsRunOut == Spec => []AttemptsLimited /\ EveryChangeDescends
<1>1. Init => AttemptsLimited
  <2>. SUFFICES ASSUME Init, NEW p \in Procs PROVE Limited(eng[p])
      BY DEF AttemptsLimited
  <2>1. eng[p] = Idle BY DEF Init
  <2>2. Len(Order) \in Nat /\ Len(Order) # 0 BY OrderAssumption
  <2>3. MaxAttempts(Order[1]) \in Nat BY <2>2, LimitIsPositive
  <2>. QED BY <2>1, <2>2, <2>3 DEF Limited, Idle
<1>2. TypeInv /\ AttemptsLimited /\ [Next]_vars => AttemptsLimited' BY NextDescends
<1>3. TypeInv /\ AttemptsLimited /\ [Next]_vars =>
          [\A p \in Procs : Active(p) /\ eng'[p] # eng[p]
                               => Descends(eng[p], eng'[p])]_vars
    BY NextDescends
<1>. QED BY <1>1, <1>2, <1>3, InitPlaced, NextPlaced, PTL
         DEF Spec, EveryChangeDescends
===============================================================================
