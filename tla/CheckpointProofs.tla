--------------------------- MODULE CheckpointProofs ---------------------------
(***************************************************************************)
(* Proofs about what the engine checkpoints, for every pipeline and every  *)
(* number of runs: one process at a time, killed, interrupted and resumed  *)
(* at any moment, dry runs included, over a store that answers (a signal   *)
(* may cut a call short) and whose List shows every record.                *)
(***************************************************************************)
EXTENDS EngineProofs

-------------------------------------------------------------------------------
(* The premises and the inductive invariant *)

\* Each is needed: a second resume, a write that is refused and a List that ends
\* early let a process work on a step whose predecessors are not recorded.
OneAtATime == /\ \A p, q \in Procs : p = q
              /\ StoreMayFail = FALSE
              /\ Pages = {Steps}

\* Where the loop of execute is, and where it has decided to carry out the step.
Working == {"resolve_failed", "isdone", "save_skipped", "save_running", "run",
            "wait", "save_ran", "outputs", "save_succeeded", "save_failed"}
InLoop  == Working \cup {"step"}

\* The records of a run as process e, whose context is live, has to find them:
\* none when it begins the run; those it loaded when it resumes it; the steps it
\* has passed all recorded, and the ones ahead as they were when it began.
Follows(e, R) ==
    /\ e.pc \in {"init_meta", "init_last"} =>
          R = Nothing /\ e.existing = Nothing
    /\ e.pc \in {"init_meta", "init_last", "load", "reset"} => e.idx = 1
    /\ e.pc = "reset" => /\ e.existing = R
                         /\ \A s \in Steps : s \in e.todo => R[s] = "running"
    /\ e.pc \in InLoop =>
          /\ \A i \in 1..(e.idx - 1) : R[Order[i]] \in Done
          /\ \A i \in (e.idx + 1)..Len(Order) :
                e.existing[Order[i]] = R[Order[i]]
    /\ e.pc = "step" => e.existing[Order[e.idx]] = R[Order[e.idx]]
    /\ e.pc \in Working => R[Order[e.idx]] \notin Done
    /\ e.pc \in AtEnd => \A s \in Steps : R[s] \in Done

\* A table whose records are a finished prefix and one step more, whose complete
\* runs are recorded in full, and which knows no run but those of S.
Regular(t, S) ==
    /\ \A r \in Runs : \A i, j \in 1..Len(Order) :
          i < j /\ t.step[r][Order[j]] # "none" => t.step[r][Order[i]] \in Done
    /\ \A r \in Runs : t.meta[r] = "succeeded" =>
                          \A s \in Steps : t.step[r][s] \in Done
    /\ \A r \in Runs \ S : t.step[r] = Nothing

\* While the step is executed its record says RUNNING.
Traced(e, t) == e.pc \in {"run", "wait"} =>
                   t.step[e.run][Order[e.idx]] = "running"

\* What a process may be, given a table and the runs already used.
Steady(e, t, S) ==
    /\ e.pc # "idle" => e.run \in S
    /\ Traced(e, t)
    /\ e.pc # "idle" /\ ~e.ctxDone => Follows(e, t.step[e.run])

CInv == /\ TypeInv
        /\ Regular(db, started)
        /\ \A p \in Procs : Steady(eng[p], db, started)

\* No record SUCCEEDED or SKIPPED changes.
Kept(t) == \A r \in Runs, s \in Steps :
              db.step[r][s] \in Done => t.step[r][s] = db.step[r][s]

-------------------------------------------------------------------------------
(* What a write does to the table *)

\* What the invariant says of process p, which is at work.
LEMMA AtWork ==
    ASSUME CInv, NEW p \in Procs, eng[p].pc # "idle"
    PROVE  /\ TypeInv /\ TypeOK
           /\ eng[p] \in Engines /\ Placed(eng[p]) /\ eng[p].run \in Runs
           /\ eng[p].run \in started /\ db \in Tables
           /\ Len(Order) \in Nat /\ \A i \in 1..Len(Order) : Order[i] \in Steps
           /\ eng[p].idx \in 1..(Len(Order) + 1)
           /\ eng[p].pc \in AtStep => eng[p].idx <= Len(Order)
           /\ ~eng[p].ctxDone => Follows(eng[p], db.step[eng[p].run])
           /\ Traced(eng[p], db)
           /\ Regular(db, started)
<1>1. TypeInv /\ TypeOK /\ Steady(eng[p], db, started) /\ Regular(db, started)
    BY DEF CInv, TypeInv
<1>2. eng[p] \in Engines /\ Placed(eng[p]) /\ db \in Tables
    BY <1>1 DEF TypeInv, TypeOK
<1>3. eng[p].run \in Runs /\ (eng[p].pc \in AtStep => eng[p].idx <= Len(Order))
    BY <1>2 DEF Placed
<1>4. Len(Order) \in Nat /\ \A i \in 1..Len(Order) : Order[i] \in Steps
    BY OrderAssumption
<1>5. eng[p].idx \in 1..(Len(Order) + 1) BY <1>2 DEF Engines
<1>. QED BY <1>1, <1>2, <1>3, <1>4, <1>5 DEF Steady

\* The record of a step that is not finished, and whose predecessors are, may be
\* replaced by any other.
LEMMA StepWrite ==
    ASSUME CInv, NEW p \in Procs, eng[p].pc # "idle",
           NEW n \in 1..Len(Order), NEW st \in Status,
           db.step[eng[p].run][Order[n]] \notin Done,
           \A i \in 1..(n - 1) : db.step[eng[p].run][Order[i]] \in Done
    PROVE  /\ Regular(StepState(p, Order[n], st), started)
           /\ Kept(StepState(p, Order[n], st))
           /\ StepState(p, Order[n], st).step[eng[p].run]
                 = [db.step[eng[p].run] EXCEPT ![Order[n]] = st]
<1> DEFINE r == eng[p].run
           R == db.step[r]
           t == StepState(p, Order[n], st)
<1>1. /\ r \in Runs /\ r \in started /\ db \in Tables /\ Regular(db, started)
      /\ Len(Order) \in Nat /\ \A i \in 1..Len(Order) : Order[i] \in Steps
    BY AtWork
<1>2. /\ t.step[r] = [R EXCEPT ![Order[n]] = st]
      /\ \A q \in Runs \ {r} : t.step[q] = db.step[q]
      /\ t.meta = db.meta
    BY <1>1 DEF StepState, Tables
<1>3. R \in [Steps -> Status] BY <1>1 DEF Tables
<1>4. /\ t.step[r][Order[n]] = st
      /\ \A s \in Steps \ {Order[n]} : t.step[r][s] = R[s]
    BY <1>1, <1>2, <1>3
<1>5. ASSUME NEW i \in 1..Len(Order), NEW j \in 1..Len(Order), i < j,
             t.step[r][Order[j]] # "none"
      PROVE  t.step[r][Order[i]] \in Done
    <2>1. i # n
        <3>1. CASE i = n
            <4>1. Order[j] # Order[n] BY <1>1, <1>5, <3>1, OrderAssumption
            <4>2. R[Order[j]] # "none" BY <1>1, <1>4, <1>5, <4>1
            <4>3. R[Order[n]] \in Done BY <1>1, <1>5, <3>1, <4>2 DEF Regular
            <4>. QED BY <4>3
        <3>. QED BY <3>1
    <2>2. Order[i] # Order[n] BY <2>1, OrderAssumption
    <2>3. t.step[r][Order[i]] = R[Order[i]] BY <1>1, <1>4, <2>2
    <2>4. CASE j = n
        <3>1. i \in 1..(n - 1) BY <1>1, <1>5, <2>4
        <3>. QED BY <2>3, <3>1
    <2>5. CASE j # n
        <3>1. Order[j] # Order[n] BY <2>5, OrderAssumption
        <3>2. R[Order[j]] # "none" BY <1>1, <1>4, <1>5, <3>1
        <3>. QED BY <1>1, <1>5, <2>3, <3>2 DEF Regular
    <2>. QED BY <2>4, <2>5
<1>6. \A q \in Runs : \A i, j \in 1..Len(Order) :
         i < j /\ t.step[q][Order[j]] # "none" => t.step[q][Order[i]] \in Done
    <2>1. ASSUME NEW q \in Runs \ {r} PROVE t.step[q] = db.step[q] BY <1>2, <2>1
    <2>. HIDE DEF t, R, r
    <2>2. ASSUME NEW q \in Runs, q # r, NEW i \in 1..Len(Order),
                 NEW j \in 1..Len(Order), i < j, t.step[q][Order[j]] # "none"
          PROVE  t.step[q][Order[i]] \in Done
        <3>1. t.step[q] = db.step[q] BY <2>1, <2>2
        <3>. QED BY <1>1, <2>2, <3>1 DEF Regular
    <2>. QED BY <1>5, <2>2
<1>7. ASSUME NEW q \in Runs, t.meta[q] = "succeeded", NEW s \in Steps
      PROVE  t.step[q][s] \in Done
    <2>1. \A x \in Steps : db.step[q][x] \in Done
        BY <1>1, <1>2, <1>7 DEF Regular
    <2>2. q # r BY <1>1, <2>1
    <2>. QED BY <1>2, <2>1, <2>2
<1>8. \A q \in Runs \ started : t.step[q] = Nothing
    BY <1>1, <1>2 DEF Regular
<1>9. ASSUME NEW q \in Runs, NEW s \in Steps, db.step[q][s] \in Done
      PROVE  t.step[q][s] = db.step[q][s]
    <2>1. CASE q = r
        <3>1. s # Order[n] BY <1>9, <2>1
        <3>. QED BY <1>4, <2>1, <3>1
    <2>2. CASE q # r BY <1>2, <2>2
    <2>. QED BY <2>1, <2>2
<1>10. Regular(t, started)
    <2>. HIDE DEF t
    <2>. QED BY <1>6, <1>7, <1>8 DEF Regular
<1>11. Kept(t)
    <2>. HIDE DEF t
    <2>. QED BY <1>9 DEF Kept
<1>. QED BY <1>2, <1>10, <1>11

\* A write of the run's meta leaves the records alone, and may say SUCCEEDED
\* when every step is recorded.
LEMMA MetaWrite ==
    ASSUME CInv, NEW p \in Procs, eng[p].pc # "idle",
           NEW st \in {"running", "succeeded", "failed"},
           st = "succeeded" =>
               \A s \in Steps : db.step[eng[p].run][s] \in Done
    PROVE  /\ Regular(RunMeta(p, st), started)
           /\ Kept(RunMeta(p, st))
           /\ RunMeta(p, st).step = db.step
<1> DEFINE t == RunMeta(p, st)
<1>1. /\ eng[p].run \in Runs /\ eng[p].run \in started
      /\ db \in Tables /\ Regular(db, started)
    BY AtWork
<1>2. t.step = db.step /\ t.meta = [db.meta EXCEPT ![eng[p].run] = st]
    BY <1>1 DEF RunMeta, Tables
<1>3. \A q \in Runs : t.meta[q] = IF q = eng[p].run THEN st ELSE db.meta[q]
    BY <1>1, <1>2 DEF Tables
<1>. HIDE DEF t
<1>4. Regular(t, started) BY <1>1, <1>2, <1>3 DEF Regular
<1>5. Kept(t) BY <1>2 DEF Kept
<1>. QED BY <1>2, <1>4, <1>5 DEF t

\* A write of last_run_id or of an output leaves records and metas alone.
LEMMA OtherWrite ==
    ASSUME CInv, NEW p \in Procs, eng[p].pc # "idle", NEW t,
           \/ t = LastRunID(p)
           \/ \E k \in Keys : t = [db EXCEPT !.out[k] = eng[p].run]
    PROVE  Regular(t, started) /\ Kept(t) /\ t.step = db.step
<1>1. db \in Tables /\ Regular(db, started) BY AtWork
<1>2. t.step = db.step /\ t.meta = db.meta BY <1>1 DEF LastRunID, Tables
<1>. QED BY <1>1, <1>2 DEF Regular, Kept

-------------------------------------------------------------------------------
(* What a step does to the process *)

\* A Set keeps the invariant if what it stores and what it goes on with do.  On
\* a context that is cancelled it stores nothing; a cut cancels the context.
LEMMA SetSteady ==
    ASSUME OneAtATime, CInv, TypeInv', NEW p \in Procs, NEW from, NEW new,
           NEW a, NEW next \in Engines, from # "idle",
           Set(p, from, new, a, next),
           next.pc # "idle" => /\ next.run = eng[p].run
                               /\ next.ctxDone = eng[p].ctxDone,
           ~eng[p].ctxDone => Regular(new, started) /\ Kept(new),
           next.pc \in {"run", "wait"} => a = "ok" /\ Traced(next, new),
           ~eng[p].ctxDone /\ a = "ok" /\ next.pc # "idle"
               => Follows(next, new.step[eng[p].run])
    PROVE  CInv' /\ Kept(db')
<1>1. /\ eng[p].pc # "idle" /\ TypeOK
      /\ eng[p].run \in started /\ started' = started
    BY AtWork DEF Set
<1>2. IF eng[p].ctxDone THEN a = "refused" ELSE a \in {"ok", "cut"}
    BY DEF Set, Answers, OneAtATime
<1>3. Regular(db', started) /\ Kept(db')
    <2>1. CASE eng[p].ctxDone
        <3>1. db' = db BY <1>2, <2>1 DEF Set
        <3>. QED BY <3>1 DEF CInv, Kept
    <2>2. CASE ~eng[p].ctxDone
        <3>1. db' = new BY <1>2, <2>2 DEF Set
        <3>. QED BY <2>2, <3>1
    <2>. QED BY <2>1, <2>2
<1>4. Steady(eng'[p], db', started)
    <2>1. CASE a = "cut" /\ next # Idle
        <3>1. eng'[p] = [next EXCEPT !.ctxDone = TRUE]
            BY <1>1, <2>1 DEF Set, TypeOK
        <3>2. /\ eng'[p].pc = next.pc /\ eng'[p].run = next.run
              /\ eng'[p].ctxDone = TRUE
            BY <3>1 DEF Engines
        <3>3. next.pc \notin {"run", "wait"} BY <2>1
        <3>. QED BY <1>1, <3>2, <3>3 DEF Steady, Traced
    <2>2. CASE ~(a = "cut" /\ next # Idle)
        <3>1. eng'[p] = next BY <1>1, <2>2 DEF Set, TypeOK
        <3>2. CASE next.pc = "idle" BY <3>1, <3>2 DEF Steady, Traced
        <3>3. CASE next.pc # "idle"
            <4>1. a # "cut" BY <2>2, <3>3 DEF Idle
            <4>2. a = "ok" => db' = new BY DEF Set
            <4>3. Traced(next, db') BY <4>2 DEF Traced
            <4>4. ~next.ctxDone => Follows(next, db'.step[next.run])
                BY <1>2, <3>3, <4>1, <4>2
            <4>. QED BY <1>1, <3>1, <3>3, <4>3, <4>4 DEF Steady
        <3>. QED BY <3>2, <3>3
    <2>. QED BY <2>1, <2>2
<1>5. \A q \in Procs : Steady(eng'[q], db', started) BY <1>4 DEF OneAtATime
<1>. QED BY <1>1, <1>3, <1>5 DEF CInv

\* So does a step that leaves the store alone.
LEMMA LocalSteady ==
    ASSUME OneAtATime, CInv, TypeInv', NEW p \in Procs, NEW next,
           eng' = [eng EXCEPT ![p] = next], db' = db,
           started \subseteq started', Steady(next, db, started'),
           \A r \in Runs \ started' : db.step[r] = Nothing
    PROVE  CInv' /\ Kept(db')
<1>1. eng'[p] = next BY DEF CInv, TypeInv, TypeOK
<1>2. \A q \in Procs : Steady(eng'[q], db', started') BY <1>1 DEF OneAtATime
<1>3. Regular(db', started') BY DEF CInv, Regular
<1>. QED BY <1>2, <1>3 DEF CInv, Kept

-------------------------------------------------------------------------------
(* The writes *)

\* Behind and ahead of the step at hand, records R are as process e expects.
Surrounded(e, R) ==
    /\ \A i \in 1..(e.idx - 1) : R[Order[i]] \in Done
    /\ \A i \in (e.idx + 1)..Len(Order) : e.existing[Order[i]] = R[Order[i]]

LEMMA WorkFollows ==
    ASSUME NEW e, NEW R, e.pc \in Working, Surrounded(e, R),
           R[Order[e.idx]] \notin Done
    PROVE  Follows(e, R)
BY DEF Follows, Surrounded, Working, InLoop, AtEnd

\* Once the step at hand is recorded, the process may go on to the next one.
LEMMA NextFollows ==
    ASSUME CInv, NEW p \in Procs, eng[p].pc \in InLoop, NEW R,
           Surrounded(eng[p], R), R[Cur(p)] \in Done
    PROVE  Follows(NextStep(p), R)
<1>1. /\ eng[p] \in Engines /\ Len(Order) \in Nat
      /\ eng[p].idx \in 1..Len(Order)
    BY AtWork DEF InLoop, Working, AtStep
<1>2. /\ NextStep(p).idx = eng[p].idx + 1
      /\ NextStep(p).existing = eng[p].existing
      /\ NextStep(p).pc = IF eng[p].idx < Len(Order) THEN "step"
                                                     ELSE "finish_meta"
    BY <1>1 DEF NextStep, Engines
<1>3. \A i \in 1..eng[p].idx : R[Order[i]] \in Done
    <2>1. ASSUME NEW i \in 1..eng[p].idx PROVE R[Order[i]] \in Done
        <3>1. CASE i = eng[p].idx BY <3>1 DEF Cur
        <3>2. CASE i # eng[p].idx
            <4>1. i \in 1..(eng[p].idx - 1) BY <1>1, <3>2
            <4>. QED BY <4>1 DEF Surrounded
        <3>. QED BY <3>1, <3>2
    <2>. QED BY <2>1
<1>4. CASE eng[p].idx < Len(Order)
    <2>1. NextStep(p).pc = "step" BY <1>2, <1>4
    <2>2. eng[p].idx + 1 \in (eng[p].idx + 1)..Len(Order) BY <1>1, <1>4
    <2>3. eng[p].existing[Order[eng[p].idx + 1]] = R[Order[eng[p].idx + 1]]
        BY <2>2 DEF Surrounded
    <2>4. \A i \in 1..(NextStep(p).idx - 1) : R[Order[i]] \in Done
        BY <1>1, <1>2, <1>3
    <2>5. \A i \in (NextStep(p).idx + 1)..Len(Order) :
             NextStep(p).existing[Order[i]] = R[Order[i]]
        BY <1>1, <1>2 DEF Surrounded
    <2>. QED BY <1>2, <2>1, <2>3, <2>4, <2>5 DEF Follows, InLoop, Working, AtEnd
<1>5. CASE eng[p].idx = Len(Order)
    <2>1. \A s \in Steps : R[s] \in Done BY <1>3, <1>5, OrderAssumption
    <2>2. NextStep(p).pc = "finish_meta" BY <1>1, <1>2, <1>5
    <2>. QED BY <2>1, <2>2 DEF Follows, InLoop, Working, AtEnd
<1>. QED BY <1>1, <1>4, <1>5

\* What Follows says of a process that is carrying out a step.
LEMMA Inside ==
    ASSUME CInv, NEW p \in Procs, eng[p].pc \in Working, ~eng[p].ctxDone
    PROVE  /\ Surrounded(eng[p], db.step[eng[p].run])
           /\ db.step[eng[p].run][Cur(p)] \notin Done
<1>1. eng[p].pc # "idle" /\ eng[p].pc \in InLoop BY DEF Working, InLoop
<1>2. Follows(eng[p], db.step[eng[p].run]) BY <1>1, AtWork
<1>. QED BY <1>1, <1>2 DEF Follows, Surrounded, Cur

\* The record of the step at hand.
LEMMA CurWrite ==
    ASSUME CInv, NEW p \in Procs, eng[p].pc \in Working, ~eng[p].ctxDone,
           NEW st \in Status
    PROVE  LET t == StepState(p, Cur(p), st)
           IN  /\ Regular(t, started) /\ Kept(t)
               /\ Surrounded(eng[p], t.step[eng[p].run])
               /\ t.step[eng[p].run][Cur(p)] = st
<1> DEFINE R == db.step[eng[p].run]
           t == StepState(p, Cur(p), st)
<1>1. eng[p].pc # "idle" /\ eng[p].pc \in AtStep BY DEF Working, AtStep
<1>2. /\ eng[p].idx \in 1..Len(Order) /\ Len(Order) \in Nat
      /\ db \in Tables /\ eng[p].run \in Runs
      /\ \A i \in 1..Len(Order) : Order[i] \in Steps
    BY <1>1, AtWork
<1>3. Surrounded(eng[p], R) /\ R[Order[eng[p].idx]] \notin Done
    BY Inside DEF Cur
<1>4. /\ Regular(t, started) /\ Kept(t)
      /\ t.step[eng[p].run] = [R EXCEPT ![Order[eng[p].idx]] = st]
  <2>. DEFINE n == eng[p].idx
  <2>1. n \in 1..Len(Order) /\ R[Order[n]] \notin Done
      BY <1>2, <1>3
  <2>2. \A i \in 1..(n - 1) : R[Order[i]] \in Done
      BY <1>3 DEF Surrounded
  <2>3. /\ Regular(StepState(p, Order[n], st), started)
        /\ Kept(StepState(p, Order[n], st))
        /\ StepState(p, Order[n], st).step[eng[p].run] = [R EXCEPT ![Order[n]] = st]
    <3>. HIDE DEF n
    <3>. QED BY <1>1, <2>1, <2>2, StepWrite
  <2>. QED BY <2>3 DEF Cur
<1>5. R \in [Steps -> Status] BY <1>2 DEF Tables
<1>6. ASSUME NEW i \in 1..Len(Order), i # eng[p].idx
      PROVE  t.step[eng[p].run][Order[i]] = R[Order[i]]
    <2>1. Order[i] # Order[eng[p].idx] BY <1>2, <1>6, OrderAssumption
    <2>. QED BY <1>2, <1>4, <1>5, <2>1
<1>7. t.step[eng[p].run][Cur(p)] = st BY <1>2, <1>4, <1>5 DEF Cur
<1>8. Surrounded(eng[p], t.step[eng[p].run])
    <2>. HIDE DEF t
    <2>1. \A i \in 1..(eng[p].idx - 1) : i \in 1..Len(Order) /\ i # eng[p].idx
        BY <1>2
    <2>2. \A i \in (eng[p].idx + 1)..Len(Order) :
             i \in 1..Len(Order) /\ i # eng[p].idx
        BY <1>2
    <2>. QED BY <1>3, <1>6, <2>1, <2>2 DEF Surrounded
<1>. QED BY <1>4, <1>7, <1>8

\* A process that moves on within the step, or leaves, after recording it.
LEMMA WorkSet ==
    ASSUME OneAtATime, CInv, TypeInv', NEW p \in Procs, NEW from \in Working,
           NEW st \in Status, NEW a, NEW next \in Engines,
           Set(p, from, StepState(p, Cur(p), st), a, next),
           \/ next = Idle
           \/ next = At(p, "fail_meta")
           \/ next = NextStep(p) /\ st \in Done
           \/ next = At(p, next.pc) /\ st \notin Done
                 /\ next.pc \in Working \ {"run", "wait"}
    PROVE  CInv' /\ Kept(db')
<1> DEFINE t == StepState(p, Cur(p), st)
<1>1. /\ eng[p].pc = from /\ eng[p].pc # "idle" /\ from # "idle"
      /\ eng[p].pc \in AtStep /\ eng[p].pc \in InLoop
    BY DEF Set, Working, AtStep, InLoop
<1>2. eng[p] \in Engines BY <1>1, AtWork
<1>3. ~eng[p].ctxDone =>
         /\ Regular(t, started) /\ Kept(t)
         /\ Surrounded(eng[p], t.step[eng[p].run])
         /\ t.step[eng[p].run][Cur(p)] = st
    BY <1>1, CurWrite
<1>. HIDE DEF t
<1>4. Set(p, from, t, a, next) BY DEF t
<1>5. CASE next = Idle
    <2>1. next.pc = "idle" BY <1>5 DEF Idle
    <2>. QED BY <1>1, <1>3, <1>4, <2>1, SetSteady
<1>6. CASE next = At(p, "fail_meta")
    <2>1. next.pc = "fail_meta" /\ next.run = eng[p].run
          /\ next.ctxDone = eng[p].ctxDone
        BY <1>2, <1>6 DEF At, Engines
    <2>2. \A R : Follows(next, R)
        BY <2>1 DEF Follows, InLoop, Working, AtEnd
    <2>. QED BY <1>1, <1>3, <1>4, <2>1, <2>2, SetSteady
<1>7. CASE next = NextStep(p) /\ st \in Done
    <2>1. next.pc \in {"step", "finish_meta"} /\ next.run = eng[p].run
          /\ next.ctxDone = eng[p].ctxDone
        BY <1>2, <1>7 DEF NextStep, Engines
    <2>2. ~eng[p].ctxDone => Follows(next, t.step[eng[p].run])
        BY <1>1, <1>3, <1>7, NextFollows
    <2>. QED BY <1>1, <1>3, <1>4, <2>1, <2>2, SetSteady
<1>8. CASE next = At(p, next.pc) /\ st \notin Done
           /\ next.pc \in Working \ {"run", "wait"}
    <2>1. /\ next.run = eng[p].run /\ next.ctxDone = eng[p].ctxDone
          /\ next.idx = eng[p].idx /\ next.existing = eng[p].existing
        BY <1>2, <1>8 DEF At, Engines
    <2>2. ~eng[p].ctxDone => Follows(next, t.step[eng[p].run])
        BY <1>3, <1>8, <2>1, WorkFollows DEF Surrounded, Cur
    <2>3. next.pc # "idle" => next.run = eng[p].run
                              /\ next.ctxDone = eng[p].ctxDone
        BY <2>1
    <2>. QED BY <1>1, <1>3, <1>4, <1>8, <2>2, <2>3, SetSteady
<1>. QED BY <1>5, <1>6, <1>7, <1>8

\* Every write.
LEMMA SaveSteady ==
    ASSUME OneAtATime, CInv, TypeInv', NEW p \in Procs, NEW a, Save(p, a)
    PROVE  CInv' /\ Kept(db')
<1>1. eng[p].pc # "idle"
    BY DEF Save, SaveInitMeta, SaveInitLast, ResetInterrupted,
           SaveResolveFailure, SaveSkipped, SaveRunning, SaveRan, PersistOutput,
           SaveSucceeded, SaveFailed, SaveFailMeta, SaveFailLast,
           SaveFinishMeta, SaveFinishLast, Set
<1> DEFINE r == eng[p].run
           R == db.step[r]
<1>2. /\ TypeInv /\ eng[p] \in Engines /\ db \in Tables /\ r \in Runs
      /\ ~eng[p].ctxDone => Follows(eng[p], R)
      /\ Regular(db, started) /\ Len(Order) \in Nat
      /\ \A i \in 1..Len(Order) : Order[i] \in Steps
      /\ eng[p].idx \in 1..(Len(Order) + 1)
    BY <1>1, AtWork
<1>3. Idle \in Engines /\ Idle.pc = "idle" BY BeginType DEF Idle
<1>4. ASSUME NEW pc \in PC
      PROVE  /\ At(p, pc).pc = pc /\ At(p, pc).run = r
             /\ At(p, pc).idx = eng[p].idx /\ At(p, pc).dry = eng[p].dry
             /\ At(p, pc).existing = eng[p].existing
             /\ At(p, pc).ctxDone = eng[p].ctxDone
             /\ At(p, pc).todo = eng[p].todo
             /\ At(p, pc) \in Engines
    BY <1>2, MoveType DEF At, Engines
<1>5. CASE SaveInitMeta(p, a)
    <2> DEFINE t == RunMeta(p, "running")
               next == IF a = "ok" THEN At(p, "init_last") ELSE Idle
    <2>1. Regular(t, started) /\ Kept(t) /\ t.step = db.step
        BY <1>1, MetaWrite
    <2>2. eng[p].pc = "init_meta" BY <1>5 DEF SaveInitMeta, Set
    <2>3. /\ next \in Engines /\ next.pc \in {"idle", "init_last"}
          /\ next.pc # "idle" => next = At(p, "init_last")
        BY <1>3, <1>4 DEF PC
    <2>4. next.pc # "idle" => next.run = r /\ next.ctxDone = eng[p].ctxDone
        BY <1>4, <2>3 DEF PC
    <2>5. ~eng[p].ctxDone /\ next.pc # "idle" => Follows(next, R)
        <3>1. ~eng[p].ctxDone => /\ R = Nothing /\ eng[p].existing = Nothing
                                 /\ eng[p].idx = 1
            BY <1>2, <2>2 DEF Follows
        <3>2. next.pc # "idle" => /\ next.pc = "init_last"
                                  /\ next.idx = eng[p].idx
                                  /\ next.existing = eng[p].existing
            BY <1>4, <2>3 DEF PC
        <3>. HIDE DEF next, R
        <3>. QED BY <1>2, <3>1, <3>2 DEF Follows, InLoop, Working, AtEnd
    <2>6. Set(p, "init_meta", t, a, next) BY <1>5 DEF SaveInitMeta
    <2>. HIDE DEF t, next
    <2>. QED BY <2>1, <2>3, <2>4, <2>5, <2>6, SetSteady
<1>6. CASE SaveInitLast(p, a)
    <2> DEFINE t == LastRunID(p)
               next == IF a = "ok" THEN At(p, "step") ELSE Idle
    <2>1. Regular(t, started) /\ Kept(t) /\ t.step = db.step
        BY <1>1, OtherWrite
    <2>2. eng[p].pc = "init_last" BY <1>6 DEF SaveInitLast, Set
    <2>3. /\ next \in Engines /\ next.pc \in {"idle", "step"}
          /\ next.pc # "idle" => next = At(p, "step")
        BY <1>3, <1>4 DEF PC
    <2>4. next.pc # "idle" => next.run = r /\ next.ctxDone = eng[p].ctxDone
        BY <1>4, <2>3 DEF PC
    <2>5. ~eng[p].ctxDone /\ next.pc # "idle" => Follows(next, R)
        <3>1. ~eng[p].ctxDone => /\ R = Nothing /\ eng[p].existing = Nothing
                                 /\ eng[p].idx = 1
            BY <1>2, <2>2 DEF Follows
        <3>2. next.pc # "idle" => /\ next.pc = "step" /\ next.idx = eng[p].idx
                                  /\ next.existing = eng[p].existing
            BY <1>4, <2>3 DEF PC
        <3>. HIDE DEF next, R
        <3>. QED BY <1>2, <3>1, <3>2 DEF Follows, InLoop, Working, AtEnd
    <2>6. Set(p, "init_last", t, a, next) BY <1>6 DEF SaveInitLast
    <2>. HIDE DEF t, next
    <2>. QED BY <2>1, <2>3, <2>4, <2>5, <2>6, SetSteady
<1>7. ASSUME NEW s \in Steps, ResetInterrupted(p, s, a) PROVE CInv' /\ Kept(db')
    <2> DEFINE t == StepState(p, s, "failed")
               next == [eng[p] EXCEPT !.existing[s] = "failed",
                                      !.todo = @ \ {s}]
    <2>1. eng[p].pc = "reset" /\ s \in eng[p].todo
        BY <1>7 DEF ResetInterrupted, Set
    <2>2. PICK n \in 1..Len(Order) : Order[n] = s BY OrderAssumption
    <2>3. /\ next \in Engines
          /\ next.pc = "reset" /\ next.run = r /\ next.idx = eng[p].idx
          /\ next.ctxDone = eng[p].ctxDone /\ next.todo = eng[p].todo \ {s}
          /\ next.existing = [eng[p].existing EXCEPT ![s] = "failed"]
        BY <1>2, <2>1 DEF Engines, Status
    <2>4. ~eng[p].ctxDone =>
             /\ eng[p].idx = 1 /\ eng[p].existing = R
             /\ \A x \in Steps : x \in eng[p].todo => R[x] = "running"
        BY <1>2, <2>1 DEF Follows
    <2>5. ~eng[p].ctxDone => /\ Regular(t, started) /\ Kept(t)
                             /\ t.step[r] = [R EXCEPT ![s] = "failed"]
        <3>. SUFFICES ASSUME ~eng[p].ctxDone
                      PROVE  /\ Regular(t, started) /\ Kept(t)
                             /\ t.step[r] = [R EXCEPT ![s] = "failed"]
            OBVIOUS
        <3>1. R[Order[n]] = "running" BY <2>1, <2>2, <2>4
        <3>2. \A i \in 1..(n - 1) : R[Order[i]] \in Done
            BY <1>2, <3>1 DEF Regular
        <3>. QED BY <1>1, <2>2, <3>1, <3>2, StepWrite DEF Done, Status
    <2>6. ~eng[p].ctxDone => Follows(next, t.step[r])
        <3>. SUFFICES ASSUME ~eng[p].ctxDone PROVE Follows(next, t.step[r])
            OBVIOUS
        <3>1. R \in [Steps -> Status] BY <1>2 DEF Tables
        <3>2. \A x \in Steps : x \in next.todo => t.step[r][x] = "running"
            BY <2>3, <2>4, <2>5, <3>1
        <3>3. next.existing = t.step[r] BY <2>3, <2>4, <2>5
        <3>. HIDE DEF t, next
        <3>. QED BY <2>3, <2>4, <3>2, <3>3
                 DEF Follows, InLoop, Working, AtEnd
    <2>7. Set(p, "reset", t, a, next) BY <1>7 DEF ResetInterrupted
    <2>. HIDE DEF t, next
    <2>. QED BY <2>3, <2>5, <2>6, <2>7, SetSteady
<1>8. CASE SaveResolveFailure(p, a)
    BY <1>3, <1>8, WorkSet DEF SaveResolveFailure, Working, Status
<1>9. CASE SaveSkipped(p, a)
    <2>1. NextStep(p) \in Engines
        BY <1>2, <1>9, MovePlaced DEF SaveSkipped, Set, AtStep
    <2>. QED BY <1>9, <2>1, WorkSet DEF SaveSkipped, Working, Status, Done
<1>10. CASE SaveRunning(p, a)
    <2> DEFINE t == StepState(p, Cur(p), "running")
               next == IF a = "ok"
                       THEN [eng[p] EXCEPT !.pc = "run", !.attempt = 1]
                       ELSE Idle
    <2>1. eng[p].pc = "save_running" BY <1>10 DEF SaveRunning, Set
    <2>2. next \in Engines BY <1>2, <1>3 DEF Engines, PC
    <2>3. next.pc # "idle" =>
             /\ next.pc = "run" /\ next.run = r /\ next.idx = eng[p].idx
             /\ next.existing = eng[p].existing
             /\ next.ctxDone = eng[p].ctxDone /\ a = "ok"
        BY <1>2, <1>3 DEF Engines
    <2>4. ~eng[p].ctxDone =>
             /\ Regular(t, started) /\ Kept(t) /\ Surrounded(eng[p], t.step[r])
             /\ t.step[r][Cur(p)] = "running"
        BY <2>1, CurWrite DEF Working, Status
    <2>5. Set(p, "save_running", t, a, next) BY <1>10 DEF SaveRunning
    <2>. HIDE DEF t, next
    <2>6. a = "ok" => ~eng[p].ctxDone BY <2>5 DEF Set, Answers
    <2>7. next.pc # "idle" => Follows(next, t.step[r]) /\ Traced(next, t)
        <3>. SUFFICES ASSUME next.pc # "idle"
                      PROVE  Follows(next, t.step[r]) /\ Traced(next, t)
            OBVIOUS
        <3>1. t.step[r][Order[next.idx]] = "running" BY <2>3, <2>4, <2>6 DEF Cur
        <3>2. Surrounded(next, t.step[r]) BY <2>3, <2>4, <2>6 DEF Surrounded
        <3>. QED BY <2>3, <3>1, <3>2, WorkFollows DEF Working, Done, Traced
    <2>. QED BY <2>2, <2>3, <2>4, <2>5, <2>7, SetSteady
<1>11. CASE SaveRan(p, a)
    <2> DEFINE st == IF eng[p].outcome = "error" THEN "failed" ELSE "running"
               pc == IF eng[p].outcome = "ok" THEN "outputs" ELSE "save_failed"
    <2>1. pc \in PC /\ pc \in Working \ {"run", "wait"} BY DEF PC, Working
    <2>2. st \in Status /\ st \notin Done BY DEF Status, Done
    <2>3. Set(p, "save_ran", StepState(p, Cur(p), st), a, At(p, pc))
        BY <1>11 DEF SaveRan
    <2>. HIDE DEF st, pc
    <2>. QED BY <1>4, <2>1, <2>2, <2>3, WorkSet DEF Working
<1>12. ASSUME NEW k \in Keys, PersistOutput(p, k, a) PROVE CInv' /\ Kept(db')
    <2> DEFINE t == [db EXCEPT !.out[k] = eng[p].run]
               next == [eng[p] EXCEPT !.todo = @ \ {k}]
    <2>1. eng[p].pc = "outputs" BY <1>12 DEF PersistOutput, Set
    <2>2. Regular(t, started) /\ Kept(t) /\ t.step = db.step
        BY <1>1, OtherWrite
    <2>3. /\ next \in Engines
          /\ next.pc = "outputs" /\ next.run = r /\ next.idx = eng[p].idx
          /\ next.existing = eng[p].existing /\ next.ctxDone = eng[p].ctxDone
        BY <1>2, <2>1 DEF Engines
    <2>4. ~eng[p].ctxDone => Follows(next, R)
        <3>1. eng[p].pc \in Working /\ next.pc \in Working
            BY <2>1, <2>3 DEF Working
        <3>. HIDE DEF next
        <3>2. ~eng[p].ctxDone =>
                 Surrounded(next, R) /\ R[Order[next.idx]] \notin Done
            BY <2>3, <3>1, Inside DEF Surrounded, Cur
        <3>. QED BY <3>1, <3>2, WorkFollows
    <2>5. Set(p, "outputs", t, a, next) BY <1>12 DEF PersistOutput
    <2>. HIDE DEF t, next
    <2>. QED BY <2>2, <2>3, <2>4, <2>5, SetSteady
<1>13. CASE SaveSucceeded(p, a)
    <2>1. NextStep(p) \in Engines
        BY <1>2, <1>13, MovePlaced DEF SaveSucceeded, Set, AtStep
    <2>. QED BY <1>13, <2>1, WorkSet DEF SaveSucceeded, Working, Status, Done
<1>14. CASE SaveFailed(p, a)
    BY <1>4, <1>14, WorkSet DEF SaveFailed, Working, Status, PC
<1>15. CASE SaveFailMeta(p, a)
    <2> DEFINE t == RunMeta(p, "failed")
               next == IF a = "ok" THEN At(p, "fail_last") ELSE Idle
    <2>1. Regular(t, started) /\ Kept(t) BY <1>1, MetaWrite
    <2>2. /\ next \in Engines /\ next.pc \in {"idle", "fail_last"}
          /\ next.pc # "idle" => next.run = r /\ next.ctxDone = eng[p].ctxDone
        BY <1>3, <1>4 DEF PC
    <2>3. Follows(next, t.step[r])
        BY <2>2 DEF Follows, InLoop, Working, AtEnd
    <2>4. Set(p, "fail_meta", t, a, next) BY <1>15 DEF SaveFailMeta
    <2>. HIDE DEF t, next
    <2>. QED BY <2>1, <2>2, <2>3, <2>4, SetSteady
<1>16. CASE SaveFailLast(p, a) \/ SaveFinishLast(p, a)
    <2>1. PICK from \in {"fail_last", "finish_last"} :
             Set(p, from, LastRunID(p), a, Idle)
        BY <1>16 DEF SaveFailLast, SaveFinishLast
    <2>2. Regular(LastRunID(p), started) /\ Kept(LastRunID(p))
        BY <1>1, OtherWrite
    <2>. QED BY <1>3, <2>1, <2>2, SetSteady
<1>17. CASE SaveFinishMeta(p, a)
    <2> DEFINE t == RunMeta(p, "succeeded")
               next == IF a = "ok" THEN At(p, "finish_last") ELSE Idle
    <2>1. eng[p].pc = "finish_meta" BY <1>17 DEF SaveFinishMeta, Set
    <2>2. ~eng[p].ctxDone => \A s \in Steps : R[s] \in Done
        BY <1>2, <2>1 DEF Follows, AtEnd
    <2>3. ~eng[p].ctxDone => Regular(t, started) /\ Kept(t) /\ t.step = db.step
        BY <1>1, <2>2, MetaWrite
    <2>4. /\ next \in Engines /\ next.pc \in {"idle", "finish_last"}
          /\ next.pc # "idle" => next.run = r /\ next.ctxDone = eng[p].ctxDone
        BY <1>3, <1>4 DEF PC
    <2>5. ~eng[p].ctxDone => Follows(next, R)
        BY <2>2, <2>4 DEF Follows, InLoop, Working, AtEnd
    <2>6. Set(p, "finish_meta", t, a, next) BY <1>17 DEF SaveFinishMeta
    <2>. HIDE DEF t, next
    <2>. QED BY <2>3, <2>4, <2>5, <2>6, SetSteady
<1>. QED BY <1>5, <1>6, <1>7, <1>8, <1>9, <1>10, <1>11, <1>12, <1>13,
             <1>14, <1>15, <1>16, <1>17 DEF Save

-------------------------------------------------------------------------------
(* The other steps *)

\* A process that carries on with the step at hand.
LEMMA WorkSteady ==
    ASSUME CInv, NEW p \in Procs, eng[p].pc \in Working, NEW e,
           e.pc \in Working, e.run = eng[p].run, e.idx = eng[p].idx,
           e.existing = eng[p].existing, e.ctxDone = eng[p].ctxDone,
           e.pc \in {"run", "wait"} => eng[p].pc \in {"run", "wait"}
    PROVE  Steady(e, db, started)
<1>1. eng[p].pc # "idle" BY DEF Working
<1>2. eng[p].run \in started /\ Traced(eng[p], db) BY <1>1, AtWork
<1>3. ~e.ctxDone => Surrounded(e, db.step[e.run])
                    /\ db.step[e.run][Order[e.idx]] \notin Done
    BY Inside DEF Surrounded, Cur
<1>. QED BY <1>2, <1>3, WorkFollows DEF Steady, Traced

\* The steps of the process that leave the store alone.
LEMMA LocalStepSteady ==
    ASSUME OneAtATime, CInv, TypeInv', NEW p \in Procs,
           \/ LoadStates(p)
           \/ LoadFails(p)
           \/ ResetDone(p)
           \/ SkipRecorded(p)
           \/ Resolve(p)
           \/ ResolveFails(p)
           \/ FoundDone(p)
           \/ FoundNotDone(p)
           \/ BackoffElapses(p)
           \/ BackoffCancelled(p)
           \/ OutputsPersisted(p)
    PROVE  CInv' /\ Kept(db')
<1> DEFINE r == eng[p].run
           R == db.step[r]
<1>1. eng[p].pc # "idle"
    BY DEF LoadStates, LoadFails, ResetDone, SkipRecorded, Resolve,
           ResolveFails, FoundDone, FoundNotDone, BackoffElapses,
           BackoffCancelled, OutputsPersisted, Local
<1>2. /\ TypeInv /\ eng[p] \in Engines /\ db \in Tables /\ r \in Runs
      /\ r \in started /\ Regular(db, started) /\ Traced(eng[p], db)
      /\ ~eng[p].ctxDone => Follows(eng[p], R)
      /\ Len(Order) \in Nat
    BY <1>1, AtWork
<1>3. ASSUME NEW next, NEW from, Local(p, from, next), Steady(next, db, started)
      PROVE  CInv' /\ Kept(db')
    <2>1. \A q \in Runs \ started : db.step[q] = Nothing BY <1>2 DEF Regular
    <2>. QED BY <1>3, <2>1, LocalSteady DEF Local
<1>4. ASSUME NEW pc \in PC
      PROVE  /\ At(p, pc).pc = pc /\ At(p, pc).run = r
             /\ At(p, pc).idx = eng[p].idx
             /\ At(p, pc).existing = eng[p].existing
             /\ At(p, pc).ctxDone = eng[p].ctxDone
    BY <1>2 DEF At, Engines
<1>5. CASE LoadStates(p)
    <2>1. PICK page \in Pages :
             /\ ~eng[p].ctxDone
             /\ Local(p, "load",
                [eng[p] EXCEPT !.pc = "reset", !.existing = Found(r, page),
                   !.todo = {s \in Steps : Found(r, page)[s] = "running"}])
        BY <1>5 DEF LoadStates
    <2>2. Found(r, page) = R
        <3>1. R = [s \in Steps |-> R[s]] BY <1>2 DEF Tables
        <3>. QED BY <3>1 DEF OneAtATime, Found
    <2> DEFINE next == [eng[p] EXCEPT !.pc = "reset", !.existing = R,
                          !.todo = {s \in Steps : R[s] = "running"}]
    <2>3. Local(p, "load", next) BY <2>1, <2>2
    <2>4. /\ next.pc = "reset" /\ next.run = r /\ next.idx = eng[p].idx
          /\ next.existing = R
          /\ next.todo = {s \in Steps : R[s] = "running"}
        BY <1>2 DEF Engines
    <2>5. eng[p].idx = 1 BY <1>2, <2>1 DEF Follows, Local
    <2>. HIDE DEF next, R
    <2>6. Follows(next, R) BY <2>4, <2>5 DEF Follows, InLoop, Working, AtEnd
    <2>7. Steady(next, db, started) BY <1>2, <2>4, <2>6 DEF Steady, Traced, R
    <2>. QED BY <1>3, <2>3, <2>7
<1>6. CASE LoadFails(p)
    BY <1>3, <1>6 DEF LoadFails, Steady, Traced, Idle
<1>7. CASE ResetDone(p)
    <2>1. Local(p, "reset", At(p, "step")) BY <1>7 DEF ResetDone
    <2>2. ~eng[p].ctxDone => eng[p].idx = 1 /\ eng[p].existing = R
        BY <1>2, <2>1 DEF Follows, Local
    <2>3. ~eng[p].ctxDone => Follows(At(p, "step"), R)
        <3>1. /\ At(p, "step").pc = "step" /\ At(p, "step").idx = eng[p].idx
              /\ At(p, "step").existing = eng[p].existing
            BY <1>4 DEF PC
        <3>. HIDE DEF R
        <3>. QED BY <1>2, <2>2, <3>1 DEF Follows, InLoop, Working, AtEnd
    <2>4. Steady(At(p, "step"), db, started)
        BY <1>2, <1>4, <2>3 DEF Steady, Traced, PC
    <2>. QED BY <1>3, <2>1, <2>4
<1>8. CASE SkipRecorded(p)
    <2>1. /\ Local(p, "step", NextStep(p)) /\ eng[p].pc = "step"
          /\ eng[p].existing[Cur(p)] \in Done
        BY <1>8 DEF SkipRecorded
    <2>2. ~eng[p].ctxDone => Surrounded(eng[p], R) /\ R[Cur(p)] \in Done
        BY <1>2, <2>1 DEF Follows, Surrounded, InLoop, Cur
    <2>3. ~eng[p].ctxDone => Follows(NextStep(p), R)
        BY <2>1, <2>2, NextFollows DEF InLoop
    <2>4. /\ NextStep(p).run = r /\ NextStep(p).ctxDone = eng[p].ctxDone
          /\ NextStep(p).pc \in {"step", "finish_meta"}
        BY <1>2 DEF NextStep, Engines
    <2>5. Steady(NextStep(p), db, started)
        BY <1>2, <2>3, <2>4 DEF Steady, Traced
    <2>. QED BY <1>3, <2>1, <2>5
<1>9. CASE Resolve(p) \/ ResolveFails(p)
    <2>1. PICK pc \in {"isdone", "resolve_failed"} :
             Local(p, "step", At(p, pc)) /\ eng[p].existing[Cur(p)] \notin Done
        BY <1>9 DEF Resolve, ResolveFails
    <2>2. pc \in PC /\ pc \in Working BY DEF PC, Working
    <2>3. ~eng[p].ctxDone => Surrounded(eng[p], R) /\ R[Cur(p)] \notin Done
        BY <1>2, <2>1 DEF Follows, Surrounded, InLoop, Cur, Local
    <2>4. ~eng[p].ctxDone => Follows(At(p, pc), R)
        BY <1>4, <2>2, <2>3, WorkFollows DEF Surrounded, Cur
    <2>5. Steady(At(p, pc), db, started)
        BY <1>2, <1>4, <2>2, <2>4 DEF Steady, Traced
    <2>. QED BY <1>3, <2>1, <2>5
<1>10. CASE FoundDone(p) \/ FoundNotDone(p) \/ OutputsPersisted(p)
    <2>1. PICK from \in Working,
               pc \in {"save_skipped", "save_running", "save_succeeded"} :
             Local(p, from, At(p, pc))
        BY <1>10 DEF FoundDone, FoundNotDone, OutputsPersisted, Working
    <2>2. pc \in PC /\ pc \in Working /\ eng[p].pc \in Working
        BY <2>1 DEF PC, Working, Local
    <2>3. Steady(At(p, pc), db, started) BY <1>4, <2>2, WorkSteady
    <2>. QED BY <1>3, <2>1, <2>3
<1>11. CASE BackoffElapses(p) \/ BackoffCancelled(p)
    <2>1. PICK next :
             /\ Local(p, "wait", next)
             /\ next.pc \in {"run", "save_ran"} /\ next.run = r
             /\ next.idx = eng[p].idx /\ next.existing = eng[p].existing
             /\ next.ctxDone = eng[p].ctxDone
        <3>1. ASSUME NEW next,
                     \/ next = [eng[p] EXCEPT !.pc = "run", !.attempt = @ + 1]
                     \/ next = [eng[p] EXCEPT !.pc = "save_ran",
                                             !.outcome = "cancelled"]
              PROVE  /\ next.pc \in {"run", "save_ran"} /\ next.run = r
                     /\ next.idx = eng[p].idx /\ next.existing = eng[p].existing
                     /\ next.ctxDone = eng[p].ctxDone
            BY <1>2, <3>1 DEF Engines
        <3>. HIDE DEF r
        <3>2. CASE BackoffElapses(p) BY <3>1, <3>2 DEF BackoffElapses
        <3>3. CASE BackoffCancelled(p) BY <3>1, <3>3 DEF BackoffCancelled
        <3>. QED BY <1>11, <3>2, <3>3
    <2>2. Steady(next, db, started) BY <2>1, WorkSteady DEF Working, Local
    <2>. QED BY <1>3, <2>1, <2>2
<1>. QED BY <1>5, <1>6, <1>7, <1>8, <1>9, <1>10, <1>11

\* An attempt of Run.
LEMMA RunSteady ==
    ASSUME OneAtATime, CInv, TypeInv', NEW p \in Procs,
           RunFails(p) \/ \E set \in SUBSET Keys : RunSucceeds(p, set)
    PROVE  CInv' /\ Kept(db')
<1>1. eng[p].pc = "run" /\ db' = db /\ started' = started
    BY DEF RunFails, RunSucceeds
<1>2. eng[p] \in Engines /\ TypeOK /\ Regular(db, started) BY <1>1, AtWork
<1>3. PICK next : /\ eng' = [eng EXCEPT ![p] = next]
                  /\ next.pc \in {"wait", "save_ran"} /\ next.run = eng[p].run
                  /\ next.idx = eng[p].idx /\ next.existing = eng[p].existing
                  /\ next.ctxDone = eng[p].ctxDone
    <2>1. /\ eng' = [eng EXCEPT ![p] = eng'[p]]
          /\ eng'[p].pc \in {"wait", "save_ran"} /\ eng'[p].run = eng[p].run
          /\ eng'[p].idx = eng[p].idx /\ eng'[p].existing = eng[p].existing
          /\ eng'[p].ctxDone = eng[p].ctxDone
        BY <1>2 DEF RunFails, RunSucceeds, TypeOK, Engines
    <2>. QED BY <2>1
<1>4. Steady(next, db, started) BY <1>1, <1>3, WorkSteady DEF Working
<1>5. \A q \in Runs \ started : db.step[q] = Nothing BY <1>2 DEF Regular
<1>. QED BY <1>1, <1>3, <1>4, <1>5, LocalSteady

\* The commands, a signal and a kill.
LEMMA CommandSteady ==
    ASSUME OneAtATime, CInv, TypeInv', NEW p \in Procs,
           Command(p) \/ Interrupt(p)
    PROVE  CInv' /\ Kept(db')
<1>1. TypeOK /\ Regular(db, started) /\ eng[p] \in Engines
    BY DEF CInv, TypeInv, TypeOK
<1>2. ASSUME NEW r \in Runs, NEW dry \in DryRunFlags,
             StartInit(p, r, dry) \/ Resume(p, r, dry)
      PROVE  CInv' /\ Kept(db')
    <2>1. PICK pc \in {"init_meta", "load"} :
             /\ eng' = [eng EXCEPT ![p] = Begin(pc, r, dry)]
             /\ pc = "init_meta" => r \notin started
        BY <1>2 DEF StartInit, Resume
    <2>2. db' = db /\ started' = started \cup {r}
        BY <1>2 DEF StartInit, Resume
    <2>3. /\ Begin(pc, r, dry).pc = pc /\ Begin(pc, r, dry).run = r
          /\ Begin(pc, r, dry).idx = 1 /\ Begin(pc, r, dry).existing = Nothing
        BY DEF Begin, Idle
    <2>4. pc = "init_meta" => db.step[r] = Nothing BY <1>1, <2>1 DEF Regular
    <2>5. Follows(Begin(pc, r, dry), db.step[r])
        BY <2>3, <2>4 DEF Follows, InLoop, Working, AtEnd
    <2>6. Steady(Begin(pc, r, dry), db, started')
        BY <2>2, <2>3, <2>5 DEF Steady, Traced
    <2>7. \A q \in Runs \ started' : db.step[q] = Nothing
        BY <1>1, <2>2 DEF Regular
    <2>. QED BY <2>1, <2>2, <2>6, <2>7, LocalSteady
<1>3. ASSUME NEW next, eng' = [eng EXCEPT ![p] = next], db' = db,
             started' = started, Steady(next, db, started)
      PROVE  CInv' /\ Kept(db')
    <2>1. \A q \in Runs \ started : db.step[q] = Nothing BY <1>1 DEF Regular
    <2>. QED BY <1>3, <2>1, LocalSteady
<1>4. CASE Signal(p)
    <2> DEFINE next == [eng[p] EXCEPT !.ctxDone = TRUE]
    <2>1. /\ next.pc = eng[p].pc /\ next.run = eng[p].run
          /\ next.idx = eng[p].idx /\ next.ctxDone = TRUE
        BY <1>1 DEF Engines
    <2>2. eng' = [eng EXCEPT ![p] = next]
        BY <1>1, <1>4 DEF Signal, TypeOK, Engines
    <2>3. Steady(eng[p], db, started) BY DEF CInv
    <2>. HIDE DEF next
    <2>4. Steady(next, db, started) BY <2>1, <2>3 DEF Steady, Traced
    <2>. QED BY <1>3, <1>4, <2>2, <2>4 DEF Signal
<1>5. CASE Kill(p)
    BY <1>3, <1>5 DEF Kill, Steady, Traced, Idle
<1>. QED BY <1>2, <1>4, <1>5 DEF Command, Interrupt

-------------------------------------------------------------------------------
(* The theorems *)

LEMMA NextSteady ==
    ASSUME OneAtATime PROVE CInv /\ [Next]_vars => CInv' /\ Kept(db')
<1>. SUFFICES ASSUME CInv, [Next]_vars PROVE CInv' /\ Kept(db')
    OBVIOUS
<1>1. TypeInv' BY NextPlaced DEF CInv
<1>2. CASE UNCHANGED vars
    BY <1>1, <1>2 DEF vars, CInv, Regular, Steady, Follows, Traced, Kept
<1>3. ASSUME NEW p \in Procs, Proceed(p) PROVE CInv' /\ Kept(db')
    BY <1>1, <1>3, SaveSteady, LocalStepSteady, RunSteady DEF Proceed
<1>4. ASSUME NEW p \in Procs, Fault(p) PROVE CInv' /\ Kept(db')
    BY <1>1, <1>4, SaveSteady, LocalStepSteady, RunSteady DEF Fault
<1>. QED BY <1>1, <1>2, <1>3, <1>4, CommandSteady DEF Next

LEMMA InitSteady == Init => CInv
<1>. SUFFICES ASSUME Init PROVE CInv
    OBVIOUS
<1>1. \A p \in Procs : Steady(eng[p], db, started)
    BY DEF Init, Steady, Traced, Idle
<1>2. Regular(db, started)
    <2>1. /\ \A r \in Runs : db.step[r] = Nothing /\ db.meta[r] = "none"
        BY DEF Init
    <2>2. \A i \in 1..Len(Order) : Nothing[Order[i]] = "none"
        BY OrderAssumption DEF Nothing
    <2>. QED BY <2>1, <2>2 DEF Regular
<1>. QED BY <1>1, <1>2, InitPlaced DEF CInv

\* The inductive invariant of the records of one process at a time.
THEOREM Consistent == ASSUME OneAtATime PROVE Spec => []CInv
<1>1. CInv /\ [Next]_vars => CInv' BY NextSteady
<1>. QED BY <1>1, InitSteady, PTL DEF Spec

\* Kills and signals at any moment leave the records of every run a finished
\* prefix of the order and one step more, which is what Resume counts on.
THEOREM RecordsAreAPrefix ==
    ASSUME OneAtATime PROVE Spec => []CheckpointPrefix
<1>1. CInv => CheckpointPrefix BY DEF CInv, Regular, CheckpointPrefix
<1>. QED BY <1>1, Consistent, PTL

\* A run recorded SUCCEEDED has all its steps recorded.
THEOREM CompletionIsRecorded ==
    ASSUME OneAtATime PROVE Spec => []CompleteMeansRecorded
<1>1. CInv => CompleteMeansRecorded
    BY DEF CInv, Regular, CompleteMeansRecorded
<1>. QED BY <1>1, Consistent, PTL

\* A step that is being executed is recorded RUNNING, signals included.
THEOREM RunningIsTraced ==
    ASSUME OneAtATime PROVE Spec => []RunningIsDurable
<1>1. CInv => RunningIsDurable
    BY DEF CInv, Steady, Traced, Cur, RunningIsDurable
<1>. QED BY <1>1, Consistent, PTL

\* No resume takes a SUCCEEDED or SKIPPED record back.
THEOREM FinishedStaysFinished ==
    ASSUME OneAtATime PROVE Spec => SucceededIsStable
<1>1. CInv /\ [Next]_vars =>
         [\A r \in Runs, s \in Steps :
             db.step[r][s] \in Done => db'.step[r][s] = db.step[r][s]]_vars
    BY NextSteady DEF Kept
<1>. QED BY <1>1, Consistent, PTL DEF Spec, SucceededIsStable

-------------------------------------------------------------------------------
(* The outputs: any number of processes, no dry runs, a store that answers *)

\* An engine whose context is live has the outputs of its step in hand or has
\* stored them, from the attempt that succeeded to the record of it.
Holds(e, t) ==
    ~e.ctxDone =>
        /\ e.pc = "save_ran" /\ e.outcome = "ok" =>
              \A k \in Keys : Owner[k] = Order[e.idx] => k \in e.todo
        /\ e.pc = "outputs" =>
              \A k \in Keys : Owner[k] = Order[e.idx] =>
                                 k \in e.todo \/ t.out[k] # NoRun
        /\ e.pc = "save_succeeded" =>
              \A k \in Keys : Owner[k] = Order[e.idx] => t.out[k] # NoRun

Persisted(t) == \A r \in Runs, k \in Keys :
                   t.step[r][Owner[k]] = "succeeded" => t.out[k] # NoRun

OInv == /\ Persisted(db)
        /\ \A p \in Procs : Holds(eng[p], db)

\* No stored output is lost.
Extends(t) == \A k \in Keys : db.out[k] # NoRun => t.out[k] # NoRun

\* Where nothing has to be held.
Free == PC \ {"save_ran", "outputs", "save_succeeded"}

LEMMA SetHolds ==
    ASSUME StoreMayFail = FALSE, TypeInv, OInv, NEW p \in Procs, NEW from,
           NEW new, NEW a, NEW next \in Engines, Set(p, from, new, a, next),
           next.pc # "idle" => next.ctxDone = eng[p].ctxDone,
           ~eng[p].ctxDone => Extends(new) /\ Persisted(new) /\ Holds(next, new)
    PROVE  OInv'
<1>1. IF eng[p].ctxDone THEN a = "refused" ELSE a \in {"ok", "cut"}
    BY DEF Set, Answers
<1>2. Extends(db') /\ Persisted(db')
    <2>1. CASE eng[p].ctxDone BY <1>1, <2>1 DEF Set, OInv, Extends
    <2>2. CASE ~eng[p].ctxDone BY <1>1, <2>2 DEF Set
    <2>. QED BY <2>1, <2>2
<1>3. ASSUME NEW q \in Procs \ {p} PROVE Holds(eng'[q], db')
    <2>1. eng'[q] = eng[q] BY DEF Set, TypeInv, TypeOK
    <2>. QED BY <1>2, <2>1 DEF OInv, Holds, Extends
<1>4. Holds(eng'[p], db')
    <2>1. CASE a = "cut" /\ next # Idle
        <3>1. eng'[p] = [next EXCEPT !.ctxDone = TRUE]
            BY <2>1 DEF Set, TypeInv, TypeOK
        <3>2. eng'[p].ctxDone = TRUE BY <3>1 DEF Engines
        <3>. QED BY <3>2 DEF Holds
    <2>2. CASE ~(a = "cut" /\ next # Idle)
        <3>1. eng'[p] = next BY <2>2 DEF Set, TypeInv, TypeOK
        <3>2. CASE next.pc = "idle" BY <3>1, <3>2 DEF Holds
        <3>3. CASE next.pc # "idle" /\ eng[p].ctxDone
            BY <3>1, <3>3 DEF Holds
        <3>4. CASE ~eng[p].ctxDone
            <4>1. db' = new BY <1>1, <3>4 DEF Set
            <4>. QED BY <3>1, <3>4, <4>1
        <3>. QED BY <3>2, <3>3, <3>4
    <2>. QED BY <2>1, <2>2
<1>. QED BY <1>2, <1>3, <1>4 DEF OInv

\* A write of anything but SUCCEEDED and the outputs.
LEMMA TableHolds ==
    ASSUME TypeInv, OInv, NEW p \in Procs, eng[p].run \in Runs
    PROVE  /\ \A s \in Steps, st \in Status \ {"succeeded"} :
                 Extends(StepState(p, s, st)) /\ Persisted(StepState(p, s, st))
           /\ \A st : Extends(RunMeta(p, st)) /\ Persisted(RunMeta(p, st))
           /\ Extends(LastRunID(p)) /\ Persisted(LastRunID(p))
<1>1. db \in Tables BY DEF TypeInv, TypeOK
<1>2. ASSUME NEW s \in Steps, NEW st \in Status \ {"succeeded"}
      PROVE  Extends(StepState(p, s, st)) /\ Persisted(StepState(p, s, st))
    <2> DEFINE t == StepState(p, s, st)
    <2>1. /\ t.out = db.out
          /\ t.step = [db.step EXCEPT ![eng[p].run][s] = st]
        BY <1>1 DEF StepState, Tables
    <2>2. \A r \in Runs, x \in Steps :
             t.step[r][x] = "succeeded" => db.step[r][x] = "succeeded"
        BY <1>1, <2>1 DEF Tables
    <2>. HIDE DEF t
    <2>3. Extends(t) /\ Persisted(t)
        BY <2>1, <2>2, StepsAssumption DEF Extends, Persisted, OInv
    <2>. QED BY <2>3 DEF t
<1>3. ASSUME NEW st PROVE Extends(RunMeta(p, st)) /\ Persisted(RunMeta(p, st))
    <2>1. RunMeta(p, st).out = db.out /\ RunMeta(p, st).step = db.step
        BY <1>1 DEF RunMeta, Tables
    <2>. QED BY <2>1 DEF Extends, Persisted, OInv
<1>4. Extends(LastRunID(p)) /\ Persisted(LastRunID(p))
    <2>1. LastRunID(p).out = db.out /\ LastRunID(p).step = db.step
        BY <1>1 DEF LastRunID, Tables
    <2>. QED BY <2>1 DEF Extends, Persisted, OInv
<1>. QED BY <1>2, <1>3, <1>4

LEMMA SaveHolds ==
    ASSUME StoreMayFail = FALSE, TypeInv, OInv, NEW p \in Procs, NEW a,
           Save(p, a)
    PROVE  OInv'
<1>1. eng[p].pc \in AtStep \cup AtEnd
    BY DEF Save, SaveInitMeta, SaveInitLast, ResetInterrupted,
           SaveResolveFailure, SaveSkipped, SaveRunning, SaveRan, PersistOutput,
           SaveSucceeded, SaveFailed, SaveFailMeta, SaveFailLast,
           SaveFinishMeta, SaveFinishLast, Set, AtStep, AtEnd
<1>2. /\ eng[p] \in Engines /\ eng[p].run \in Runs /\ db \in Tables
      /\ Holds(eng[p], db)
    BY <1>1 DEF TypeInv, TypeOK, Placed, AtStep, AtEnd, OInv
<1>3. Idle \in Engines /\ Idle.pc = "idle" BY BeginType DEF Idle
<1>4. ASSUME NEW pc \in PC
      PROVE  /\ At(p, pc) \in Engines /\ At(p, pc).pc = pc
             /\ At(p, pc).idx = eng[p].idx /\ At(p, pc).todo = eng[p].todo
             /\ At(p, pc).ctxDone = eng[p].ctxDone
    BY <1>2, MoveType DEF At, Engines
<1>5. eng[p].pc \in AtStep =>
         /\ NextStep(p) \in Engines /\ NextStep(p).pc \in Free
         /\ NextStep(p).ctxDone = eng[p].ctxDone
         /\ Cur(p) \in Steps
    <2>. SUFFICES ASSUME eng[p].pc \in AtStep
                  PROVE  /\ NextStep(p) \in Engines /\ NextStep(p).pc \in Free
                         /\ NextStep(p).ctxDone = eng[p].ctxDone
                         /\ Cur(p) \in Steps
        OBVIOUS
    <2>1. NextStep(p) \in Engines /\ Cur(p) \in Steps BY MovePlaced
    <2>2. /\ NextStep(p).pc \in {"step", "finish_meta"}
          /\ NextStep(p).ctxDone = eng[p].ctxDone
        BY <1>2 DEF NextStep, Engines
    <2>. QED BY <2>1, <2>2 DEF Free, PC
<1>6. ASSUME NEW from, NEW new, NEW next \in Engines,
             Set(p, from, new, a, next), next.pc \in Free,
             next.pc # "idle" => next.ctxDone = eng[p].ctxDone,
             Extends(new) /\ Persisted(new)
      PROVE  OInv'
    <2>1. Holds(next, new) BY <1>6 DEF Holds, Free
    <2>. QED BY <1>6, <2>1, SetHolds
<1>7. CASE SaveInitMeta(p, a) \/ SaveFailMeta(p, a) \/ SaveFinishMeta(p, a)
    <2>1. ASSUME NEW from, NEW st, NEW pc \in PC \cap Free,
                 Set(p, from, RunMeta(p, st), a,
                     IF a = "ok" THEN At(p, pc) ELSE Idle)
          PROVE  OInv'
        <3> DEFINE next == IF a = "ok" THEN At(p, pc) ELSE Idle
        <3>1. /\ next \in Engines /\ next.pc \in Free
              /\ next.pc # "idle" => next.ctxDone = eng[p].ctxDone
            BY <1>3, <1>4 DEF Free, PC
        <3>2. Set(p, from, RunMeta(p, st), a, next) BY <2>1
        <3>. HIDE DEF next
        <3>. QED BY <1>2, <1>6, <3>1, <3>2, TableHolds
    <2>2. {"init_last", "fail_last", "finish_last"} \subseteq PC \cap Free
        BY DEF PC, Free
    <2>3. CASE SaveInitMeta(p, a) BY <2>1, <2>2, <2>3 DEF SaveInitMeta
    <2>4. CASE SaveFailMeta(p, a) BY <2>1, <2>2, <2>4 DEF SaveFailMeta
    <2>5. CASE SaveFinishMeta(p, a) BY <2>1, <2>2, <2>5 DEF SaveFinishMeta
    <2>. QED BY <1>7, <2>3, <2>4, <2>5
<1>8. CASE SaveInitLast(p, a) \/ SaveFailLast(p, a) \/ SaveFinishLast(p, a)
    <2>1. PICK from, next : /\ Set(p, from, LastRunID(p), a, next)
                            /\ next = At(p, "step") \/ next = Idle
        BY <1>8 DEF SaveInitLast, SaveFailLast, SaveFinishLast
    <2>2. /\ next \in Engines /\ next.pc \in Free
          /\ next.pc # "idle" => next.ctxDone = eng[p].ctxDone
        BY <1>3, <1>4, <2>1 DEF Free, PC
    <2>. QED BY <1>2, <1>6, <2>1, <2>2, TableHolds
<1>9. CASE \E s \in Steps : ResetInterrupted(p, s, a)
    <2>1. PICK s \in Steps : ResetInterrupted(p, s, a) BY <1>9
    <2> DEFINE next == [eng[p] EXCEPT !.existing[s] = "failed",
                                      !.todo = @ \ {s}]
    <2>2. /\ Set(p, "reset", StepState(p, s, "failed"), a, next)
          /\ eng[p].pc = "reset"
        BY <2>1 DEF ResetInterrupted, Set
    <2>3. next \in Engines /\ next.pc \in Free /\ next.ctxDone = eng[p].ctxDone
        BY <1>2, <2>2 DEF Engines, Status, Free, PC
    <2>. HIDE DEF next
    <2>. QED BY <1>2, <1>6, <2>2, <2>3, TableHolds DEF Status
<1>10. CASE SaveResolveFailure(p, a) \/ SaveSkipped(p, a) \/ SaveFailed(p, a)
    <2>1. ASSUME NEW from \in AtStep, NEW st \in {"failed", "skipped"},
                 NEW next, Set(p, from, StepState(p, Cur(p), st), a, next),
                 \/ next = Idle
                 \/ next = NextStep(p)
                 \/ next = At(p, "fail_meta")
          PROVE  OInv'
        <3>1. eng[p].pc \in AtStep BY <2>1 DEF Set
        <3>2. /\ next \in Engines /\ next.pc \in Free
              /\ next.pc # "idle" => next.ctxDone = eng[p].ctxDone
            BY <1>3, <1>4, <1>5, <2>1, <3>1 DEF Free, PC
        <3>. QED BY <1>2, <1>5, <1>6, <2>1, <3>1, <3>2, TableHolds DEF Status
    <2>2. {"resolve_failed", "save_skipped", "save_failed"} \subseteq AtStep
        BY DEF AtStep
    <2>3. CASE SaveResolveFailure(p, a)
        BY <2>1, <2>2, <2>3 DEF SaveResolveFailure
    <2>4. CASE SaveSkipped(p, a) BY <2>1, <2>2, <2>4 DEF SaveSkipped
    <2>5. CASE SaveFailed(p, a) BY <2>1, <2>2, <2>5 DEF SaveFailed
    <2>. QED BY <1>10, <2>3, <2>4, <2>5
<1>11. CASE SaveRunning(p, a)
    <2> DEFINE next == IF a = "ok"
                       THEN [eng[p] EXCEPT !.pc = "run", !.attempt = 1]
                       ELSE Idle
    <2>1. /\ Set(p, "save_running", StepState(p, Cur(p), "running"), a, next)
          /\ eng[p].pc \in AtStep
        BY <1>11 DEF SaveRunning, Set, AtStep
    <2>2. /\ next \in Engines /\ next.pc \in Free
          /\ next.pc # "idle" => next.ctxDone = eng[p].ctxDone
        BY <1>2, <1>3 DEF Engines, PC, Free
    <2>. HIDE DEF next
    <2>. QED BY <1>2, <1>5, <1>6, <2>1, <2>2, TableHolds DEF Status
<1>12. CASE SaveRan(p, a)
    <2> DEFINE st == IF eng[p].outcome = "error" THEN "failed" ELSE "running"
               pc == IF eng[p].outcome = "ok" THEN "outputs" ELSE "save_failed"
               t  == StepState(p, Cur(p), st)
    <2>1. /\ Set(p, "save_ran", t, a, At(p, pc))
          /\ eng[p].pc = "save_ran" /\ eng[p].pc \in AtStep
        BY <1>12 DEF SaveRan, Set, AtStep
    <2>2. Extends(t) /\ Persisted(t)
        BY <1>2, <1>5, <2>1, TableHolds DEF Status
    <2>3. pc \in PC BY DEF PC
    <2>. HIDE DEF t
    <2>4. ~eng[p].ctxDone => Holds(At(p, pc), t)
        BY <1>2, <1>4, <2>1, <2>3 DEF Holds
    <2>. HIDE DEF pc
    <2>. QED BY <1>4, <2>1, <2>2, <2>3, <2>4, SetHolds
<1>13. ASSUME NEW k \in Keys, PersistOutput(p, k, a) PROVE OInv'
    <2> DEFINE t == [db EXCEPT !.out[k] = eng[p].run]
               next == [eng[p] EXCEPT !.todo = @ \ {k}]
    <2>1. Set(p, "outputs", t, a, next) /\ eng[p].pc = "outputs"
        BY <1>13 DEF PersistOutput, Set
    <2>2. /\ next \in Engines /\ next.pc = "outputs" /\ next.idx = eng[p].idx
          /\ next.todo = eng[p].todo \ {k} /\ next.ctxDone = eng[p].ctxDone
        BY <1>2, <2>1 DEF Engines
    <2>3. t.step = db.step /\ t.out = [db.out EXCEPT ![k] = eng[p].run]
        BY <1>2 DEF Tables
    <2>4. \A x \in Keys : t.out[x] = IF x = k THEN eng[p].run ELSE db.out[x]
        BY <1>2, <2>3 DEF Tables
    <2>5. eng[p].run # NoRun BY <1>2, RunAssumption
    <2>. HIDE DEF t, next
    <2>6. Extends(t) /\ Persisted(t)
        BY <2>3, <2>4, <2>5 DEF Extends, Persisted, OInv
    <2>7. ~eng[p].ctxDone => Holds(next, t)
        BY <1>2, <2>1, <2>2, <2>4, <2>5 DEF Holds
    <2>. QED BY <2>1, <2>2, <2>6, <2>7, SetHolds
<1>14. CASE SaveSucceeded(p, a)
    <2> DEFINE t == StepState(p, Cur(p), "succeeded")
    <2>1. /\ Set(p, "save_succeeded", t, a, NextStep(p))
          /\ eng[p].pc = "save_succeeded" /\ eng[p].pc \in AtStep
        BY <1>14 DEF SaveSucceeded, Set, AtStep
    <2>2. /\ t.out = db.out
          /\ t.step = [db.step EXCEPT ![eng[p].run][Cur(p)] = "succeeded"]
        BY <1>2 DEF StepState, Tables
    <2>3. \A r \in Runs, x \in Steps :
             t.step[r][x] = "succeeded" =>
                 db.step[r][x] = "succeeded" \/ x = Cur(p)
        BY <1>2, <1>5, <2>1, <2>2 DEF Tables
    <2>. HIDE DEF t
    <2>4. ~eng[p].ctxDone => Persisted(t)
        BY <1>2, <2>1, <2>2, <2>3, StepsAssumption
           DEF Persisted, OInv, Holds, Cur
    <2>5. Extends(t) BY <2>2 DEF Extends
    <2>6. Holds(NextStep(p), t) BY <1>5, <2>1 DEF Holds, Free
    <2>. QED BY <1>5, <2>1, <2>4, <2>5, <2>6, SetHolds
<1>. QED BY <1>7, <1>8, <1>9, <1>10, <1>11, <1>12, <1>13, <1>14 DEF Save

\* The other steps: only an attempt that succeeds takes up something to hold.
LEMMA OtherHolds ==
    ASSUME TypeInv, OInv, NEW p \in Procs, db' = db, NEW next,
           eng' = [eng EXCEPT ![p] = next], Holds(next, db)
    PROVE  OInv'
<1>1. \A q \in Procs : eng'[q] = IF q = p THEN next ELSE eng[q]
    BY DEF TypeInv, TypeOK
<1>. QED BY <1>1 DEF OInv

LEMMA StepHolds ==
    ASSUME TypeInv, OInv, NEW p \in Procs, eng[p].dry = FALSE,
           \/ LoadStates(p)
           \/ LoadFails(p)
           \/ ResetDone(p)
           \/ SkipRecorded(p)
           \/ Resolve(p)
           \/ ResolveFails(p)
           \/ FoundDone(p)
           \/ FoundNotDone(p)
           \/ BackoffElapses(p)
           \/ BackoffCancelled(p)
           \/ OutputsPersisted(p)
           \/ RunFails(p)
           \/ \E set \in SUBSET Keys : RunSucceeds(p, set)
           \/ Command(p)
           \/ Interrupt(p)
    PROVE  OInv'
<1>1. TypeOK /\ eng[p] \in Engines /\ Holds(eng[p], db)
    BY DEF TypeInv, TypeOK, OInv
<1>2. ASSUME NEW pc \in PC
      PROVE  At(p, pc).pc = pc /\ At(p, pc).idx = eng[p].idx
             /\ At(p, pc).ctxDone = eng[p].ctxDone
    BY <1>1 DEF At, Engines
<1>3. ASSUME NEW from, NEW pc \in PC \cap Free, Local(p, from, At(p, pc))
      PROVE  OInv'
    <2>1. Holds(At(p, pc), db) BY <1>2 DEF Holds, Free
    <2>. QED BY <1>3, <2>1, OtherHolds DEF Local
<1>4. {"step", "isdone", "resolve_failed", "save_skipped", "save_running"}
         \subseteq PC \cap Free
    BY DEF PC, Free
<1>5. CASE ResetDone(p) \/ Resolve(p) \/ ResolveFails(p)
           \/ FoundDone(p) \/ FoundNotDone(p)
    BY <1>3, <1>4, <1>5
       DEF ResetDone, Resolve, ResolveFails, FoundDone, FoundNotDone
<1>6. CASE OutputsPersisted(p)
    <2>1. /\ Local(p, "outputs", At(p, "save_succeeded"))
          /\ eng[p].todo = {} /\ eng[p].pc = "outputs"
        BY <1>6 DEF OutputsPersisted, Local
    <2>2. Holds(At(p, "save_succeeded"), db)
        BY <1>1, <1>2, <2>1 DEF Holds, PC
    <2>. QED BY <2>1, <2>2, OtherHolds DEF Local
<1>7. CASE SkipRecorded(p)
    <2>1. NextStep(p).pc \in {"step", "finish_meta"}
        BY <1>1 DEF NextStep, Engines
    <2>2. Holds(NextStep(p), db) BY <2>1 DEF Holds
    <2>. QED BY <1>7, <2>2, OtherHolds DEF SkipRecorded, Local
<1>8. CASE LoadFails(p) \/ Kill(p)
    BY <1>8, OtherHolds DEF LoadFails, Kill, Local, Holds, Idle
<1>9. CASE LoadStates(p)
    <2>1. /\ eng' = [eng EXCEPT ![p] = eng'[p]] /\ db' = db
          /\ eng'[p].pc = "reset"
        BY <1>1, <1>9 DEF LoadStates, Local, TypeOK, Engines
    <2>2. Holds(eng'[p], db) BY <2>1 DEF Holds
    <2>. QED BY <2>1, <2>2, OtherHolds
<1>10. CASE BackoffElapses(p) \/ BackoffCancelled(p)
    <2>1. ASSUME NEW next, Local(p, "wait", next),
                 \/ next = [eng[p] EXCEPT !.pc = "run", !.attempt = @ + 1]
                 \/ next = [eng[p] EXCEPT !.pc = "save_ran",
                                          !.outcome = "cancelled"]
          PROVE  OInv'
        <3>1. next.pc # "run" =>
                 next.pc = "save_ran" /\ next.outcome = "cancelled"
            BY <1>1, <2>1 DEF Engines
        <3>2. next.pc \notin {"outputs", "save_succeeded"}
            BY <1>1, <2>1 DEF Engines
        <3>3. Holds(next, db) BY <3>1, <3>2 DEF Holds
        <3>. QED BY <2>1, <3>3, OtherHolds DEF Local
    <2>. QED BY <1>10, <2>1 DEF BackoffElapses, BackoffCancelled
<1>11. CASE RunFails(p) \/ \E set \in SUBSET Keys : RunSucceeds(p, set)
    <2>1. /\ eng' = [eng EXCEPT ![p] = eng'[p]] /\ db' = db
          /\ eng'[p].idx = eng[p].idx
        BY <1>1, <1>11 DEF RunFails, RunSucceeds, TypeOK, Engines
    <2>2. CASE RunFails(p)
        <3>1. /\ eng'[p].pc \in {"wait", "save_ran"}
              /\ eng'[p].outcome = "error"
            BY <1>1, <2>2 DEF RunFails, TypeOK, Engines
        <3>2. Holds(eng'[p], db) BY <3>1 DEF Holds
        <3>. QED BY <2>1, <3>2, OtherHolds
    <2>3. ASSUME NEW set \in SUBSET Keys, RunSucceeds(p, set) PROVE OInv'
        <3>1. eng'[p].pc = "save_ran" /\ eng'[p].todo = Outputs(Cur(p))
            BY <1>1, <2>3 DEF RunSucceeds, TypeOK, Engines
        <3>2. Holds(eng'[p], db) BY <2>1, <3>1 DEF Holds, Outputs, Cur
        <3>. QED BY <2>1, <3>2, OtherHolds
    <2>. QED BY <1>11, <2>2, <2>3
<1>12. CASE Signal(p)
    <2> DEFINE next == [eng[p] EXCEPT !.ctxDone = TRUE]
    <2>1. next.ctxDone = TRUE BY <1>1 DEF Engines
    <2>2. Holds(next, db) BY <2>1 DEF Holds
    <2>3. eng' = [eng EXCEPT ![p] = next] /\ db' = db
        BY <1>1, <1>12 DEF Signal, TypeOK, Engines
    <2>. HIDE DEF next
    <2>. QED BY <2>2, <2>3, OtherHolds
<1>13. CASE Command(p)
    <2>1. PICK r \in Runs, dry \in DryRunFlags, pc \in {"init_meta", "load"} :
             eng' = [eng EXCEPT ![p] = Begin(pc, r, dry)] /\ db' = db
        BY <1>13 DEF Command, StartInit, Resume
    <2>2. Begin(pc, r, dry).pc = pc BY DEF Begin, Idle
    <2>3. Holds(Begin(pc, r, dry), db) BY <2>2 DEF Holds
    <2>. QED BY <2>1, <2>3, OtherHolds
<1>. QED BY <1>5, <1>6, <1>7, <1>8, <1>9, <1>10, <1>11, <1>12, <1>13
         DEF Interrupt

\* The outputs of a step recorded SUCCEEDED are in the store, with any number of
\* processes on a run, kills and signals.
THEOREM OutputsAreStored ==
    ASSUME DryRunFlags = {FALSE}, StoreMayFail = FALSE
    PROVE  Spec => []OutputsDurable
<1>1. Init => OInv
    BY StepsAssumption DEF Init, OInv, Persisted, Holds, Idle, Nothing
<1>2. IInv /\ OInv /\ [Next]_vars => OInv'
    <2>. SUFFICES ASSUME IInv, OInv, [Next]_vars PROVE OInv'
        OBVIOUS
    <2>1. TypeInv /\ \A p \in Procs : eng[p].dry = FALSE
        BY DEF IInv, EngineSound
    <2>2. CASE UNCHANGED vars BY <2>2 DEF vars, OInv, Persisted, Holds
    <2>3. ASSUME NEW p \in Procs, Proceed(p) PROVE OInv'
        BY <2>1, <2>3, SaveHolds, StepHolds DEF Proceed
    <2>4. ASSUME NEW p \in Procs, Fault(p) PROVE OInv'
        BY <2>1, <2>4, SaveHolds, StepHolds DEF Fault
    <2>. QED BY <2>1, <2>2, <2>3, <2>4, StepHolds DEF Next
<1>3. OInv => OutputsDurable BY DEF OInv, Persisted, OutputsDurable
<1>. QED BY <1>1, <1>2, <1>3, Sound, PTL DEF Spec

===============================================================================
