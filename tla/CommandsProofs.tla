---------------------------- MODULE CommandsProofs ----------------------------
(***************************************************************************)
(* What exit code 0, the hand-over to platform-runner and last_run_id say  *)
(* is true: proofs about Commands for any number of processes, runs,       *)
(* targets and steps, with signals, kills and lost records.                *)
(***************************************************************************)
EXTENDS Commands, TLAPS

\* What each place of a command needs of the rest of its state.
Placed(c) ==
    /\ c.pc \notin {"idle", "pointer"} => c.run \in Runs
    /\ c.pc = "step" => c.at \in Steps
    /\ c.pc \in {"meta", "last"} => c.status # "none"
    /\ c.pc \in {"meta", "last"} /\ c.status = "running" => c.at = 1
    /\ c.pc = "collect" => c.at = 1
    /\ c.pc = "pointer" => c.at = 1 /\ c.loaded = {}
    /\ c.pc \in {"pointer", "list"} => c.name = "resume"
    /\ c.pc = "runner" => Len(c.called) < 3

\* According to w, somebody has executed step i under run r, or found it done.
Done(w, r, i) == \E t \in Targets : <<t, i>> \in w[r]

\* The command c has done all steps itself, for its target.
DoneHere(w, c) == \A i \in Steps : <<c.target, i>> \in w[c.run]

\* What the command c has behind it.
Passes(w, c) ==
    /\ c.hand => c.name = "init"
    /\ c.name = "init" => c.loaded = {}
    /\ \A i \in c.loaded : c.run \in Runs /\ Done(w, c.run, i)
    /\ c.pc = "step" => \A i \in Steps : i < c.at =>
           /\ Done(w, c.run, i)
           /\ c.name = "init" => <<c.target, i>> \in w[c.run]
    /\ c.pc \in {"meta", "last"} /\ c.status = "succeeded" =>
           /\ \A i \in Steps : Done(w, c.run, i)
           /\ c.name = "init" => DoneHere(w, c)
    /\ c.pc = "runner" => c.hand /\ DoneHere(w, c)
    /\ c.exit = "zero" => /\ c.pc = "idle" /\ c.run \in Runs
                          /\ \A i \in Steps : Done(w, c.run, i)
                          /\ c.hand => Len(c.called) = 3

\* The calls c has made to platform-runner, and when.
Handed(w, c) ==
    /\ c.called # <<>> => /\ c.pc = "runner" \/ c.exit = "zero"
                          /\ c.run \in Runs /\ DoneHere(w, c)
    /\ \A i \in 1..Len(c.called) : /\ i <= 3
                                   /\ c.called[i].name = Subcommands[i]
                                   /\ c.dry \/ i = 3 => c.called[i].dry

Good(w, c) == c \in Commands /\ Placed(c) /\ Passes(w, c) /\ Handed(w, c)

Recorded ==
    /\ last # NoRun => meta[last] # "none"
    /\ \A p \in Procs : cmd[p].pc = "last" => meta[cmd[p].run] # "none"
    /\ \A r \in Runs : \A i \in rec[r] : Done(worked, r, i)

IInv == TypeOK /\ Recorded /\ \A p \in Procs : Good(worked, cmd[p])

-------------------------------------------------------------------------------
(* Commands by themselves *)

LEMMA SubcommandsAre ==
    /\ Len(Subcommands) = 3
    /\ Subcommands[1] = "validate"
    /\ Subcommands[2] = "sync-template"
    /\ Subcommands[3] = "plan-all"
BY DEF Subcommands

LEMMA OneMoves ==
    ASSUME TypeOK, NEW p \in Procs, NEW next, Becomes(p, next)
    PROVE  cmd'[p] = next /\ \A q \in Procs \ {p} : cmd'[q] = cmd[q]
BY DEF TypeOK, Becomes

\* What was done stays done.
LEMMA GoodGrows ==
    ASSUME NEW v, NEW w, \A r \in Runs : v[r] \subseteq w[r],
           NEW c, Good(v, c)
    PROVE  Good(w, c)
<1>1. \A r \in Runs : \A i : Done(v, r, i) => Done(w, r, i)
    BY DEF Done
<1>2. c.run \in Runs => (DoneHere(v, c) => DoneHere(w, c))
    BY DEF DoneHere
<1>3. Passes(w, c)
    BY <1>1, <1>2 DEF Good, Passes, Placed
<1>4. Handed(w, c)
    BY <1>2 DEF Good, Handed
<1>. QED BY <1>3, <1>4 DEF Good

LEMMA IdleGood ==
    ASSUME NEW w, NEW t \in Targets
    PROVE  Good(w, Idle(t))
<1>1. Idle(t) \in Commands
    BY CommandsAssumption DEF Idle, Commands, Statuses
<1>. QED BY <1>1 DEF Good, Idle, Placed, Passes, Handed

\* A command that stands elsewhere, with what it is to record.
LEMMA MovedIsCommand ==
    ASSUME NEW c \in Commands, NEW st \in Statuses,
           NEW pc \in {"idle", "pointer", "collect", "list", "step", "meta", "last",
                       "runner"}
    PROVE  /\ [c EXCEPT !.pc = pc] \in Commands
           /\ [c EXCEPT !.pc = pc, !.status = st] \in Commands
BY DEF Commands

\* A command that has just begun.
LEMMA BegunGood ==
    ASSUME NEW w, NEW c \in Commands, c.pc \in {"pointer", "collect"},
           c.pc = "collect" => c.run \in Runs /\ c.at = 1,
           c.pc = "pointer" => c.name = "resume" /\ c.at = 1,
           c.loaded = {}, c.called = <<>>, c.exit # "zero", c.hand => c.name = "init"
    PROVE  Good(w, c)
BY DEF Good, Placed, Passes, Handed

LEMMA FailedGood ==
    ASSUME NEW w, NEW p \in Procs, cmd[p] \in Commands
    PROVE  Good(w, Failed(p))
<1>. cmd[p].target \in Targets BY DEF Commands
<1>1. Idle(cmd[p].target) \in Commands BY IdleGood DEF Good
<1>2. Failed(p) \in Commands BY <1>1 DEF Failed, Commands
<1>. QED BY <1>2 DEF Good, Failed, Idle, Placed, Passes, Handed

\* A step that somebody has done is passed.
LEMMA PassedGood ==
    ASSUME NEW w, NEW p \in Procs, Good(w, cmd[p]), At(p, "step"),
           Done(w, cmd[p].run, cmd[p].at),
           cmd[p].name = "init" => <<cmd[p].target, cmd[p].at>> \in w[cmd[p].run]
    PROVE  Good(w, Passed(p))
<1>. DEFINE c == cmd[p]
            d == Passed(p)
<1>1. c \in Commands /\ c.at \in Steps /\ c.run \in Runs /\ c.pc = "step"
    BY DEF Good, Placed, At
<1>2. CASE c.at < NumSteps
  <2>1. d = [c EXCEPT !.at = @ + 1]
      BY <1>2 DEF Passed
  <2>2. c.at + 1 \in Steps /\ c.at + 1 \in 1..(NumSteps + 1)
      BY <1>1, <1>2, CommandsAssumption DEF Steps
  <2>3. d \in Commands /\ d.at = c.at + 1 /\ d.pc = "step" /\ d.run = c.run
      BY <1>1, <2>1, <2>2 DEF Commands
  <2>4. /\ d.hand = c.hand /\ d.name = c.name /\ d.loaded = c.loaded /\ d.exit = c.exit
        /\ d.called = c.called /\ d.dry = c.dry /\ d.target = c.target
      BY <1>1, <2>1 DEF Commands
  <2>5. \A i \in Steps : i < d.at => i < c.at \/ i = c.at
      BY <1>1, <2>3 DEF Steps
  <2>6. Passes(w, d)
      BY <1>1, <2>3, <2>4, <2>5 DEF Good, Passes
  <2>7. Handed(w, d)
      BY <1>1, <2>3, <2>4 DEF Good, Handed, DoneHere
  <2>. QED BY <2>2, <2>3, <2>6, <2>7, <1>1 DEF Good, Placed
<1>3. CASE ~(c.at < NumSteps)
  <2>1. d = [c EXCEPT !.pc = "meta", !.at = @ + 1, !.status = "succeeded"]
      BY <1>3 DEF Passed
  <2>2. c.at = NumSteps /\ c.at + 1 \in 1..(NumSteps + 1)
      BY <1>1, <1>3, CommandsAssumption DEF Steps
  <2>3. d \in Commands /\ d.pc = "meta" /\ d.run = c.run /\ d.status = "succeeded"
      BY <1>1, <2>1, <2>2 DEF Commands, Statuses
  <2>4. /\ d.hand = c.hand /\ d.name = c.name /\ d.loaded = c.loaded /\ d.exit = c.exit
        /\ d.called = c.called /\ d.dry = c.dry /\ d.target = c.target
      BY <1>1, <2>1 DEF Commands
  <2>5. \A i \in Steps : i < c.at \/ i = c.at
      BY <1>1, <2>2, CommandsAssumption DEF Steps
  <2>6. Passes(w, d)
      BY <1>1, <2>3, <2>4, <2>5 DEF Good, Passes, DoneHere
  <2>7. Handed(w, d)
      BY <1>1, <2>3, <2>4 DEF Good, Handed, DoneHere, Passes
  <2>. QED BY <2>3, <2>6, <2>7, <1>1 DEF Good, Placed
<1>. QED BY <1>2, <1>3

\* A command that has read a run's records.
LEMMA ListGood ==
    ASSUME NEW w, NEW p \in Procs, Good(w, cmd[p]), At(p, "list"), cmd[p].name # "init",
           NEW S \in SUBSET Steps, \A i \in S : Done(w, cmd[p].run, i)
    PROVE  Good(w, [cmd[p] EXCEPT !.pc = "step", !.at = 1, !.loaded = S])
<1>. DEFINE c == cmd[p]
            d == [cmd[p] EXCEPT !.pc = "step", !.at = 1, !.loaded = S]
<1>1. c \in Commands /\ c.run \in Runs /\ c.pc = "list"
    BY DEF Good, Placed, At
<1>2. 1 \in Steps /\ 1 \in 1..(NumSteps + 1)
    BY CommandsAssumption DEF Steps
<1>3. d \in Commands /\ d.at = 1 /\ d.pc = "step" /\ d.run = c.run /\ d.loaded = S
    BY <1>1, <1>2 DEF Commands
<1>4. /\ d.hand = c.hand /\ d.name = c.name /\ d.exit = c.exit
      /\ d.called = c.called /\ d.dry = c.dry /\ d.target = c.target
    BY <1>1 DEF Commands
<1>5. \A i \in Steps : ~(i < 1)
    BY CommandsAssumption DEF Steps
<1>6. Passes(w, d)
    BY <1>1, <1>3, <1>4, <1>5 DEF Good, Passes
<1>7. Handed(w, d)
    BY <1>1, <1>3, <1>4 DEF Good, Handed, DoneHere, Passes
<1>. QED BY <1>1, <1>2, <1>3, <1>6, <1>7 DEF Good, Placed

\* Collection is over: init goes on to record the run, resume to read its records.
LEMMA CollectedGood ==
    ASSUME NEW w, NEW p \in Procs, Good(w, cmd[p]), At(p, "collect"),
           NEW d, d = IF cmd[p].name = "init"
                      THEN [cmd[p] EXCEPT !.pc = "meta", !.status = "running"]
                      ELSE [cmd[p] EXCEPT !.pc = "list"]
    PROVE  Good(w, d)
<1>. DEFINE c == cmd[p]
<1>1. c \in Commands /\ c.run \in Runs /\ c.pc = "collect" /\ c.at = 1
    BY DEF Good, Placed, At
<1>2. d \in Commands
  <2>1. CASE d = [cmd[p] EXCEPT !.pc = "meta", !.status = "running"]
      BY <1>1, <2>1, MovedIsCommand DEF Statuses
  <2>2. CASE d = [cmd[p] EXCEPT !.pc = "list"]
      BY <1>1, <2>2, MovedIsCommand DEF Statuses
  <2>. QED BY <2>1, <2>2
<1>3. /\ d.at = 1 /\ d.run = c.run /\ d.loaded = c.loaded
      /\ d.hand = c.hand /\ d.name = c.name /\ d.exit = c.exit
      /\ d.called = c.called /\ d.dry = c.dry /\ d.target = c.target
      /\ \/ d.pc = "list" /\ c.name = "resume"
         \/ d.pc = "meta" /\ d.status = "running"
    BY <1>1 DEF Commands
<1>4. Passes(w, d)
    BY <1>1, <1>3 DEF Good, Passes
<1>5. Handed(w, d)
    BY <1>1, <1>3 DEF Good, Handed, DoneHere, Passes
<1>. QED BY <1>1, <1>2, <1>3, <1>4, <1>5 DEF Good, Placed

\* The run is about to be recorded as failed, or its record is written.
LEMMA SavingGood ==
    ASSUME NEW w, NEW p \in Procs, Good(w, cmd[p]),
           NEW d, \/ At(p, "step") /\ d = [cmd[p] EXCEPT !.pc = "meta", !.status = "failed"]
                  \/ At(p, "meta") /\ d = [cmd[p] EXCEPT !.pc = "last"]
    PROVE  Good(w, d)
<1>. DEFINE c == cmd[p]
<1>1. c \in Commands /\ c.run \in Runs /\ c.pc \in {"step", "meta"}
    BY DEF Good, Placed, At
<1>2. d \in Commands
  <2>1. CASE d = [cmd[p] EXCEPT !.pc = "meta", !.status = "failed"]
      BY <1>1, <2>1, MovedIsCommand DEF Statuses
  <2>2. CASE d = [cmd[p] EXCEPT !.pc = "last"]
      BY <1>1, <2>2, MovedIsCommand DEF Statuses
  <2>. QED BY <2>1, <2>2
<1>3. /\ d.at = c.at /\ d.run = c.run /\ d.loaded = c.loaded
      /\ d.hand = c.hand /\ d.name = c.name /\ d.exit = c.exit
      /\ d.called = c.called /\ d.dry = c.dry /\ d.target = c.target
      /\ \/ c.pc = "step" /\ d.pc = "meta" /\ d.status = "failed"
         \/ c.pc = "meta" /\ d.pc = "last" /\ d.status = c.status
    BY <1>1 DEF Commands, At
<1>4. Passes(w, d)
    BY <1>1, <1>3 DEF Good, Passes, DoneHere
<1>5. Handed(w, d)
    BY <1>1, <1>3 DEF Good, Handed, DoneHere, Passes
<1>. QED BY <1>1, <1>2, <1>3, <1>4, <1>5 DEF Good, Placed

\* A signal changes nothing of it.
LEMMA SignalGood ==
    ASSUME NEW w, NEW p \in Procs, Good(w, cmd[p])
    PROVE  Good(w, [cmd[p] EXCEPT !.stopped = TRUE])
<1>. DEFINE c == cmd[p]
            d == [cmd[p] EXCEPT !.stopped = TRUE]
<1>1. c \in Commands
    BY DEF Good
<1>2. d \in Commands
    BY <1>1 DEF Commands
<1>3. /\ d.pc = c.pc /\ d.at = c.at /\ d.run = c.run /\ d.loaded = c.loaded
      /\ d.hand = c.hand /\ d.name = c.name /\ d.exit = c.exit /\ d.status = c.status
      /\ d.called = c.called /\ d.dry = c.dry /\ d.target = c.target
    BY <1>1 DEF Commands
<1>. QED BY <1>1, <1>2, <1>3 DEF Good, Placed, Passes, Handed, DoneHere

\* SaveRunMeta returns.
LEMMA SavedGood ==
    ASSUME NEW w, NEW p \in Procs, Good(w, cmd[p]), cmd[p].pc \in {"meta", "last"},
           NEW ok \in BOOLEAN
    PROVE  Good(w, Saved(p, ok))
<1>. DEFINE c == cmd[p]
            d == Saved(p, ok)
<1>1. /\ c \in Commands /\ c.run \in Runs /\ c.called = <<>>
      /\ c.status \in {"running", "failed", "succeeded"}
    BY DEF Good, Placed, Handed, Passes, Commands, Statuses
<1>2. CASE d = Failed(p)
    BY <1>1, <1>2, FailedGood
<1>3. CASE c.status = "running" /\ ok
  <2>1. d = [c EXCEPT !.pc = "step"]
      BY <1>3 DEF Saved
  <2>2. c.at = 1 /\ 1 \in Steps /\ \A i \in Steps : ~(i < 1)
      BY <1>3, CommandsAssumption DEF Good, Placed, Steps
  <2>3. d \in Commands
      BY <1>1, <2>1 DEF Commands
  <2>4. /\ d.pc = "step" /\ d.at = 1 /\ d.run = c.run /\ d.loaded = c.loaded
        /\ d.hand = c.hand /\ d.name = c.name /\ d.exit = c.exit
        /\ d.called = <<>> /\ d.dry = c.dry /\ d.target = c.target
      BY <1>1, <2>1, <2>2 DEF Commands
  <2>5. Passes(w, d)
      BY <2>2, <2>4 DEF Good, Passes
  <2>. QED BY <1>1, <2>2, <2>3, <2>4, <2>5 DEF Good, Placed, Handed
<1>4. CASE c.status = "succeeded" /\ c.hand
  <2>1. d = [c EXCEPT !.pc = "runner"]
      BY <1>4 DEF Saved
  <2>2. d \in Commands
      BY <1>1, <2>1 DEF Commands
  <2>3. /\ d.pc = "runner" /\ d.at = c.at /\ d.run = c.run /\ d.loaded = c.loaded
        /\ d.hand = c.hand /\ d.name = c.name /\ d.exit = c.exit
        /\ d.called = <<>> /\ d.dry = c.dry /\ d.target = c.target
      BY <1>1, <2>1 DEF Commands
  <2>4. Passes(w, d)
      BY <1>4, <2>3 DEF Good, Passes, DoneHere
  <2>. QED BY <1>1, <2>2, <2>3, <2>4 DEF Good, Placed, Handed
<1>5. CASE c.status = "succeeded" /\ ~c.hand
  <2>1. d = Succeeded(p)
      BY <1>5 DEF Saved
  <2>. 1 \in 1..(NumSteps + 1)
      BY CommandsAssumption
  <2>2. d \in Commands
      BY <1>1, <2>1 DEF Succeeded, Commands, Statuses
  <2>3. /\ d.pc = "idle" /\ d.run = c.run /\ d.loaded = {}
        /\ d.hand = c.hand /\ d.name = c.name /\ d.exit = "zero"
        /\ d.called = <<>> /\ d.dry = c.dry /\ d.target = c.target
      BY <1>1, <2>1 DEF Succeeded, Commands
  <2>4. Passes(w, d)
      BY <1>1, <1>5, <2>3 DEF Good, Passes
  <2>. QED BY <1>1, <2>2, <2>3, <2>4 DEF Good, Placed, Handed
<1>. QED BY <1>1, <1>2, <1>3, <1>4, <1>5 DEF Saved, AfterFailure, Commands

\* A call to platform-runner succeeds; after the third the command does.
LEMMA RunnerGood ==
    ASSUME NEW w, NEW p \in Procs, Good(w, cmd[p]), At(p, "runner"),
           NEW d, d = [IF Len(cmd[p].called) + 1 < Len(Subcommands)
                       THEN cmd[p] ELSE Succeeded(p)
                           EXCEPT !.called = Append(@, Call(p))]
    PROVE  Good(w, d)
<1>. DEFINE c == cmd[p]
            q == c.called
            S == Seq([name : {Subcommands[i] : i \in 1..3}, dry : BOOLEAN])
<1>1. /\ c \in Commands /\ c.run \in Runs /\ c.pc = "runner" /\ q \in S
      /\ Len(q) < 3 /\ Len(q) \in Nat
    BY DEF Good, Placed, At, Commands
<1>2. Succeeded(p).called = q
    BY <1>1 DEF Succeeded, Commands
<1>3. /\ Call(p) \in [name : {Subcommands[i] : i \in 1..3}, dry : BOOLEAN]
      /\ Call(p).name = Subcommands[Len(q) + 1]
      /\ c.dry \/ Len(q) + 1 = 3 => Call(p).dry
  <2>. DEFINE n == Subcommands[Len(q) + 1]
              dry == c.dry \/ n = "plan-all"
  <2>1. Len(q) + 1 \in 1..3
      BY <1>1
  <2>2. Call(p) = [name |-> n, dry |-> dry]
      BY DEF Call
  <2>3. c.dry \in BOOLEAN
      BY <1>1 DEF Commands
  <2>4. dry \in BOOLEAN /\ (c.dry \/ Len(q) + 1 = 3 => dry)
      BY <2>3, SubcommandsAre
  <2>5. n \in {Subcommands[i] : i \in 1..3}
      BY <2>1
  <2>. HIDE DEF n, dry
  <2>. QED BY <2>2, <2>4, <2>5 DEF n
<1>4. /\ Append(q, Call(p)) \in S /\ Len(Append(q, Call(p))) = Len(q) + 1
      /\ \A i \in 1..(Len(q) + 1) :
             Append(q, Call(p))[i] = IF i <= Len(q) THEN q[i] ELSE Call(p)
    BY <1>1, <1>3
<1>5. \A i \in 1..(Len(q) + 1) : /\ i <= 3
                                 /\ Append(q, Call(p))[i].name = Subcommands[i]
                                 /\ c.dry \/ i = 3 => Append(q, Call(p))[i].dry
  <2> SUFFICES ASSUME NEW i \in 1..(Len(q) + 1)
               PROVE  /\ i <= 3
                      /\ Append(q, Call(p))[i].name = Subcommands[i]
                      /\ c.dry \/ i = 3 => Append(q, Call(p))[i].dry
      OBVIOUS
  <2>1. CASE i <= Len(q)
    <3>1. i \in 1..Len(q) BY <1>1, <2>1
    <3>. QED BY <1>4, <2>1, <3>1 DEF Good, Handed
  <2>2. CASE ~(i <= Len(q))
    <3>1. i = Len(q) + 1 BY <1>1, <2>2
    <3>. QED BY <1>1, <1>3, <1>4, <2>2, <3>1
  <2>. QED BY <2>1, <2>2
<1>6. CASE Len(q) + 1 < 3
  <2>1. d = [c EXCEPT !.called = Append(q, Call(p))]
      BY <1>1, <1>6, SubcommandsAre
  <2>2. d \in Commands
      BY <1>1, <1>4, <2>1 DEF Commands
  <2>3. /\ d.pc = "runner" /\ d.at = c.at /\ d.run = c.run /\ d.loaded = c.loaded
        /\ d.hand = c.hand /\ d.name = c.name /\ d.exit = c.exit
        /\ d.called = Append(q, Call(p)) /\ d.dry = c.dry /\ d.target = c.target
      BY <1>1, <2>1 DEF Commands
  <2>4. Passes(w, d)
      BY <1>1, <2>3 DEF Good, Passes, DoneHere
  <2>5. Handed(w, d)
    <3>1. c.run \in Runs /\ DoneHere(w, c)
        BY <1>1 DEF Good, Placed, Passes
    <3>2. d.run \in Runs /\ DoneHere(w, d)
        BY <2>3, <3>1 DEF DoneHere
    <3>3. Len(d.called) = Len(q) + 1
        BY <1>4, <2>3
    <3>4. \A i \in 1..Len(d.called) : /\ i <= 3
                                      /\ d.called[i].name = Subcommands[i]
                                      /\ d.dry \/ i = 3 => d.called[i].dry
        BY <1>5, <2>3, <3>3
    <3>. QED BY <2>3, <3>2, <3>4 DEF Handed
  <2>. QED BY <1>1, <1>4, <1>6, <2>2, <2>3, <2>4, <2>5 DEF Good, Placed
<1>7. CASE ~(Len(q) + 1 < 3)
  <2>1. d = [Succeeded(p) EXCEPT !.called = Append(q, Call(p))]
      BY <1>1, <1>2, <1>7, SubcommandsAre
  <2>2. 1 \in 1..(NumSteps + 1)
      BY CommandsAssumption
  <2>3. d \in Commands
      BY <1>1, <1>4, <2>1, <2>2 DEF Succeeded, Commands, Statuses
  <2>4. /\ d.pc = "idle" /\ d.run = c.run /\ d.loaded = {}
        /\ d.hand = c.hand /\ d.name = c.name /\ d.exit = "zero"
        /\ d.called = Append(q, Call(p)) /\ d.dry = c.dry /\ d.target = c.target
      BY <1>1, <2>1 DEF Succeeded, Commands
  <2>5. DoneHere(w, c) /\ \A i \in Steps : Done(w, c.run, i)
      BY <1>1 DEF Good, Passes, DoneHere, Done, Commands
  <2>6. Passes(w, d)
      BY <1>1, <1>4, <1>7, <2>4, <2>5 DEF Good, Passes
  <2>7. Handed(w, d)
    <3>1. d.run \in Runs /\ DoneHere(w, d)
        BY <1>1, <2>4, <2>5 DEF Good, Placed, DoneHere
    <3>2. Len(d.called) = Len(q) + 1
        BY <1>4, <2>4
    <3>3. \A i \in 1..Len(d.called) : /\ i <= 3
                                      /\ d.called[i].name = Subcommands[i]
                                      /\ d.dry \/ i = 3 => d.called[i].dry
        BY <1>5, <2>4, <3>2
    <3>. QED BY <2>4, <3>1, <3>3 DEF Handed
  <2>. QED BY <2>3, <2>4, <2>6, <2>7 DEF Good, Placed
<1>. QED BY <1>6, <1>7

-------------------------------------------------------------------------------
(* Steps *)

Moving(p) == Start(p) \/ Proceed(p) \/ Signal(p) \/ Kill(p)

\* What was done stays done.
LEMMA WorkGrows ==
    ASSUME TypeOK, NEW p \in Procs, Moving(p)
    PROVE  \A r \in Runs : worked[r] \subseteq worked'[r]
<1>1. ASSUME NEW recorded \in BOOLEAN, Execute(p, recorded)
      PROVE  \A r \in Runs : worked[r] \subseteq worked'[r]
    BY <1>1 DEF Execute, TypeOK
<1>2. UNCHANGED worked \/ \E recorded \in BOOLEAN : Execute(p, recorded)
    BY DEF Moving, Start, StartInit, StartResume, StartResumeLast, Proceed, LastRunID,
           Collected, List, StartFails, Skip, StepFails, SaveMeta, SaveLast, SaveFails,
           RunnerSucceeds, RunnerFails, Signal, Kill, Moves, Fails
<1>. QED BY <1>1, <1>2

\* A command begins.
LEMMA StartStep ==
    ASSUME IInv, NEW p \in Procs, Start(p)
    PROVE  \E next : Becomes(p, next) /\ Good(worked', next)
<1>1. ASSUME NEW t \in Targets, NEW dry \in DryRunFlags, StartResumeLast(p, t, dry)
      PROVE  \E next : Becomes(p, next) /\ Good(worked', next)
  <2>. DEFINE d == [Idle(t) EXCEPT !.pc = "pointer", !.name = "resume", !.dry = dry]
  <2>. Idle(t) \in Commands BY IdleGood DEF Good
  <2>. dry \in BOOLEAN BY CommandsAssumption
  <2>1. d \in Commands BY DEF Commands
  <2>2. Good(worked', d) BY <2>1, BegunGood DEF Idle
  <2>. QED BY <1>1, <2>2 DEF StartResumeLast, Moves
<1>2. ASSUME NEW t \in Targets, NEW dry \in DryRunFlags, NEW r \in Runs,
             StartResume(p, t, r, dry)
      PROVE  \E next : Becomes(p, next) /\ Good(worked', next)
  <2>. DEFINE d == [Idle(t) EXCEPT !.pc = "collect", !.name = "resume", !.run = r,
                                   !.dry = dry]
  <2>. Idle(t) \in Commands BY IdleGood DEF Good
  <2>. dry \in BOOLEAN BY CommandsAssumption
  <2>1. d \in Commands BY DEF Commands
  <2>2. Good(worked', d) BY <2>1, BegunGood DEF Idle
  <2>. QED BY <1>2, <2>2 DEF StartResume
<1>3. ASSUME NEW t \in Targets, NEW dry \in DryRunFlags, NEW r \in Runs,
             NEW hand \in BOOLEAN, StartInit(p, t, r, dry, hand)
      PROVE  \E next : Becomes(p, next) /\ Good(worked', next)
  <2>. DEFINE d == [Idle(t) EXCEPT !.pc = "collect", !.run = r, !.dry = dry,
                                   !.hand = hand]
  <2>. Idle(t) \in Commands BY IdleGood DEF Good
  <2>. dry \in BOOLEAN BY CommandsAssumption
  <2>1. d \in Commands BY DEF Commands
  <2>2. Good(worked', d) BY <2>1, BegunGood DEF Idle
  <2>. QED BY <1>3, <2>2 DEF StartInit
<1>. QED BY <1>1, <1>2, <1>3 DEF Start

\* A command goes on.
LEMMA ProceedStep ==
    ASSUME IInv, NEW p \in Procs, Proceed(p) \/ Signal(p) \/ Kill(p)
    PROVE  \E next : Becomes(p, next) /\ Good(worked', next)
<1>. TypeOK /\ Good(worked, cmd[p]) /\ cmd[p] \in Commands /\ cmd[p].target \in Targets
    BY DEF IInv, TypeOK, Commands
<1>. Good(worked', cmd[p])
    BY WorkGrows, GoodGrows DEF Moving
<1>1. CASE LastRunID(p)
  <2>. DEFINE d == [cmd[p] EXCEPT !.pc = "collect", !.run = last]
  <2>1. Becomes(p, d) /\ last \in Runs /\ cmd[p].pc = "pointer"
      BY <1>1 DEF LastRunID, Moves, At, TypeOK
  <2>2. cmd[p].loaded = {} /\ cmd[p].called = <<>> /\ cmd[p].exit # "zero" /\ cmd[p].at = 1
        /\ (cmd[p].hand => cmd[p].name = "init")
      BY <2>1 DEF Good, Placed, Passes, Handed, Commands
  <2>3. d \in Commands
      BY <2>1 DEF Commands
  <2>4. /\ d.pc = "collect" /\ d.run = last /\ d.loaded = {} /\ d.called = <<>>
        /\ d.exit # "zero" /\ d.at = 1 /\ (d.hand => d.name = "init")
      BY <2>2 DEF Commands
  <2>5. Good(worked', d)
      BY <2>1, <2>3, <2>4, BegunGood
  <2>. QED BY <2>1, <2>5
<1>2. CASE Collected(p)
    BY <1>2, CollectedGood DEF Collected, Moves
<1>3. CASE List(p)
  <2>1. cmd[p].name # "init"
      BY <1>3 DEF List, Good, Placed, At
  <2>2. /\ rec[cmd[p].run] \in SUBSET Steps
        /\ \A i \in rec[cmd[p].run] : Done(worked, cmd[p].run, i)
      BY <1>3 DEF List, At, Good, Placed, IInv, Recorded, TypeOK
  <2>. QED BY <1>3, <2>1, <2>2, ListGood DEF List, Moves
<1>4. CASE StartFails(p) \/ RunnerFails(p)
    BY <1>4, FailedGood DEF StartFails, RunnerFails, Fails, Moves
<1>5. CASE Skip(p)
  <2>1. Done(worked, cmd[p].run, cmd[p].at) /\ cmd[p].name # "init"
      BY <1>5 DEF Skip, Good, Passes
  <2>. QED BY <1>5, <2>1, PassedGood DEF Skip, Moves
<1>6. CASE StepFails(p)
    BY <1>6, FailedGood, SavingGood DEF StepFails, Moves, AfterFailure
<1>7. ASSUME NEW recorded \in BOOLEAN, Execute(p, recorded)
      PROVE  \E next : Becomes(p, next) /\ Good(worked', next)
  <2>1. At(p, "step") /\ cmd[p].run \in Runs /\ Becomes(p, Passed(p))
      BY <1>7 DEF Execute, At, Good, Placed
  <2>2. <<cmd[p].target, cmd[p].at>> \in worked'[cmd[p].run]
      BY <1>7, <2>1 DEF Execute, TypeOK
  <2>3. Done(worked', cmd[p].run, cmd[p].at)
      BY <2>2 DEF Done
  <2>. QED BY <2>1, <2>2, <2>3, PassedGood
<1>8. CASE SaveMeta(p)
    BY <1>8, SavingGood DEF SaveMeta
<1>9. CASE SaveLast(p)
    BY <1>9, SavedGood DEF SaveLast, At
<1>10. CASE SaveFails(p)
    BY <1>10, SavedGood DEF SaveFails
<1>11. CASE RunnerSucceeds(p)
    BY <1>11, RunnerGood DEF RunnerSucceeds, Moves
<1>12. CASE Signal(p)
    BY <1>12, SignalGood DEF Signal, Moves
<1>13. CASE Kill(p)
    BY <1>13, IdleGood DEF Kill, Moves
<1>. QED BY <1>1, <1>2, <1>3, <1>4, <1>5, <1>6, <1>7, <1>8, <1>9, <1>10, <1>11, <1>12,
            <1>13 DEF Proceed

\* What a step of p leaves in the records.
LEMMA RecordsStep ==
    ASSUME IInv, NEW p \in Procs, Moving(p)
    PROVE  /\ UNCHANGED meta \/ (/\ cmd[p].pc = "meta"
                                 /\ meta' = [meta EXCEPT ![cmd[p].run] = cmd[p].status])
           /\ UNCHANGED last \/ (cmd[p].pc = "last" /\ last' = cmd[p].run)
           /\ UNCHANGED rec \/ \E recorded \in BOOLEAN : Execute(p, recorded)
           /\ \A next : Becomes(p, next) /\ next.pc = "last"
                  => next.run = cmd[p].run /\ meta'[cmd[p].run] # "none"
<1>. TypeOK /\ Good(worked, cmd[p]) /\ cmd[p] \in Commands /\ cmd[p].target \in Targets
    BY DEF IInv, TypeOK, Commands
<1>1. ASSUME NEW next, Becomes(p, next) PROVE cmd'[p] = next
    BY <1>1, OneMoves
<1>2. CASE Start(p)
  <2>1. UNCHANGED <<meta, rec, last>>
      BY <1>2 DEF Start, StartInit, StartResume, StartResumeLast, Moves
  <2>2. \E next : Becomes(p, next) /\ next.pc # "last"
    <3>. PICK t \in Targets, dry \in DryRunFlags :
                 \/ StartResumeLast(p, t, dry)
                 \/ \E r \in Runs : \/ StartResume(p, t, r, dry)
                                    \/ \E hand \in BOOLEAN : StartInit(p, t, r, dry, hand)
        BY <1>2 DEF Start
    <3>1. CASE StartResumeLast(p, t, dry)
      <4>. DEFINE n == [Idle(t) EXCEPT !.pc = "pointer", !.name = "resume", !.dry = dry]
      <4>1. Becomes(p, n)
          BY <3>1 DEF StartResumeLast, Moves
      <4>2. n.pc # "last"
          BY DEF Idle
      <4>. HIDE DEF n
      <4>. QED BY <4>1, <4>2
    <3>2. ASSUME NEW r \in Runs, StartResume(p, t, r, dry)
          PROVE  \E next : Becomes(p, next) /\ next.pc # "last"
      <4>. DEFINE n == [Idle(t) EXCEPT !.pc = "collect", !.name = "resume", !.run = r,
                                       !.dry = dry]
      <4>1. Becomes(p, n)
          BY <3>2 DEF StartResume
      <4>2. n.pc # "last"
          BY DEF Idle
      <4>. HIDE DEF n
      <4>. QED BY <4>1, <4>2
    <3>3. ASSUME NEW r \in Runs, NEW hand \in BOOLEAN, StartInit(p, t, r, dry, hand)
          PROVE  \E next : Becomes(p, next) /\ next.pc # "last"
      <4>. DEFINE n == [Idle(t) EXCEPT !.pc = "collect", !.run = r, !.dry = dry, !.hand = hand]
      <4>1. Becomes(p, n)
          BY <3>3 DEF StartInit
      <4>2. n.pc # "last"
          BY DEF Idle
      <4>. HIDE DEF n
      <4>. QED BY <4>1, <4>2
    <3>. QED BY <3>1, <3>2, <3>3
  <2>3. \A next : Becomes(p, next) => next.pc # "last"
      BY <1>1, <2>2
  <2>. QED BY <2>1, <2>3
<1>3. CASE LastRunID(p) \/ Collected(p) \/ List(p)
    BY <1>1, <1>3 DEF LastRunID, Collected, List, Moves, Commands
<1>4. CASE StartFails(p) \/ RunnerFails(p) \/ Kill(p)
    BY <1>1, <1>4 DEF StartFails, RunnerFails, Kill, Fails, Failed, Moves, Idle
<1>5. Passed(p).pc = "step" \/ Passed(p).pc = "meta" \/ cmd[p].pc # "step"
    BY DEF Passed, Commands
<1>6. CASE Skip(p)
    BY <1>1, <1>5, <1>6 DEF Skip, Moves, At
<1>7. CASE \E recorded \in BOOLEAN : Execute(p, recorded)
    BY <1>1, <1>5, <1>7 DEF Execute, At
<1>8. CASE StepFails(p)
    BY <1>1, <1>8 DEF StepFails, Moves, AfterFailure, Failed, Idle, Commands
<1>9. CASE SaveMeta(p)
  <2>1. cmd'[p] = [cmd[p] EXCEPT !.pc = "last"] /\ cmd[p].run \in Runs /\ cmd[p].status # "none"
      BY <1>1, <1>9 DEF SaveMeta, At, Good, Placed
  <2>2. cmd'[p].run = cmd[p].run /\ meta'[cmd[p].run] # "none"
      BY <1>9, <2>1 DEF SaveMeta, TypeOK, Commands
  <2>. QED BY <1>1, <1>9, <2>2 DEF SaveMeta, At
<1>10. ASSUME NEW ok \in BOOLEAN, cmd[p].pc \in {"meta", "last"}
       PROVE  Saved(p, ok).pc # "last"
  <2>1. cmd[p].status \in {"running", "failed", "succeeded"}
      BY <1>10 DEF Good, Placed, Commands, Statuses
  <2>. QED BY <2>1 DEF Saved, AfterFailure, Failed, Succeeded, Idle, Commands
<1>11. CASE SaveLast(p) \/ SaveFails(p)
    BY <1>1, <1>10, <1>11 DEF SaveLast, SaveFails, At
<1>12. CASE RunnerSucceeds(p)
    BY <1>1, <1>12 DEF RunnerSucceeds, At, Moves, Succeeded, Commands
<1>13. CASE Signal(p)
  <2>1. cmd'[p] = [cmd[p] EXCEPT !.stopped = TRUE] /\ UNCHANGED <<meta, last, rec>>
      BY <1>1, <1>13 DEF Signal, Moves
  <2>2. cmd'[p].pc = cmd[p].pc /\ cmd'[p].run = cmd[p].run
      BY <2>1 DEF Commands
  <2>3. cmd[p].pc = "last" => meta[cmd[p].run] # "none"
      BY DEF IInv, Recorded
  <2>. QED BY <1>1, <2>1, <2>2, <2>3
<1>. QED BY <1>2, <1>3, <1>4, <1>6, <1>7, <1>8, <1>9, <1>11, <1>12, <1>13 DEF Moving, Proceed

LEMMA RecordedStep ==
    ASSUME IInv, NEW p \in Procs, Moving(p)
    PROVE  Recorded'
<1>. TypeOK /\ Recorded /\ Good(worked, cmd[p])
    BY DEF IInv
<1>1. cmd[p].pc \in {"meta", "last"} => cmd[p].run \in Runs /\ cmd[p].status # "none"
    BY DEF Good, Placed
<1>2. \A r \in Runs : meta[r] # "none" => meta'[r] # "none"
    BY <1>1, RecordsStep DEF TypeOK
<1>3. last' # NoRun => meta'[last'] # "none"
    BY <1>1, <1>2, RecordsStep DEF Recorded, TypeOK
<1>4. \E next : Becomes(p, next)
    BY StartStep, ProceedStep DEF Moving
<1>5. \A q \in Procs : cmd'[q].pc = "last" => meta'[cmd'[q].run] # "none"
  <2> SUFFICES ASSUME NEW q \in Procs, cmd'[q].pc = "last"
               PROVE  meta'[cmd'[q].run] # "none"
      OBVIOUS
  <2>1. CASE q = p
      BY <1>4, <2>1, OneMoves, RecordsStep
  <2>2. CASE q # p
    <3>1. cmd'[q] = cmd[q]
        BY <1>4, <2>2, OneMoves
    <3>2. cmd[q].run \in Runs
        BY <3>1 DEF IInv, Good, Placed
    <3>. QED BY <1>2, <3>1, <3>2 DEF Recorded
  <2>. QED BY <2>1, <2>2
<1>6. \A r \in Runs : \A i \in rec'[r] : Done(worked', r, i)
  <2>1. \A r \in Runs, i \in Steps : Done(worked, r, i) => Done(worked', r, i)
      BY WorkGrows DEF Done
  <2>2. CASE UNCHANGED rec
      BY <2>1, <2>2 DEF Recorded, TypeOK
  <2>3. ASSUME NEW recorded \in BOOLEAN, Execute(p, recorded)
        PROVE  \A r \in Runs : \A i \in rec'[r] : Done(worked', r, i)
    <3>1. cmd[p].run \in Runs /\ cmd[p].target \in Targets
        BY <2>3 DEF Execute, At, Good, Placed, Commands
    <3>2. Done(worked', cmd[p].run, cmd[p].at)
        BY <2>3, <3>1 DEF Execute, Done, TypeOK
    <3>3. \A r \in Runs : rec'[r] \subseteq rec[r] \cup
                                  (IF r = cmd[p].run THEN {cmd[p].at} ELSE {})
        BY <2>3 DEF Execute, TypeOK
    <3>. QED BY <2>1, <3>2, <3>3 DEF Recorded, TypeOK
  <2>. QED BY <2>2, <2>3, RecordsStep
<1>. QED BY <1>3, <1>5, <1>6 DEF Recorded

LEMMA TypeStep ==
    ASSUME IInv, NEW p \in Procs, Moving(p)
    PROVE  TypeOK' /\ \A q \in Procs : Good(worked', cmd'[q])
<1>. TypeOK /\ Good(worked, cmd[p]) /\ cmd[p] \in Commands
    BY DEF IInv, TypeOK
<1>1. PICK next : Becomes(p, next) /\ Good(worked', next)
    BY StartStep, ProceedStep DEF Moving
<1>2. \A q \in Procs : Good(worked', cmd'[q])
    BY <1>1, OneMoves, WorkGrows, GoodGrows DEF IInv
<1>3. cmd' \in [Procs -> Commands]
    BY <1>1 DEF Becomes, Good, TypeOK
<1>4. cmd[p].pc \in {"meta", "last"} => cmd[p].run \in Runs /\ cmd[p].status \in Statuses
    BY DEF Good, Placed, Commands
<1>5. meta' \in [Runs -> Statuses] /\ last' \in Runs \cup {NoRun}
    BY <1>4, RecordsStep DEF TypeOK
<1>6. ASSUME NEW recorded \in BOOLEAN, Execute(p, recorded)
      PROVE  /\ rec' \in [Runs -> SUBSET Steps]
             /\ worked' \in [Runs -> SUBSET (Targets \X Steps)]
  <2>1. cmd[p].at \in Steps /\ cmd[p].target \in Targets
      BY <1>6 DEF Execute, At, Good, Placed, Commands
  <2>2. <<cmd[p].target, cmd[p].at>> \in Targets \X Steps
      BY <2>1
  <2>3. worked' = [worked EXCEPT ![cmd[p].run] = @ \cup {<<cmd[p].target, cmd[p].at>>}]
      BY <1>6 DEF Execute
  <2>4. worked' \in [Runs -> SUBSET (Targets \X Steps)]
      BY <2>2, <2>3 DEF TypeOK
  <2>5. rec' \in [Runs -> SUBSET Steps]
      BY <1>6, <2>1 DEF Execute, TypeOK
  <2>. QED BY <2>4, <2>5
<1>7. /\ rec' \in [Runs -> SUBSET Steps]
      /\ worked' \in [Runs -> SUBSET (Targets \X Steps)]
      /\ used' \subseteq Runs
  <2>1. CASE \E recorded \in BOOLEAN : Execute(p, recorded)
      BY <1>6, <2>1 DEF Execute, TypeOK
  <2>2. CASE Start(p)
      BY <2>2 DEF Start, StartInit, StartResume, StartResumeLast, Moves, TypeOK
  <2>3. CASE ~Start(p) /\ ~ \E recorded \in BOOLEAN : Execute(p, recorded)
    <3>1. UNCHANGED <<rec, used, worked>>
        BY <2>3 DEF Moving, Proceed, LastRunID, Collected, List, StartFails, Skip, StepFails,
               SaveMeta, SaveLast, SaveFails, RunnerSucceeds, RunnerFails, Signal, Kill,
               Moves, Fails
    <3>. QED BY <3>1 DEF TypeOK
  <2>. QED BY <2>1, <2>2, <2>3
<1>. QED BY <1>2, <1>3, <1>5, <1>7 DEF TypeOK

\* Every command is where it can be, and what it reports and what is recorded is true.
THEOREM Sound == Spec => []IInv
<1>1. Init => IInv
  <2> SUFFICES ASSUME Init PROVE IInv
      OBVIOUS
  <2>1. \A p \in Procs : \E t \in Targets : cmd[p] = Idle(t)
      BY DEF Init
  <2>2. \A p \in Procs : Good(worked, cmd[p]) /\ cmd[p].pc = "idle"
    <3>1. \A t \in Targets : Good(worked, Idle(t))
        BY IdleGood
    <3>2. \A t \in Targets : Idle(t).pc = "idle"
        BY DEF Idle
    <3>. QED BY <2>1, <3>1, <3>2
  <2>3. TypeOK
      BY <2>2 DEF Init, TypeOK, Good, Statuses
  <2>4. Recorded
      BY <2>2 DEF Init, Recorded
  <2>. QED BY <2>2, <2>3, <2>4 DEF IInv
<1>2. IInv /\ [Next]_vars => IInv'
  <2> SUFFICES ASSUME IInv, [Next]_vars PROVE IInv'
      OBVIOUS
  <2>1. ASSUME NEW p \in Procs, Moving(p) PROVE IInv'
      BY <2>1, RecordedStep, TypeStep DEF IInv
  <2>2. CASE UNCHANGED vars
      BY <2>2 DEF vars, IInv, TypeOK, Recorded
  <2>. QED BY <2>1, <2>2 DEF Next, Moving
<1>. QED BY <1>1, <1>2, PTL DEF Spec

\* Every variable keeps its type.
THEOREM TypeCorrect == Spec => []TypeOK
<1>1. IInv => TypeOK
    BY DEF IInv
<1>. QED BY <1>1, Sound, PTL

\* Exit code 0 follows a run of which every step was done, and a finished hand-over.
THEOREM ZeroIsTrue == Spec => []ZeroIsComplete
<1>1. IInv => ZeroIsComplete
    BY SubcommandsAre DEF IInv, Good, Passes, Done, ZeroIsComplete
<1>. QED BY <1>1, Sound, PTL

\* platform-runner is only called after the whole pipeline, and in order.
THEOREM HandOverIsRight == Spec => []HandedOverWhenComplete
<1>1. IInv => HandedOverWhenComplete
    BY DEF IInv, Good, Handed, DoneHere, HandedOverWhenComplete
<1>. QED BY <1>1, Sound, PTL

\* last_run_id names a run that is recorded.
THEOREM PointerIsRecorded == Spec => []LastIsRecorded
<1>1. IInv => LastIsRecorded
    BY DEF IInv, Recorded, LastIsRecorded
<1>. QED BY <1>1, Sound, PTL
===============================================================================
