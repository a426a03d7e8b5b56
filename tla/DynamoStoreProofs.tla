--------------------------- MODULE DynamoStoreProofs ---------------------------
(***************************************************************************)
(* The store client keeps the promise of ConfigStore, for any number of    *)
(* clients, keys and values and however often the SDK sends a write; and   *)
(* when a Set is as good as one atomic step, which is how Engine, Targets  *)
(* and PlatformSetup see it.                                               *)
(***************************************************************************)
EXTENDS DynamoStore, TLAPS

\* How the progress of a call, its copies and its history belong together.
Course(c) ==
    /\ at[c] = "idle" <=> call[c] = Idle
    /\ call[c] \in Gets => at[c] = "read"
    /\ at[c] \in {"idle", "read"} => sends[c] = 0
    /\ at[c] = "send" => sends[c] < MaxSends
    /\ flying[c] \subseteq 1..sends[c]
    /\ sends[c] > 0 \/ took[c] => call[c] \in Sets
    /\ at[c] \in {"answered", "done"} => took[c]

IInv == TypeOK /\ \A c \in Clients : Course(c)

\* No two calls write the same key at the same time.
Apart == \A c, d \in Clients :
             c # d /\ call[c] \in Sets /\ call[d] \in Sets => call[c].key # call[d].key

\* The effect of a call lasts until the call ends.
Settled == /\ loose = {}
           /\ \A c \in Clients : took[c] => item[call[c].key] = call[c].value

\* A Set that is about to return no error has its value in the table: that of
\* dynamo.go:94-98 saw it there, that of dynamo.go:113-120 put it there.
DoneIsStored == \A c \in Clients : at[c] \in {"answered", "done"}
                                       => item[call[c].key] = call[c].value

\* The table changes once in a call, to the value the call brings, however often
\* the SDK sends the write (PutItem, dynamo.go:113-116).
ChangedOnce == [][item' # item =>
                    \E c \in Clients :
                        /\ call[c] \in Sets /\ ~took[c] /\ took'[c]
                        /\ item' = [item EXCEPT ![call[c].key] = call[c].value]]_vars

-------------------------------------------------------------------------------
(* Types and the course of a call *)

LEMMA Kinds == /\ Idle \notin Gets /\ Idle \notin Sets
               /\ \A w \in Gets : w \notin Sets /\ w.key \in Keys
               /\ \A w \in Sets : w.key \in Keys /\ w.value \in Values \cup {Absent}
BY DEF Idle, Gets, Sets

\* What a step of one client leaves as it was for the others.
Only(c) == /\ call' = [call EXCEPT ![c] = call'[c]]
           /\ at' = [at EXCEPT ![c] = at'[c]]
           /\ sends' = [sends EXCEPT ![c] = sends'[c]]
           /\ flying' = [flying EXCEPT ![c] = flying'[c]]
           /\ took' = [took EXCEPT ![c] = took'[c]]

\* The part of the invariant that a step of c has to keep is that of c.
LEMMA OthersKeep == ASSUME IInv, NEW c \in Clients, Only(c), TypeOK', Course(c)'
                    PROVE  IInv'
<1>1. ASSUME NEW d \in Clients, d # c PROVE Course(d)'
    BY <1>1 DEF IInv, TypeOK, Only, Course
<1>. QED BY <1>1 DEF IInv

LEMMA AskKeeps == ASSUME IInv, NEW c \in Clients, NEW what \in Gets \cup Sets,
                         NEW pc \in {"read", "send"},
                         pc = "send" => what \in Sets, Ask(c, what, pc)
                  PROVE  IInv'
<1>. TypeOK /\ Course(c) BY DEF IInv
<1>1. /\ call'[c] = what /\ at'[c] = pc
      /\ UNCHANGED <<item, before, sends, flying, loose, took>>
      /\ Only(c)
    BY DEF Ask, TypeOK, Only
<1>2. TypeOK' BY DEF Ask, TypeOK
<1>3. sends[c] = 0 /\ ~took[c] BY Kinds DEF Ask, Course, TypeOK
<1>4. Course(c)' BY <1>1, <1>3, Kinds, StoreAssumption DEF Course
<1>. QED BY <1>1, <1>2, <1>4, OthersKeep

LEMMA FinishKeeps == ASSUME IInv, NEW c \in Clients, Finish(c), call[c] \in Gets \cup Sets,
                            got' \in [Clients -> Values \cup {Absent, "none", "ok", "failed"}]
                     PROVE  IInv'
<1>. TypeOK /\ Course(c) BY DEF IInv
<1>1. /\ call'[c] = Idle /\ at'[c] = "idle" /\ sends'[c] = 0 /\ flying'[c] = {}
      /\ ~took'[c] /\ Only(c)
    BY DEF Finish, TypeOK, Only
<1>2. loose' \subseteq Sets
  <2>1. flying[c] # {} => call[c] \in Sets BY DEF Course, TypeOK
  <2>. QED BY <2>1 DEF Finish, TypeOK
<1>3. TypeOK' BY <1>2, StoreAssumption DEF Finish, TypeOK
<1>4. Course(c)' BY <1>1, Kinds DEF Course
<1>. QED BY <1>1, <1>3, <1>4, OthersKeep

LEMMA GoOnKeeps == ASSUME IInv, NEW c \in Clients, NEW from, NEW to, GoOn(c, from, to),
                          \/ from = {"read"} /\ to = "send" /\ call[c] \in Sets
                          \/ from = {"wait", "answered"} /\ to = "send" /\ sends[c] < MaxSends
                          \/ from = {"wait", "answered"} /\ to = "failed"
                          \/ from = {"answered"} /\ to = "done"
                   PROVE  IInv'
<1>. TypeOK /\ Course(c) BY DEF IInv
<1>1. /\ at'[c] = to /\ at[c] \in from /\ Only(c)
      /\ UNCHANGED <<item, before, call, sends, flying, loose, took, got>>
    BY DEF GoOn, TypeOK, Only
<1>2. TypeOK' BY DEF GoOn, TypeOK
<1>3. call[c] # Idle /\ call[c] \notin Gets BY <1>1, Kinds DEF Course
<1>4. Course(c)' BY <1>1, <1>3, Kinds, StoreAssumption DEF Course
<1>. QED BY <1>1, <1>2, <1>4, OthersKeep

LEMMA ApplyKeeps == ASSUME IInv, NEW c \in Clients, NEW n \in 1..MaxSends, Apply(c, n)
                    PROVE  IInv'
<1>. TypeOK /\ Course(c) BY DEF IInv
<1>1. call[c] \in Sets /\ sends[c] > 0 BY DEF Apply, Course, TypeOK
<1>2. /\ UNCHANGED <<call, sends, loose, got>> /\ took'[c] /\ Only(c)
      /\ flying'[c] = flying[c] \ {n}
      /\ at'[c] = at[c] \/ (at[c] = "wait" /\ at'[c] = "answered")
    BY DEF Apply, TypeOK, Only
<1>3. TypeOK'
  <2>1. call[c].key \in Keys /\ call[c].value \in Values \cup {Absent} BY <1>1, Kinds
  <2>2. item' \in [Keys -> Values \cup {Absent}] /\ before' \in [Keys -> Values \cup {Absent}]
      BY <2>1 DEF Apply, Replace, TypeOK
  <2>. QED BY <1>2, <2>2 DEF Apply, TypeOK
<1>4. Course(c)' BY <1>1, <1>2, Kinds DEF Course
<1>. QED BY <1>2, <1>3, <1>4, OthersKeep

LEMMA LateKeeps == ASSUME IInv, NEW what \in loose, ApplyLate(what) \/ LoseLate(what)
                   PROVE  IInv'
<1>. TypeOK BY DEF IInv
<1>1. what.key \in Keys /\ what.value \in Values \cup {Absent} BY Kinds DEF TypeOK
<1>2. TypeOK' BY <1>1 DEF ApplyLate, LoseLate, Replace, TypeOK
<1>3. UNCHANGED <<call, at, sends, flying, took>> BY DEF ApplyLate, LoseLate
<1>. QED BY <1>2, <1>3 DEF IInv, Course

\* Every step of a client or of the table keeps the invariant.
LEMMA NextKeeps == IInv /\ [Next]_vars => IInv'
<1> SUFFICES ASSUME IInv, [Next]_vars PROVE IInv'
    OBVIOUS
<1>. TypeOK BY DEF IInv
<1>1. ASSUME NEW c \in Clients, Begin(c) PROVE IInv'
  <2>1. ASSUME NEW k \in Keys, Get(c, k) PROVE IInv'
    <3>1. [op |-> "get", key |-> k] \in Gets BY DEF Gets
    <3>. QED BY <2>1, <3>1, AskKeeps DEF Get
  <2>2. ASSUME NEW k \in Keys, NEW v \in Values, Set(c, k, v) PROVE IInv'
    <3>1. [op |-> "set", key |-> k, value |-> v] \in Sets BY DEF Sets
    <3>. QED BY <2>2, <3>1, AskKeeps DEF Set
  <2>3. ASSUME NEW k \in Keys, Delete(c, k) PROVE IInv'
    <3>1. [op |-> "set", key |-> k, value |-> Absent] \in Sets BY DEF Sets
    <3>. QED BY <2>3, <3>1, AskKeeps DEF Delete
  <2>. QED BY <1>1, <2>1, <2>2, <2>3 DEF Begin
<1>2. ASSUME NEW c \in Clients, Proceed(c) PROVE IInv'
  <2>. Course(c) BY DEF IInv
  <2>1. CASE Answer(c)
    <3>1. Readable(call[c].key) \subseteq Values \cup {Absent}
        BY <2>1, Kinds DEF Answer, Readable, TypeOK
    <3>. QED BY <2>1, <3>1, FinishKeeps DEF Answer, TypeOK
  <2>2. CASE AnswerFails(c) BY <2>2, FinishKeeps DEF AnswerFails, TypeOK
  <2>3. CASE Unchanged(c)
    <3>1. /\ at'[c] = "done" /\ took'[c] /\ Only(c) /\ at[c] = "read"
          /\ call[c] \in Sets
          /\ UNCHANGED <<item, before, call, sends, flying, loose, got>>
        BY <2>3 DEF Unchanged, TypeOK, Only
    <3>2. TypeOK' BY <2>3 DEF Unchanged, TypeOK
    <3>3. Course(c)' BY <3>1, Kinds DEF Course
    <3>. QED BY <3>1, <3>2, <3>3, OthersKeep
  <2>4. CASE Prepare(c) BY <2>4, GoOnKeeps DEF Prepare
  <2>5. CASE Send(c)
    <3>1. sends[c] < MaxSends /\ sends[c] \in Nat /\ call[c] \in Sets
        BY <2>5, Kinds DEF Send, Course, TypeOK
    <3>2. /\ at'[c] = "wait" /\ sends'[c] = sends[c] + 1 /\ Only(c)
          /\ flying'[c] = flying[c] \cup {sends[c] + 1}
          /\ UNCHANGED <<item, before, call, loose, took, got>>
        BY <2>5 DEF Send, TypeOK, Only
    <3>3. sends[c] + 1 \in 1..MaxSends BY <3>1, StoreAssumption
    <3>4. TypeOK' BY <2>5, <3>3 DEF Send, TypeOK
    <3>5. Course(c)' BY <3>1, <3>2, Kinds DEF Course
    <3>. QED BY <3>2, <3>4, <3>5, OthersKeep
  <2>6. CASE Retry(c) BY <2>6, GoOnKeeps DEF Retry
  <2>7. CASE GiveUpSending(c) BY <2>7, GoOnKeeps DEF GiveUpSending
  <2>8. CASE Acknowledge(c) BY <2>8, GoOnKeeps DEF Acknowledge
  <2>9. CASE ReturnOk(c)
    <3>1. call[c] \in Gets \cup Sets BY <2>9, Kinds DEF ReturnOk, Course, TypeOK
    <3>. QED BY <2>9, <3>1, FinishKeeps DEF ReturnOk, TypeOK
  <2>10. CASE ReturnError(c) BY <2>10, FinishKeeps DEF ReturnError, TypeOK
  <2>. QED BY <1>2, <2>1, <2>2, <2>3, <2>4, <2>5, <2>6, <2>7, <2>8, <2>9, <2>10 DEF Proceed
<1>3. ASSUME NEW c \in Clients, NEW n \in 1..MaxSends, Lose(c, n) PROVE IInv'
  <2>. Course(c) BY DEF IInv
  <2>1. /\ UNCHANGED <<item, before, call, at, sends, loose, took, got>> /\ Only(c)
        /\ flying'[c] = flying[c] \ {n}
      BY <1>3 DEF Lose, TypeOK, Only
  <2>2. TypeOK' BY <1>3 DEF Lose, TypeOK
  <2>3. Course(c)' BY <2>1 DEF Course
  <2>. QED BY <2>1, <2>2, <2>3, OthersKeep
<1>4. CASE UNCHANGED vars BY <1>4 DEF vars, IInv, TypeOK, Course
<1>. QED BY <1>1, <1>2, <1>3, <1>4, ApplyKeeps, LateKeeps DEF Next, Table

LEMMA InitHolds == Init => IInv
<1> SUFFICES ASSUME Init PROVE IInv
    OBVIOUS
<1>1. TypeOK BY StoreAssumption DEF Init, TypeOK
<1>2. ASSUME NEW c \in Clients PROVE Course(c) BY Kinds DEF Init, Course
<1>. QED BY <1>1, <1>2 DEF IInv

\* A call goes through its stages in order, no write is sent more often than the
\* SDK allows, and one that was acknowledged has happened.
THEOREM Sound == Spec => []IInv
<1>. QED BY InitHolds, NextKeeps, PTL DEF Spec

\* Every variable is of its type: the copies of a write stay within MaxSends, and
\* only writes are left under way (retryer under dynamo.go:113-133).
THEOREM TypeCorrect == Spec => []TypeOK
<1>1. IInv => TypeOK BY DEF IInv
<1>. QED BY <1>1, Sound, PTL

-------------------------------------------------------------------------------
(* The promise of ConfigStore *)

LEMMA SameWords == Abs!Idle = Idle /\ Abs!Gets = Gets /\ Abs!Sets = Sets
BY DEF Idle, Gets, Sets, Abs!Idle, Abs!Gets, Abs!Sets

LEMMA ReadsTheItem == ASSUME StaleReads = FALSE, NEW k \in Keys
                      PROVE  Readable(k) = {item[k]}
BY DEF Readable

\* A request that comes to the store is a call.
LEMMA AskIsCall == ASSUME IInv, NEW c \in Clients, NEW what \in Gets \cup Sets, NEW pc,
                          Ask(c, what, pc)
                   PROVE  Abs!Next
<1>1. call[c] = Abs!Idle BY SameWords DEF Ask, IInv, Course
<1>2. Abs!Call(c, what) BY <1>1 DEF Ask, Abs!Call
<1>. QED BY <1>2, SameWords DEF Abs!Next

\* The end of a call that wrote, or may have: what it left under way is loose.
LEMMA FinishIsReturn == ASSUME IInv, NEW c \in Clients, NEW ok \in BOOLEAN,
                               call[c] \in Sets, ok => took[c], Finish(c),
                               got' = [got EXCEPT ![c] = IF ok THEN "ok" ELSE "failed"]
                        PROVE  Abs!Next
<1>1. loose' \in {loose, loose \cup {call[c]}}
  <2>1. CASE LateCopies /\ flying[c] # {} BY <2>1 DEF Finish
  <2>2. CASE ~(LateCopies /\ flying[c] # {}) BY <2>2 DEF Finish
  <2>. QED BY <2>1, <2>2
<1>2. Abs!Return(c, ok) BY <1>1, SameWords DEF Finish, Abs!Return
<1>. QED BY <1>2 DEF Abs!Next

\* The end of a call that asked: nothing is left of it.
LEMMA FinishOfGet == ASSUME IInv, NEW c \in Clients, call[c] \in Gets, Finish(c)
                     PROVE  /\ call' = [call EXCEPT ![c] = Abs!Idle]
                            /\ UNCHANGED <<item, took, loose>>
<1>. TypeOK /\ Course(c) BY DEF IInv
<1>1. sends[c] = 0 /\ ~took[c] BY Kinds DEF Course, TypeOK
<1>2. flying[c] = {} BY <1>1 DEF Course, TypeOK
<1>3. took' = took BY <1>1 DEF Finish, TypeOK
<1>. QED BY <1>2, <1>3, SameWords DEF Finish

\* Every step of the client and of the table is one of the store, or none at all.
LEMMA StepIsAbstract == ASSUME StaleReads = FALSE, IInv, [Next]_vars
                        PROVE  [Abs!Next]_(Abs!vars)
<1>. TypeOK BY DEF IInv
<1>. DEFINE Stutter == UNCHANGED <<item, call, took, got, loose>>
<1>0. Stutter => [Abs!Next]_(Abs!vars) BY DEF Abs!vars
<1>1. ASSUME NEW c \in Clients, Begin(c) PROVE Abs!Next
  <2>1. ASSUME NEW k \in Keys, Get(c, k) PROVE Abs!Next
    <3>1. [op |-> "get", key |-> k] \in Gets BY DEF Gets
    <3>. QED BY <2>1, <3>1, AskIsCall DEF Get
  <2>2. ASSUME NEW k \in Keys, NEW v \in Values, Set(c, k, v) PROVE Abs!Next
    <3>1. [op |-> "set", key |-> k, value |-> v] \in Sets BY DEF Sets
    <3>. QED BY <2>2, <3>1, AskIsCall DEF Set
  <2>3. ASSUME NEW k \in Keys, Delete(c, k) PROVE Abs!Next
    <3>1. [op |-> "set", key |-> k, value |-> Absent] \in Sets BY DEF Sets
    <3>. QED BY <2>3, <3>1, AskIsCall DEF Delete
  <2>. QED BY <1>1, <2>1, <2>2, <2>3 DEF Begin
<1>2. ASSUME NEW c \in Clients, Proceed(c) PROVE [Abs!Next]_(Abs!vars)
  <2>. Course(c) BY DEF IInv
  <2>1. CASE Answer(c)
    <3>1. call[c].key \in Keys BY <2>1, Kinds DEF Answer
    <3>2. got' = [got EXCEPT ![c] = item[call[c].key]]
        BY <2>1, <3>1, ReadsTheItem DEF Answer
    <3>3. Abs!Read(c)
        BY <2>1, <3>2, FinishOfGet, SameWords DEF Answer, Abs!Read
    <3>. QED BY <3>3 DEF Abs!Next
  <2>2. CASE AnswerFails(c)
    <3>1. Abs!ReadFails(c)
        BY <2>2, FinishOfGet, SameWords DEF AnswerFails, Abs!ReadFails
    <3>. QED BY <3>1 DEF Abs!Next
  <2>3. CASE Unchanged(c)
    <3>1. call[c].key \in Keys BY <2>3, Kinds DEF Unchanged
    <3>2. item[call[c].key] = call[c].value BY <2>3, <3>1, ReadsTheItem DEF Unchanged
    <3>3. item' = [item EXCEPT ![call[c].key] = call[c].value]
        BY <2>3, <3>1, <3>2 DEF Unchanged, TypeOK
    <3>4. Abs!Write(c) BY <2>3, <3>3, SameWords DEF Unchanged, Abs!Write
    <3>. QED BY <3>4 DEF Abs!Next
  <2>4. CASE Prepare(c) BY <2>4, <1>0 DEF Prepare, GoOn
  <2>5. CASE Send(c) BY <2>5, <1>0 DEF Send
  <2>6. CASE Retry(c) BY <2>6, <1>0 DEF Retry, GoOn
  <2>7. CASE GiveUpSending(c) BY <2>7, <1>0 DEF GiveUpSending, GoOn
  <2>8. CASE Acknowledge(c) BY <2>8, <1>0 DEF Acknowledge, GoOn
  <2>9. CASE ReturnOk(c)
    <3>1. call[c] \in Sets /\ took[c] BY <2>9, Kinds DEF ReturnOk, Course, TypeOK
    <3>. QED BY <2>9, <3>1, FinishIsReturn DEF ReturnOk
  <2>10. CASE ReturnError(c)
      BY <2>10, FinishIsReturn DEF ReturnError
  <2>. QED BY <1>2, <2>1, <2>2, <2>3, <2>4, <2>5, <2>6, <2>7, <2>8, <2>9, <2>10
       DEF Proceed
<1>3. ASSUME NEW c \in Clients, NEW n \in 1..MaxSends, Apply(c, n) PROVE Abs!Next
  <2>1. call[c] \in Sets BY <1>3 DEF Apply, IInv, Course, TypeOK
  <2>2. Abs!Write(c) BY <1>3, <2>1, SameWords DEF Apply, Replace, Abs!Write
  <2>. QED BY <2>2 DEF Abs!Next
<1>4. ASSUME NEW c \in Clients, NEW n \in 1..MaxSends, Lose(c, n)
      PROVE  [Abs!Next]_(Abs!vars)
    BY <1>4, <1>0 DEF Lose
<1>5. ASSUME NEW what \in loose, ApplyLate(what) \/ LoseLate(what) PROVE Abs!Next
  <2>1. what \in Abs!Sets BY SameWords DEF TypeOK
  <2>2. ApplyLate(what) => Abs!WriteLate(what) BY DEF ApplyLate, Replace, Abs!WriteLate
  <2>3. LoseLate(what) => Abs!Forget(what) BY DEF LoseLate, Abs!Forget
  <2>. QED BY <1>5, <2>1, <2>2, <2>3 DEF Abs!Next
<1>6. CASE UNCHANGED vars BY <1>6, <1>0 DEF vars
<1>. QED BY <1>1, <1>2, <1>3, <1>4, <1>5, <1>6 DEF Next, Table

\* With reads that are up to date, what callers of the client see is what
\* ConfigStore promises, whatever is lost, repeated or late (dynamo.go:49-135).
THEOREM Implements == ASSUME StaleReads = FALSE
                      PROVE  Spec => ImplementsConfigStore
<1>1. Init => Abs!Init BY SameWords DEF Init, Abs!Init
<1>2. IInv /\ [Next]_vars => [Abs!Next]_(Abs!vars) BY StepIsAbstract
<1>. QED BY <1>1, <1>2, Sound, PTL DEF Spec, ImplementsConfigStore, Abs!Spec

\* A Set may skip its write when GetItem is up to date: the value is there at
\* that moment (dynamo.go:91-98).  The run stale_read shows that the premise,
\* which the code does not ask of DynamoDB, is needed.
THEOREM SkipsSafely == ASSUME StaleReads = FALSE
                       PROVE  Spec => SkippedWriteIsStored
<1>. DEFINE Skip == \A c \in Clients :
             at[c] = "read" /\ at'[c] = "done" => item[call[c].key] = call[c].value
<1>1. ASSUME IInv, [Next]_vars PROVE Skip
  <2> SUFFICES ASSUME NEW c \in Clients, at[c] = "read", at'[c] = "done"
               PROVE  item[call[c].key] = call[c].value
      OBVIOUS
  <2>1. Unchanged(c)
    <3>. TypeOK BY <1>1 DEF IInv
    <3>1. ASSUME NEW d \in Clients, Begin(d) PROVE FALSE
        BY <3>1 DEF Begin, Get, Set, Delete, Ask, TypeOK
    <3>2. ASSUME NEW d \in Clients, Proceed(d) PROVE Unchanged(c)
        BY <3>2 DEF Proceed, Answer, AnswerFails, Finish, Unchanged, Prepare, GoOn, Send,
                    Retry, GiveUpSending, Acknowledge, ReturnOk, ReturnError, TypeOK
    <3>3. Table => at'[c] # "done"
        BY DEF Table, Apply, Lose, ApplyLate, LoseLate, TypeOK
    <3>. QED BY <1>1, <3>1, <3>2, <3>3 DEF Next, vars
  <2>2. call[c].key \in Keys BY <2>1, Kinds DEF Unchanged
  <2>. QED BY <2>1, <2>2, ReadsTheItem DEF Unchanged
<1>2. IInv /\ [Next]_vars => [Skip]_vars BY <1>1
<1>. QED BY <1>2, Sound, PTL DEF Spec, SkippedWriteIsStored

-------------------------------------------------------------------------------
(* When a Set is one atomic step *)

LEMMA SettledKeeps == ASSUME StaleReads = FALSE, LateCopies = FALSE,
                             IInv, Settled, Apart, [Next]_vars
                      PROVE  Settled'
<1>. TypeOK BY DEF IInv
<1>1. ASSUME NEW c \in Clients, Begin(c) PROVE Settled'
  <2>1. ~took[c] BY <1>1, Kinds DEF Begin, Get, Set, Delete, Ask, IInv, Course
  <2>2. /\ UNCHANGED <<item, loose, took>>
        /\ \A d \in Clients \ {c} : call'[d] = call[d]
      BY <1>1 DEF Begin, Get, Set, Delete, Ask, TypeOK
  <2>. QED BY <2>1, <2>2 DEF Settled
<1>2. ASSUME NEW c \in Clients, Finish(c) PROVE Settled'
    BY <1>2 DEF Finish, Settled, TypeOK
<1>3. ASSUME NEW c \in Clients, Unchanged(c) PROVE Settled'
  <2>1. call[c].key \in Keys BY <1>3, Kinds DEF Unchanged
  <2>2. item[call[c].key] = call[c].value BY <1>3, <2>1, ReadsTheItem DEF Unchanged
  <2>. QED BY <1>3, <2>2 DEF Unchanged, Settled, TypeOK
<1>4. ASSUME NEW c \in Clients, NEW n \in 1..MaxSends, Apply(c, n) PROVE Settled'
  <2>1. call[c] \in Sets BY <1>4 DEF Apply, IInv, Course, TypeOK
  <2>2. /\ item' = [item EXCEPT ![call[c].key] = call[c].value]
        /\ UNCHANGED <<call, loose>> /\ took' = [took EXCEPT ![c] = TRUE]
      BY <1>4 DEF Apply, Replace
  <2>3. call[c].key \in Keys BY <2>1, Kinds
  <2>4. ASSUME NEW d \in Clients, took'[d] PROVE item'[call[d].key] = call[d].value
    <3>1. CASE d = c BY <2>2, <2>3, <3>1 DEF TypeOK
    <3>2. CASE d # c
      <4>1. took[d] /\ call[d] \in Sets BY <2>2, <2>4, <3>2 DEF TypeOK, IInv, Course
      <4>2. call[d].key # call[c].key BY <2>1, <3>2, <4>1 DEF Apart
      <4>3. call[d].key \in Keys BY <4>1, Kinds
      <4>. QED BY <2>2, <4>1, <4>2, <4>3 DEF Settled, TypeOK
    <3>. QED BY <3>1, <3>2
  <2>. QED BY <2>2, <2>4 DEF Settled
<1>5. CASE UNCHANGED <<item, call, loose, took>> BY <1>5 DEF Settled
<1>6. ASSUME NEW c \in Clients, Proceed(c) PROVE Settled'
  <2>1. \/ Finish(c) \/ Unchanged(c)
        \/ UNCHANGED <<item, call, loose, took>>
      BY <1>6 DEF Proceed, Answer, AnswerFails, Prepare, GoOn, Send, Retry,
                  GiveUpSending, Acknowledge, ReturnOk, ReturnError
  <2>. QED BY <2>1, <1>2, <1>3, <1>5
<1>7. ASSUME NEW c \in Clients, NEW n \in 1..MaxSends, Lose(c, n) PROVE Settled'
    BY <1>7, <1>5 DEF Lose
<1>. QED BY <1>1, <1>4, <1>5, <1>6, <1>7 DEF Next, Table, Settled, vars

LEMMA ChangesOnce == ASSUME IInv, Settled, [Next]_vars, item' # item
                     PROVE  \E c \in Clients :
                                /\ call[c] \in Sets /\ ~took[c] /\ took'[c]
                                /\ item' = [item EXCEPT ![call[c].key] = call[c].value]
<1>. TypeOK BY DEF IInv
<1>1. PICK c \in Clients, n \in 1..MaxSends : Apply(c, n)
    BY DEF Next, vars, Settled, Begin, Get, Set, Delete, Ask, Proceed, Answer, AnswerFails,
           Finish, Unchanged, Prepare, GoOn, Send, Retry, GiveUpSending, Acknowledge,
           ReturnOk, ReturnError, Table, Lose
<1>2. call[c] \in Sets BY <1>1 DEF Apply, IInv, Course, TypeOK
<1>3. /\ item' = [item EXCEPT ![call[c].key] = call[c].value]
      /\ took'[c]
    BY <1>1 DEF Apply, Replace, TypeOK
<1>4. call[c].key \in Keys BY <1>2, Kinds
<1>5. ~took[c]
  <2>1. SUFFICES ASSUME took[c] PROVE FALSE
      OBVIOUS
  <2>2. item[call[c].key] = call[c].value BY <2>1 DEF Settled
  <2>3. item' = item BY <1>3, <1>4, <2>2 DEF TypeOK
  <2>. QED BY <2>3
<1>. QED BY <1>2, <1>3, <1>5

\* As long as no two processes write the same key at once, no copy outlives its
\* call and reads are up to date, a Set is one atomic step: the table changes at
\* most once in a call, and a Set that answers ok has its value in the table
\* (Set, dynamo.go:70-121).
THEOREM SetIsAtomic == ASSUME StaleReads = FALSE, LateCopies = FALSE
                       PROVE  Spec /\ []Apart => []DoneIsStored /\ ChangedOnce
<1>. DEFINE Change == item' # item =>
                         \E c \in Clients :
                             /\ call[c] \in Sets /\ ~took[c] /\ took'[c]
                             /\ item' = [item EXCEPT ![call[c].key] = call[c].value]
<1>1. Init => Settled BY DEF Init, Settled
<1>2. IInv /\ Settled /\ Apart /\ [Next]_vars => Settled' BY SettledKeeps
<1>3. IInv /\ Settled => DoneIsStored BY DEF IInv, Course, Settled, DoneIsStored
<1>4. IInv /\ Settled /\ [Next]_vars => [Change]_vars BY ChangesOnce
<1>. QED BY <1>1, <1>2, <1>3, <1>4, Sound, PTL DEF Spec, ChangedOnce
================================================================================
