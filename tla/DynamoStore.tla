------------------------------ MODULE DynamoStore ------------------------------
(***************************************************************************)
(* The configuration store client (internal/configctl/dynamo.go) over a    *)
(* DynamoDB table: Get is one GetItem, Set a GetItem and, unless the value *)
(* is there already, a PutItem without a condition, Delete one DeleteItem. *)
(*                                                                         *)
(* The table and the SDK are external and modelled from how the code uses  *)
(* them: a request can be lost, answered late or not at all; the SDK sends *)
(* it again up to MaxSends times and then returns an error; a copy that    *)
(* was given up can still arrive when LateCopies is TRUE.  GetItem is      *)
(* called without ConsistentRead, so that it may answer from a replica     *)
(* that lags one write behind when StaleReads is TRUE.                     *)
(***************************************************************************)
EXTENDS Integers

CONSTANTS Clients,      \* the processes that use the store, one call at a time
          Keys,
          Values,
          Absent,       \* "no item"; not a value
          StaleReads,   \* may a GetItem miss the last write?
          LateCopies,   \* may a copy arrive after its call has ended?
          MaxSends      \* how often the SDK sends a write

ASSUME StoreAssumption == /\ Absent \notin Values
                          /\ StaleReads \in BOOLEAN
                          /\ LateCopies \in BOOLEAN
                          /\ MaxSends \in Nat \ {0}

VARIABLES item,       \* item[k]: the item in the table
          before,     \* before[k]: the item before the last write, as a
                      \* replica that lags behind by that write has it
          call,       \* call[c]: what c has asked for
          at,         \* at[c]: how far the call has come
          sends,      \* sends[c]: the copies of its write sent so far
          flying,     \* flying[c]: those of them that are under way
          loose,      \* the writes under way that no call waits for any more
          took,       \* took[c]: the write of c's call has happened (history)
          got         \* got[c]: what the call that c just made answered

vars == <<item, before, call, at, sends, flying, loose, took, got>>

Idle == [op |-> "idle"]
Gets == [op : {"get"}, key : Keys]
Sets == [op : {"set"}, key : Keys, value : Values \cup {Absent}]

\* Every variable is of its type.
TypeOK == /\ item \in [Keys -> Values \cup {Absent}]
          /\ before \in [Keys -> Values \cup {Absent}]
          /\ call \in [Clients -> {Idle} \cup Gets \cup Sets]
          /\ at \in [Clients -> {"idle", "read", "send", "wait", "answered",
                                 "done", "failed"}]
          /\ sends \in [Clients -> 0..MaxSends]
          /\ flying \in [Clients -> SUBSET (1..MaxSends)]
          /\ loose \subseteq Sets
          /\ took \in [Clients -> BOOLEAN]
          /\ got \in [Clients -> Values \cup {Absent, "none", "ok", "failed"}]

-------------------------------------------------------------------------------

Init == /\ item = [k \in Keys |-> Absent]
        /\ before = [k \in Keys |-> Absent]
        /\ call = [c \in Clients |-> Idle]
        /\ at = [c \in Clients |-> "idle"]
        /\ sends = [c \in Clients |-> 0]
        /\ flying = [c \in Clients |-> {}]
        /\ loose = {}
        /\ took = [c \in Clients |-> FALSE]
        /\ got = [c \in Clients |-> "none"]

\* What a GetItem on k may answer.
Readable(k) == {item[k]} \cup IF StaleReads THEN {before[k]} ELSE {}

\* A process that has nothing to do asks for something; its last answer is used.
Ask(c, what, pc) == /\ at[c] = "idle"
                    /\ call' = [call EXCEPT ![c] = what]
                    /\ at' = [at EXCEPT ![c] = pc]
                    /\ got' = [got EXCEPT ![c] = "none"]
                    /\ UNCHANGED <<item, before, sends, flying, loose, took>>

\* A write goes on: nothing but its progress changes.
GoOn(c, from, to) == /\ at[c] \in from
                     /\ at' = [at EXCEPT ![c] = to]
                     /\ UNCHANGED <<item, before, call, sends, flying, loose,
                                    took, got>>

\* The call of c is over.  A copy under way has nobody waiting for it.
Finish(c) == /\ call' = [call EXCEPT ![c] = Idle]
             /\ at' = [at EXCEPT ![c] = "idle"]
             /\ sends' = [sends EXCEPT ![c] = 0]
             /\ flying' = [flying EXCEPT ![c] = {}]
             /\ loose' = loose \cup IF LateCopies /\ flying[c] # {} THEN {call[c]}
                                                              ELSE {}
             /\ took' = [took EXCEPT ![c] = FALSE]
             /\ UNCHANGED <<item, before>>

-------------------------------------------------------------------------------
(* Slips: actions below as a plausible mistake would write them *)

\* The SDK's error is not returned.
GiveUpSendingSlip(c) == /\ sends[c] = MaxSends
                        /\ GoOn(c, {"wait", "answered"}, "done")

\* Has no limit.
RetrySlip(c) == GoOn(c, {"wait", "answered"}, "send")

-------------------------------------------------------------------------------
(* The calls *)

Get(c, k) == Ask(c, [op |-> "get", key |-> k], "read")

Set(c, k, v) == Ask(c, [op |-> "set", key |-> k, value |-> v], "read")

\* To delete is to set to Absent, without looking.
Delete(c, k) == Ask(c, [op |-> "set", key |-> k, value |-> Absent], "send")

\* The answer to the GetItem of a Get.
Answer(c) == /\ at[c] = "read"
             /\ call[c] \in Gets
             /\ \E i \in Readable(call[c].key) : got' = [got EXCEPT ![c] = i]
             /\ Finish(c)

AnswerFails(c) == /\ at[c] = "read"
                  /\ call[c] \in Gets
                  /\ got' = [got EXCEPT ![c] = "failed"]
                  /\ Finish(c)

\* The GetItem of a Set finds the value there: nothing to write.
Unchanged(c) == /\ at[c] = "read"
                /\ call[c] \in Sets
                /\ call[c].value \in Readable(call[c].key)
                /\ at' = [at EXCEPT ![c] = "done"]
                /\ took' = [took EXCEPT ![c] = TRUE]
                /\ UNCHANGED <<item, before, call, sends, flying, loose, got>>

\* It finds something else, or nothing.
Prepare(c) == /\ call[c] \in Sets
              /\ \E i \in Readable(call[c].key) : i # call[c].value
              /\ GoOn(c, {"read"}, "send")

\* PutItem or DeleteItem, for the first time or again.
Send(c) == /\ at[c] = "send"
           /\ sends' = [sends EXCEPT ![c] = @ + 1]
           /\ flying' = [flying EXCEPT ![c] = @ \cup {sends[c] + 1}]
           /\ at' = [at EXCEPT ![c] = "wait"]
           /\ UNCHANGED <<item, before, call, loose, took, got>>

\* No answer to this copy, or an error: the SDK tries again ...
Retry(c) == /\ sends[c] < MaxSends
            /\ GoOn(c, {"wait", "answered"}, "send")

\* ... or returns its error.
GiveUpSending(c) == /\ sends[c] = MaxSends
                    /\ GoOn(c, {"wait", "answered"}, "failed")

\* The answer to the last copy arrives.
Acknowledge(c) == GoOn(c, {"answered"}, "done")

ReturnOk(c) == /\ at[c] = "done"
               /\ got' = [got EXCEPT ![c] = "ok"]
               /\ Finish(c)

\* A Set or Delete ends with an error: that of the SDK, that of its GetItem, or
\* at any moment that of a cancelled context or a killed process.
ReturnError(c) == /\ call[c] \in Sets
                  /\ got' = [got EXCEPT ![c] = "failed"]
                  /\ Finish(c)

-------------------------------------------------------------------------------
(* The table *)

\* The item is replaced, whatever it was.
Replace(k, i) == /\ item' = [item EXCEPT ![k] = i]
                 /\ before' = IF StaleReads THEN [before EXCEPT ![k] = item[k]]
                                            ELSE before

\* Copy n of the write of c arrives.
Apply(c, n) ==
    /\ n \in flying[c]
    /\ Replace(call[c].key, call[c].value)
    /\ took' = [took EXCEPT ![c] = TRUE]
    /\ flying' = [flying EXCEPT ![c] = @ \ {n}]
    /\ at' = [at EXCEPT ![c] = IF @ = "wait" /\ n = sends[c] THEN "answered" ELSE @]
    /\ UNCHANGED <<call, sends, loose, got>>

Lose(c, n) == /\ n \in flying[c]
              /\ flying' = [flying EXCEPT ![c] = @ \ {n}]
              /\ UNCHANGED <<item, before, call, at, sends, loose, took, got>>

\* The same for copies that were given up; there may be several of one write.
ApplyLate(what) == /\ what \in loose
                   /\ Replace(what.key, what.value)
                   /\ loose' \in {loose, loose \ {what}}
                   /\ UNCHANGED <<call, at, sends, flying, took, got>>

LoseLate(what) == /\ what \in loose
                  /\ loose' = loose \ {what}
                  /\ UNCHANGED <<item, before, call, at, sends, flying, took, got>>

-------------------------------------------------------------------------------

\* What the code of a call, and the SDK under it, do.
Proceed(c) == \/ Answer(c)
              \/ AnswerFails(c)
              \/ Unchanged(c)
              \/ Prepare(c)
              \/ Send(c)
              \/ Retry(c)
              \/ GiveUpSending(c)
              \/ Acknowledge(c)
              \/ ReturnOk(c)
              \/ ReturnError(c)

Begin(c) == \E k \in Keys : \/ Get(c, k)
                            \/ \E v \in Values : Set(c, k, v)
                            \/ Delete(c, k)

Table == \/ \E c \in Clients, n \in 1..MaxSends : Apply(c, n) \/ Lose(c, n)
         \/ \E what \in loose : ApplyLate(what) \/ LoseLate(what)

Next == \/ \E c \in Clients : Begin(c) \/ Proceed(c)
        \/ Table

Spec == Init /\ [][Next]_vars

-------------------------------------------------------------------------------
(* Properties *)

\* With reads that are up to date, lost answers, repeated and late requests and
\* concurrent callers leave the promise of ConfigStore intact: a Set that returns
\* no error has happened between its call and its return (Set, dynamo.go:70-121).
Abs == INSTANCE ConfigStore WITH content <- item

ImplementsConfigStore == Abs!Spec

\* A Set that returns without writing leaves its value in the table (client.go:12,
\* "Set writes a plaintext config value. Idempotent.").
SkippedWriteIsStored ==
    [][\A c \in Clients :
          at[c] = "read" /\ at'[c] = "done" => item[call[c].key] = call[c].value]_vars
================================================================================
