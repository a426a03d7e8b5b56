------------------------------- MODULE Collector -------------------------------
(***************************************************************************)
(* Input collection (internal/prompt): before a command executes anything, *)
(* it goes through the inputs of all steps, keeps those that are stored    *)
(* and valid, asks for the others, and stores the answers, one by one.     *)
(* Several commands do so for the same project and environment, and        *)
(* another tool writes to the same table (client.go:5-7).                  *)
(*                                                                         *)
(* The store is that of ConfigStore, a Get or a Set being one step.  What  *)
(* a person types, and the terminal, are external.  A person's answer that *)
(* is refused leads to the next question; nothing bounds how often.        *)
(***************************************************************************)
EXTENDS Naturals, Sequences

CONSTANTS Collectors,    \* the commands, each collecting again and again
          Interactive,   \* those of them without --non-interactive
          Keys,
          Values,        \* what can be stored or typed, other than ""
          Empty,         \* ""
          Absent,        \* "no item"
          Specs,         \* the RequiredInputs of the steps, in sorted order
          Foreign        \* what the other tool stores where; Absent to delete

SpecRecords == [key      : Keys,
                default  : Values \cup {Empty},
                optional : BOOLEAN,
                valid    : SUBSET (Values \cup {Empty})]  \* what Verify lets pass

ASSUME CollectorAssumption ==
    /\ Interactive \subseteq Collectors
    /\ Empty \notin Values
    /\ Absent \notin Values \cup {Empty}
    /\ Specs \in Seq(SpecRecords)
    /\ Specs # <<>>
    /\ \A i \in DOMAIN Specs : Specs[i].default \in Specs[i].valid \cup {Empty}
    /\ Foreign \subseteq Keys \X (Values \cup {Empty, Absent})

VARIABLES col,      \* col[c]: how far the collection of c has come
          store,    \* store[k]: the stored value of k
          seen      \* seen[c]: which values which keys have had in the store since
                    \* c began, until it fails or begins again (history)

vars == <<col, store, seen>>

Answers == Values \cup {Empty}

\* Every variable is of its type.
TypeOK == /\ col \in [Collectors -> [pc      : {"idle", "load", "ask", "read", "set",
                                                "done", "failed"},
                                     idx     : 1..Len(Specs),
                                     default : Answers,   \* of the input at hand
                                     value   : Answers,   \* the answer to store
                                     stopped : BOOLEAN]]  \* context cancelled
          /\ store \in [Keys -> Answers \cup {Absent}]
          /\ seen \in [Collectors -> SUBSET (Keys \X Answers)]

-------------------------------------------------------------------------------

\* dedupeSpecs: of several specs with one key, the first is collected.
Deduped == {i \in 1..Len(Specs) : \A j \in 1..(i - 1) : Specs[j].key # Specs[i].key}

Running(c) == col[c].pc \in {"load", "ask", "read", "set"}

\* The input at hand.
Cur(c) == Specs[col[c].idx]

Idle == [pc |-> "idle", idx |-> 1, default |-> Empty, value |-> Empty,
         stopped |-> FALSE]

\* v is an acceptable answer to s.
Accepts(s, v) == v \in s.valid /\ (v = Empty => s.optional)

Stored == {<<k, store[k]>> : k \in {j \in Keys : store[j] # Absent}}

Init == /\ col = [c \in Collectors |-> Idle]
        /\ store \in [Keys -> Answers \cup {Absent}]
        /\ Stored \subseteq Foreign
        /\ seen = [c \in Collectors |-> {}]

\* The collection of c stands elsewhere now.
Moves(c, next) == /\ col' = [col EXCEPT ![c] = next]
                  /\ UNCHANGED store

Start(c) == /\ ~Running(c)
            /\ Moves(c, [Idle EXCEPT !.pc = "load"])

Later(c) == {i \in Deduped : i > col[c].idx}

\* A slip, as those below: goes on behind the last input.
SettledSlip(c) == [col[c] EXCEPT !.pc = "load", !.idx = @ + 1]

\* The input at hand is settled.
Settled(c) ==
    IF Later(c) = {}
    THEN [Idle EXCEPT !.pc = "done"]
    ELSE [col[c] EXCEPT !.pc = "load", !.default = Empty, !.value = Empty,
                        !.idx = CHOOSE i \in Later(c) : \A j \in Later(c) : i <= j]

\* A call to the store answers as long as the context is not cancelled.
Answering(c) == ~col[c].stopped

Failed(c) == [Idle EXCEPT !.pc = "failed"]

-------------------------------------------------------------------------------
(* Slips: definitions below as a plausible mistake would write them *)

\* Takes whatever is stored for a value.
LoadSlip(c) == /\ col[c].pc = "load"
               /\ Answering(c)
               /\ IF store[Cur(c).key] # Absent
                  THEN Moves(c, Settled(c))
                  ELSE Moves(c, [col[c] EXCEPT !.pc = "ask",
                                               !.default = Cur(c).default])

\* Does not check the value it reads.
AskStoreSlip(c) ==
    LET v == store[Cur(c).key] IN
    /\ col[c].pc = "ask" /\ c \notin Interactive
    /\ Answering(c)
    /\ IF v = Absent THEN Moves(c, Failed(c))
                     ELSE Moves(c, [col[c] EXCEPT !.pc = "set", !.value = v])

\* Takes the default of a required input, too.
FallbackSlip(c) == TRUE

\* Waits for a missing value instead of failing.
MissingSlip(c) == Moves(c, [col[c] EXCEPT !.pc = "load"])

\* Looks at the store again instead of storing the answer.
AnswerSlip(c, input) ==
    /\ col[c].pc = "read"
    /\ Accepts(Cur(c), IF input = Empty THEN col[c].default ELSE input)
    /\ Moves(c, [col[c] EXCEPT !.pc = "load"])

-------------------------------------------------------------------------------
(* Collector.collectOne *)

\* A stored value that is valid is kept; one that is not becomes the default.
Load(c) ==
    LET found    == store[Cur(c).key]
        existing == IF found = Absent THEN Empty ELSE found
    IN /\ col[c].pc = "load"
       /\ Answering(c)
       /\ IF existing # Empty /\ existing \in Cur(c).valid
          THEN Moves(c, Settled(c))
          ELSE Moves(c, [col[c] EXCEPT !.pc = "ask",
                                       !.default = IF Cur(c).default = Empty
                                                   THEN existing ELSE Cur(c).default])

LoadFails(c) == /\ col[c].pc = "load"
                /\ Moves(c, Failed(c))

\* The answer v: nothing is stored for an optional input that is left empty.
Answered(c, v) ==
    Moves(c, IF v = Empty /\ Cur(c).optional THEN Settled(c)
             ELSE [col[c] EXCEPT !.pc = "set", !.value = v])

Store(c) == /\ col[c].pc = "set"
            /\ Answering(c)
            /\ store' = [store EXCEPT ![Cur(c).key] = col[c].value]
            /\ col' = [col EXCEPT ![c] = Settled(c)]

\* A Set that returns an error may have stored its value.
StoreFails(c) == /\ col[c].pc = "set"
                 /\ col' = [col EXCEPT ![c] = Failed(c)]
                 /\ \/ UNCHANGED store
                    \/ /\ Answering(c)
                       /\ store' = [store EXCEPT ![Cur(c).key] = col[c].value]

-------------------------------------------------------------------------------
(* BatchPrompter.Ask: the answer is what is stored, read once more *)

\* The default is the answer for a missing input that is optional; it is not checked.
Fallback(c) == Cur(c).optional

Missing(c) == Moves(c, Failed(c))

AskStore(c) ==
    LET v == store[Cur(c).key] IN
    /\ col[c].pc = "ask" /\ c \notin Interactive
    /\ Answering(c)
    /\ \/ v = Absent /\ Fallback(c) /\ Answered(c, col[c].default)
       \/ v = Absent /\ ~Fallback(c) /\ Missing(c)
       \/ v # Absent /\ v \notin Cur(c).valid /\ Moves(c, Failed(c))
       \/ v # Absent /\ v \in Cur(c).valid /\ Answered(c, v)

-------------------------------------------------------------------------------
(* InteractivePrompter.Ask, which does not look at the context *)

PrintPrompt(c) == /\ col[c].pc = "ask" /\ c \in Interactive
                  /\ Moves(c, [col[c] EXCEPT !.pc = "read"])

\* An empty line stands for the default.
Typed(c, input) == IF input = Empty THEN col[c].default ELSE input

Answer(c, input) == /\ col[c].pc = "read"
                    /\ Accepts(Cur(c), Typed(c, input))
                    /\ Answered(c, Typed(c, input))

\* "please try again"
Refuse(c, input) == /\ col[c].pc = "read"
                    /\ ~Accepts(Cur(c), Typed(c, input))
                    /\ Moves(c, [col[c] EXCEPT !.pc = "ask"])

\* The end of the input, or a terminal that cannot be written to, in either mode
\* a Get that fails.
AskFails(c) == /\ col[c].pc \in {"ask", "read"}
               /\ Moves(c, Failed(c))

-------------------------------------------------------------------------------

\* SIGINT or SIGTERM: the context is cancelled, the collection goes on.
Signal(c) == /\ Running(c)
             /\ Moves(c, [col[c] EXCEPT !.stopped = TRUE])

\* The other tool stores v, or deletes what is there.
StoreElsewhere(k, v) == /\ store' = [store EXCEPT ![k] = v]
                        /\ UNCHANGED col

\* What c has been able to see so far; what a collection saw that succeeded is kept.
Watch == seen' = [c \in Collectors |->
                     CASE col'[c].pc \in {"idle", "failed"} -> {}
                       [] col[c].pc = "done" /\ col'[c].pc = "done" -> seen[c]
                       [] OTHER -> (IF Running(c) THEN seen[c] ELSE {}) \cup Stored']

\* What the program does by itself, once it is started.
Act(c) == \/ Load(c) \/ LoadFails(c)
          \/ AskStore(c) \/ PrintPrompt(c)
          \/ col[c].pc = "ask" /\ AskFails(c)
          \/ Store(c) \/ StoreFails(c)

Proceed(c) == Act(c) /\ Watch

\* What the person at the terminal does; EOF is an answer, too.
Respond(c) == \/ \E input \in Answers : Answer(c, input) \/ Refuse(c, input)
              \/ col[c].pc = "read" /\ AskFails(c)

Next == \/ \E c \in Collectors : \/ Proceed(c)
                                 \/ (Start(c) \/ Respond(c) \/ Signal(c)) /\ Watch
        \/ \E p \in Foreign : StoreElsewhere(p[1], p[2]) /\ Watch

Spec == Init /\ [][Next]_vars

\* A call returns, a person may not.
FairSpec == Spec /\ \A c \in Collectors : WF_vars(Proceed(c))

-------------------------------------------------------------------------------
(* Properties *)

\* The exception to the next two properties: without a person, a "" that is stored for
\* an input and passes its check is the answer, required or not (batch.go:26, 36-39,
\* collector.go:82-87; an input without a check lets "" pass, spec.go Verify).
EmptyPasses(c, i) == /\ c \notin Interactive
                     /\ Empty \in Specs[i].valid
                     /\ <<Specs[i].key, Empty>> \in seen[c]

\* When a collection has succeeded, each required input has had a value since it began
\* that is not empty and passes its check, whoever stored it, and whatever others stored
\* meanwhile, "" included (collector.go:41-48, 63-94); but for EmptyPasses, which only a
\* batch collection can meet, and only with a "" that somebody else stored.  So a batch
\* collection promises less than README.md:75, "fail if any required value is missing",
\* when "" counts as missing, as collector.go:69 has it.
SuccessMeansCollected ==
    \A c \in Collectors : col[c].pc = "done" =>
        \A i \in Deduped : \/ Specs[i].optional
                           \/ \E v \in Answers : /\ Accepts(Specs[i], v)
                                                 /\ <<Specs[i].key, v>> \in seen[c]
                           \/ EmptyPasses(c, i)

\* A collection never puts a value that is not acceptable in the place of one that is,
\* although what it stores was read, typed and checked some time ago (collector.go:64,
\* 77, 87); but for a "" by EmptyPasses.  An optional input without a default is left
\* out: its answer may be an older value that failed its check (collector.go:107-112,
\* batch.go:28-29).
GoodStaysGood ==
    [][\A c \in Collectors : Store(c) \/ StoreFails(c) =>
          (Accepts(Cur(c), store[Cur(c).key]) =>
              \/ Accepts(Cur(c), store'[Cur(c).key])
              \/ store'[Cur(c).key] = Empty /\ EmptyPasses(c, col[c].idx)
              \/ Cur(c).optional /\ Cur(c).default = Empty)]_vars

\* Without a person nothing is made up: a batch collection only stores what was in the
\* store since it began, or the default of an optional input (batch.go:10-11, "It
\* reads all values from configctl").
NothingInvented ==
    [][\A c \in Collectors \ Interactive : (Store(c) \/ StoreFails(c)) /\ store' # store =>
          \/ <<Cur(c).key, store'[Cur(c).key]>> \in seen[c]
          \/ Cur(c).optional /\ store'[Cur(c).key] = Cur(c).default]_vars

\* Every collection without a person ends, by itself and at every moment at which it
\* is interrupted.
BatchEnds == \A c \in Collectors \ Interactive : Running(c) ~> ~Running(c)

\* A collection ends if the person who is asked again and again gives an acceptable
\* answer again and again: no answer is asked for twice.
InteractiveEnds ==
    \A c \in Interactive :
        ([]<>(col[c].pc = "read") => []<><<\E input \in Answers : Answer(c, input)>>_vars)
        => (Running(c) ~> ~Running(c))
================================================================================
