---------------------------- MODULE CollectorProofs ----------------------------
(***************************************************************************)
(* What a collection reports and stores is right: proofs about Collector   *)
(* for any number of commands, inputs and values, whatever another tool    *)
(* stores or deletes meanwhile.                                            *)
(***************************************************************************)
EXTENDS Collector, WellFoundedInduction, TLAPS

\* Only the inputs that dedupeSpecs leaves are collected.
TypeInv == TypeOK /\ \A c \in Collectors : col[c].idx \in Deduped

\* An input that c has passed: its key has had an acceptable value since c began, or a ""
\* that a batch collection takes.
Met(c, i) == \/ Specs[i].optional
             \/ \E v \in Answers : Accepts(Specs[i], v) /\ <<Specs[i].key, v>> \in seen[c]
             \/ EmptyPasses(c, i)

\* Where c's default and answer come from.
Traced(c) ==
    /\ col[c].pc = "read" => c \in Interactive
    /\ Running(c) => Stored \subseteq seen[c]
    /\ col[c].pc \in {"ask", "read"} =>
          \/ col[c].default = Cur(c).default
          \/ col[c].default = Empty
          \/ Cur(c).default = Empty /\ <<Cur(c).key, col[c].default>> \in seen[c]
    /\ col[c].pc = "set" /\ c \notin Interactive =>
          \/ <<Cur(c).key, col[c].value>> \in seen[c]
          \/ Cur(c).optional /\ col[c].value = Cur(c).default

\* What c is about to store is acceptable, but for a "" that a batch collection has read
\* and for what stands in for an optional input without a default; what c has passed is met.
Filled(c) ==
    /\ col[c].pc = "set" => \/ Accepts(Cur(c), col[c].value)
                            \/ col[c].value = Empty /\ EmptyPasses(c, col[c].idx)
                            \/ Cur(c).optional /\ Cur(c).default = Empty
    /\ Running(c) => \A i \in Deduped : i < col[c].idx => Met(c, i)
    /\ col[c].pc = "done" => \A i \in Deduped : Met(c, i)

IInv == /\ TypeInv
        /\ \A c \in Collectors : Traced(c) /\ Filled(c)

-------------------------------------------------------------------------------
(* Inputs *)

LEMMA SpecType ==
    /\ Len(Specs) \in Nat \ {0}
    /\ \A i \in 1..Len(Specs) :
          /\ Specs[i].key \in Keys
          /\ Specs[i].default \in Answers
          /\ Specs[i].optional \in BOOLEAN
          /\ Specs[i].valid \subseteq Answers
          /\ Specs[i].default = Empty \/ Specs[i].default \in Specs[i].valid
<1>1. Len(Specs) \in Nat \ {0} /\ DOMAIN Specs = 1..Len(Specs)
    BY CollectorAssumption
<1>2. \A i \in 1..Len(Specs) : Specs[i] \in SpecRecords
    BY CollectorAssumption
<1>. QED BY <1>1, <1>2, CollectorAssumption DEF SpecRecords, Answers

\* A set of numbers that is not empty has a least one.
LEMMA LeastExists ==
    ASSUME NEW T \in SUBSET Nat, T # {}
    PROVE  \E x \in T : \A y \in T : x <= y
<1>. DEFINE R == OpToRel(<, Nat)
<1>1. R = {q \in Nat \X Nat : q[1] < q[2]}
    BY DEF OpToRel
<1>2. IsWellFoundedOn(R, Nat)
    BY NatLessThanWellFounded
<1>. HIDE DEF R
<1>3. PICK x \in T : \A y \in T : ~ (<<y, x>> \in R)
    BY <1>2, WFMin
<1>4. \A y \in T : ~ (y < x)
    BY <1>1, <1>3
<1>. QED BY <1>4

LEMMA FirstDeduped == 1 \in Deduped /\ \A i \in Deduped : i \in 1..Len(Specs) /\ 1 <= i
BY SpecType DEF Deduped

\* The next input, and what lies between.
LEMMA SettledIs ==
    ASSUME TypeInv, NEW c \in Collectors, Running(c)
    PROVE  /\ Settled(c).idx \in Deduped
           /\ Settled(c).pc \in {"load", "done"}
           /\ Settled(c).pc = "load" =>
                 \A i \in Deduped : i < Settled(c).idx => i <= col[c].idx
           /\ Settled(c).pc = "done" => \A i \in Deduped : i <= col[c].idx
<1>. col[c].idx \in Deduped /\ col[c].idx \in Nat /\ \A i \in Deduped : i \in Nat
    BY FirstDeduped DEF TypeInv
<1>1. CASE Later(c) = {}
  <2>1. \A i \in Deduped : i <= col[c].idx
      BY <1>1 DEF Later
  <2>2. Settled(c) = [Idle EXCEPT !.pc = "done"]
      BY <1>1 DEF Settled
  <2>3. Settled(c).pc = "done" /\ Settled(c).idx = 1
      BY <2>2 DEF Idle
  <2>. QED BY <2>1, <2>3, FirstDeduped
<1>2. CASE Later(c) # {}
  <2>. DEFINE n == CHOOSE i \in Later(c) : \A j \in Later(c) : i <= j
  <2>1. \E i \in Later(c) : \A j \in Later(c) : i <= j
      BY <1>2, LeastExists DEF Later
  <2>2. n \in Later(c) /\ \A j \in Later(c) : n <= j
      BY <2>1
  <2>3. Settled(c) = [col[c] EXCEPT !.pc = "load", !.default = Empty, !.value = Empty,
                                    !.idx = n]
      BY <1>2 DEF Settled
  <2>. HIDE DEF n
  <2>4. n \in Deduped /\ \A i \in Deduped : i < n => i <= col[c].idx
      BY <2>2 DEF Later
  <2>. QED BY <2>3, <2>4 DEF TypeInv, TypeOK
<1>. QED BY <1>1, <1>2

-------------------------------------------------------------------------------
(* Steps of one collection *)

Acts(c) == Start(c) \/ Act(c) \/ Respond(c) \/ Signal(c)

\* What a step of c can do, but for starting, storing and being interrupted: settle the
\* input at hand, end, look for an answer, prompt for it again, and have one.
Settles(c) == /\ Running(c) /\ Moves(c, Settled(c))
              /\ \/ Cur(c).optional
                 \/ store[Cur(c).key] \in Cur(c).valid \ {Empty}

Ends(c) == Running(c) /\ col' = [col EXCEPT ![c] = Failed(c)]

Asks(c, v) == /\ col[c].pc = "load"
              /\ Moves(c, [col[c] EXCEPT !.pc = "ask", !.default = v])
              /\ \/ v = Cur(c).default
                 \/ Cur(c).default = Empty /\ v \in {Empty, store[Cur(c).key]}

Prompts(c) == \/ /\ col[c].pc = "ask" /\ c \in Interactive
                 /\ Moves(c, [col[c] EXCEPT !.pc = "read"])
              \/ col[c].pc = "read" /\ Moves(c, [col[c] EXCEPT !.pc = "ask"])

Holds(c, v) == /\ col[c].pc \in {"ask", "read"}
               /\ Moves(c, [col[c] EXCEPT !.pc = "set", !.value = v])
               /\ v # Empty \/ ~Cur(c).optional
               /\ \/ col[c].pc = "read" /\ Accepts(Cur(c), v)
                  \/ c \notin Interactive /\ v = store[Cur(c).key] /\ v \in Cur(c).valid
                  \/ v = col[c].default /\ Cur(c).optional

\* Every step that the program takes, or that answers it, is one of these.
LEMMA AnswerKinds ==
    ASSUME TypeInv, NEW c \in Collectors, Act(c) \/ Respond(c)
    PROVE  \/ Store(c) \/ Ends(c) \/ Prompts(c)
           \/ Settles(c) \/ \E v \in Answers : Asks(c, v) \/ Holds(c, v)
<1>. TypeOK /\ col[c].idx \in 1..Len(Specs) /\ col[c].default \in Answers
    BY FirstDeduped DEF TypeInv, TypeOK
<1>. Cur(c).default \in Answers /\ Cur(c).key \in Keys /\ Empty \in Answers
    BY SpecType DEF Cur, Answers
<1>1. CASE Load(c)
  <2>. DEFINE found == store[Cur(c).key]
              existing == IF found = Absent THEN Empty ELSE found
              v == IF Cur(c).default = Empty THEN existing ELSE Cur(c).default
  <2>1. found \in Answers \cup {Absent} /\ Absent \notin Answers
      BY CollectorAssumption DEF TypeOK, Answers
  <2>2. CASE existing # Empty /\ existing \in Cur(c).valid
    <3>1. Moves(c, Settled(c)) /\ found \in Cur(c).valid \ {Empty} /\ Running(c)
        BY <1>1, <2>2 DEF Load, Running
    <3>. QED BY <3>1 DEF Settles
  <2>3. CASE ~(existing # Empty /\ existing \in Cur(c).valid)
    <3>1. Moves(c, [col[c] EXCEPT !.pc = "ask", !.default = v]) /\ col[c].pc = "load"
        BY <1>1, <2>3 DEF Load
    <3>2. v \in Answers /\ (v = Cur(c).default \/ (Cur(c).default = Empty /\ v \in {Empty, found}))
        BY <2>1
    <3>. QED BY <3>1, <3>2 DEF Asks
  <2>. QED BY <2>2, <2>3
<1>2. CASE LoadFails(c) \/ AskFails(c) \/ StoreFails(c)
    BY <1>2 DEF LoadFails, AskFails, StoreFails, Moves, Ends, Running
<1>3. ASSUME NEW v \in Answers, Answered(c, v), col[c].pc \in {"ask", "read"},
             \/ col[c].pc = "read" /\ Accepts(Cur(c), v)
             \/ c \notin Interactive /\ v = store[Cur(c).key] /\ v \in Cur(c).valid
             \/ v = col[c].default /\ Cur(c).optional
      PROVE  Settles(c) \/ Holds(c, v)
    BY <1>3 DEF Answered, Settles, Holds, Running
<1>4. CASE AskStore(c)
  <2>1. store[Cur(c).key] # Absent => store[Cur(c).key] \in Answers
      BY DEF TypeOK
  <2>2. Moves(c, Failed(c)) => Ends(c)
      BY <1>4 DEF AskStore, Ends, Moves, Running
  <2>3. \/ Moves(c, Failed(c))
        \/ Answered(c, col[c].default) /\ Cur(c).optional
        \/ /\ Answered(c, store[Cur(c).key]) /\ store[Cur(c).key] # Absent
           /\ store[Cur(c).key] \in Cur(c).valid
      BY <1>4 DEF AskStore, Missing, Fallback
  <2>. QED BY <1>3, <1>4, <2>1, <2>2, <2>3 DEF AskStore
<1>5. CASE PrintPrompt(c)
    BY <1>5 DEF PrintPrompt, Prompts
<1>6. ASSUME NEW input \in Answers, Answer(c, input)
      PROVE  Settles(c) \/ \E v \in Answers : Holds(c, v)
  <2>1. Typed(c, input) \in Answers
      BY DEF Typed
  <2>. QED BY <1>3, <1>6, <2>1 DEF Answer
<1>7. ASSUME NEW input \in Answers, Refuse(c, input)
      PROVE  Prompts(c)
    BY <1>7 DEF Refuse, Prompts
<1>. QED BY <1>1, <1>2, <1>4, <1>5, <1>6, <1>7 DEF Act, Respond

\* Every step of a collection is one of these, or its first, or a signal.
LEMMA Kinds ==
    ASSUME TypeInv, NEW c \in Collectors, Acts(c)
    PROVE  \/ Start(c) \/ Signal(c) \/ Store(c) \/ Ends(c) \/ Prompts(c)
           \/ Settles(c) \/ \E v \in Answers : Asks(c, v) \/ Holds(c, v)
BY AnswerKinds DEF Acts

\* A step of c leaves the other collections alone, and the types.
LEMMA ActsType ==
    ASSUME TypeInv, NEW c \in Collectors, Acts(c)
    PROVE  /\ \A d \in Collectors \ {c} : col'[d] = col[d]
           /\ col'[c].idx \in Deduped
           /\ col' \in [Collectors -> [pc : {"idle", "load", "ask", "read", "set", "done", "failed"},
                                       idx : 1..Len(Specs), default : Answers,
                                       value : Answers, stopped : BOOLEAN]]
<1>. DEFINE T == [pc : {"idle", "load", "ask", "read", "set", "done", "failed"},
                  idx : 1..Len(Specs), default : Answers, value : Answers,
                  stopped : BOOLEAN]
<1>. TypeOK /\ col \in [Collectors -> T] /\ col[c].idx \in Deduped /\ Empty \in Answers
    BY DEF TypeInv, TypeOK, Answers
<1>1. ASSUME NEW next \in T, next.idx \in Deduped, col' = [col EXCEPT ![c] = next]
      PROVE  /\ \A d \in Collectors \ {c} : col'[d] = col[d]
             /\ col'[c].idx \in Deduped
             /\ col' \in [Collectors -> T]
    BY <1>1
<1>2. CASE Start(c)
  <2>1. [Idle EXCEPT !.pc = "load"] \in T /\ [Idle EXCEPT !.pc = "load"].idx = 1
      BY FirstDeduped DEF Idle
  <2>. QED BY <1>1, <1>2, <2>1, FirstDeduped DEF Start, Moves
<1>3. CASE Settles(c) \/ Store(c)
  <2>1. Running(c) /\ col' = [col EXCEPT ![c] = Settled(c)]
      BY <1>3 DEF Settles, Store, Moves, Running
  <2>2. Settled(c) \in T /\ Settled(c).idx \in Deduped
    <3>1. Settled(c).idx \in Deduped /\ Settled(c).idx \in 1..Len(Specs)
        BY <2>1, SettledIs, FirstDeduped
    <3>2. CASE Later(c) = {}
        BY <3>1, <3>2 DEF Settled, Idle
    <3>3. CASE Later(c) # {}
      <4>. DEFINE n == CHOOSE i \in Later(c) : \A j \in Later(c) : i <= j
      <4>1. Settled(c) = [col[c] EXCEPT !.pc = "load", !.default = Empty, !.value = Empty,
                                        !.idx = n]
          BY <3>3 DEF Settled
      <4>. HIDE DEF n
      <4>2. Settled(c).idx = n
          BY <4>1
      <4>3. col[c] \in T /\ n \in 1..Len(Specs)
          BY <3>1, <4>2
      <4>4. [col[c] EXCEPT !.pc = "load", !.default = Empty, !.value = Empty,
                           !.idx = n] \in T
          BY <4>3
      <4>. QED BY <3>1, <4>1, <4>4
    <3>. QED BY <3>1, <3>2, <3>3
  <2>. QED BY <1>1, <2>1, <2>2
<1>4. CASE Ends(c)
  <2>1. Failed(c) \in T /\ Failed(c).idx = 1
      BY FirstDeduped DEF Failed, Idle
  <2>. QED BY <1>1, <1>4, <2>1, FirstDeduped DEF Ends
<1>5. CASE Prompts(c) \/ \E v \in Answers : Asks(c, v) \/ Holds(c, v)
    BY <1>1, <1>5 DEF Asks, Prompts, Holds, Moves
<1>6. CASE Signal(c)
    BY <1>1, <1>6 DEF Signal, Moves
<1>. QED BY <1>2, <1>3, <1>4, <1>5, <1>6, Kinds

\* Where a step leaves c.
LEMMA Lands ==
    ASSUME TypeInv, NEW c \in Collectors
    PROVE  /\ Start(c) => col'[c].pc = "load" /\ col'[c].idx = 1 /\ ~Running(c)
           /\ Settles(c) \/ Store(c) => col'[c] = Settled(c) /\ Running(c)
           /\ Ends(c) => col'[c].pc = "failed"
           /\ \A v : Asks(c, v) => /\ col'[c].pc = "ask" /\ col'[c].default = v
                                   /\ col'[c].idx = col[c].idx /\ Running(c)
           /\ Prompts(c) => /\ col'[c].pc = "ask" \/ (col'[c].pc = "read" /\ c \in Interactive)
                            /\ col[c].pc \in {"ask", "read"}
                            /\ col'[c].idx = col[c].idx /\ col'[c].default = col[c].default
           /\ \A v : Holds(c, v) => /\ col'[c].pc = "set" /\ col'[c].value = v
                                    /\ col'[c].idx = col[c].idx /\ Running(c)
           /\ Signal(c) => /\ col'[c].pc = col[c].pc /\ col'[c].idx = col[c].idx
                           /\ col'[c].default = col[c].default
                           /\ col'[c].value = col[c].value /\ Running(c)
<1>. DEFINE T == [pc : {"idle", "load", "ask", "read", "set", "done", "failed"},
                  idx : 1..Len(Specs), default : Answers, value : Answers,
                  stopped : BOOLEAN]
<1>. col \in [Collectors -> T] /\ col[c] \in T
    BY DEF TypeInv, TypeOK
<1>. HIDE DEF T
<1>0. \A next : col' = [col EXCEPT ![c] = next] => col'[c] = next
    OBVIOUS
<1>1. Start(c) => col'[c].pc = "load" /\ col'[c].idx = 1 /\ ~Running(c)
    BY <1>0 DEF Start, Moves, Idle
<1>2. Settles(c) \/ Store(c) => col'[c] = Settled(c) /\ Running(c)
    BY <1>0 DEF Settles, Store, Moves, Running
<1>3. Ends(c) => col'[c].pc = "failed"
    BY <1>0 DEF Ends, Failed, Idle
<1>4. \A v : Asks(c, v) => /\ col'[c].pc = "ask" /\ col'[c].default = v
                          /\ col'[c].idx = col[c].idx /\ Running(c)
    BY <1>0 DEF Asks, Moves, Running, T
<1>5. Prompts(c) => /\ col'[c].pc = "ask" \/ (col'[c].pc = "read" /\ c \in Interactive)
                   /\ col[c].pc \in {"ask", "read"}
                   /\ col'[c].idx = col[c].idx /\ col'[c].default = col[c].default
    BY <1>0 DEF Prompts, Moves, T
<1>6. \A v : Holds(c, v) => /\ col'[c].pc = "set" /\ col'[c].value = v
                           /\ col'[c].idx = col[c].idx /\ Running(c)
    BY <1>0 DEF Holds, Moves, Running, T
<1>7. Signal(c) => /\ col'[c].pc = col[c].pc /\ col'[c].idx = col[c].idx
                  /\ col'[c].default = col[c].default
                  /\ col'[c].value = col[c].value /\ Running(c)
    BY <1>0 DEF Signal, Moves, T
<1>. QED BY <1>1, <1>2, <1>3, <1>4, <1>5, <1>6, <1>7

-------------------------------------------------------------------------------
(* Steps of the system *)

Elsewhere == \E p \in Foreign : StoreElsewhere(p[1], p[2])

LEMMA NextIs == Next => Watch /\ (Elsewhere \/ \E c \in Collectors : Acts(c))
BY DEF Next, Proceed, Acts, Elsewhere

\* What a collection does to the store: it stores the answer, or nothing.
LEMMA StoreStep ==
    ASSUME TypeInv, NEW c \in Collectors, Acts(c)
    PROVE  \/ UNCHANGED store
           \/ col[c].pc = "set" /\ store' = [store EXCEPT ![Cur(c).key] = col[c].value]
BY DEF Acts, Start, Act, Respond, Signal, Load, LoadFails, AskStore, PrintPrompt, AskFails,
       Store, StoreFails, Answer, Refuse, Answered, Missing, Moves

LEMMA StoreType ==
    ASSUME TypeInv, Elsewhere \/ \E c \in Collectors : Acts(c)
    PROVE  store' \in [Keys -> Answers \cup {Absent}]
<1>1. CASE Elsewhere
    BY <1>1, CollectorAssumption DEF Elsewhere, StoreElsewhere, TypeInv, TypeOK, Answers
<1>2. ASSUME NEW c \in Collectors, Acts(c)
      PROVE  store' \in [Keys -> Answers \cup {Absent}]
    BY <1>2, StoreStep DEF TypeInv, TypeOK
<1>. QED BY <1>1, <1>2

\* What the collections are able to see.
LEMMA Watched ==
    ASSUME TypeInv, Watch, NEW d \in Collectors
    PROVE  /\ seen'[d] \subseteq seen[d] \cup Stored'
           /\ Running(d) /\ col'[d].pc \notin {"idle", "failed"} =>
                 seen'[d] = seen[d] \cup Stored'
           /\ ~Running(d) /\ col'[d].pc = "load" => seen'[d] = Stored'
           /\ col[d].pc = "done" /\ col'[d].pc = "done" => seen'[d] = seen[d]
BY DEF Watch, Running

LEMMA TypeStep == TypeInv /\ [Next]_vars => TypeInv'
<1> SUFFICES ASSUME TypeInv, [Next]_vars PROVE TypeInv'
    OBVIOUS
<1>1. CASE UNCHANGED vars
    BY <1>1 DEF vars, TypeInv, TypeOK
<1>2. CASE Next
  <2>. Watch /\ (Elsewhere \/ \E c \in Collectors : Acts(c))
      BY <1>2, NextIs
  <2>1. store' \in [Keys -> Answers \cup {Absent}]
      BY StoreType
  <2>2. seen' \in [Collectors -> SUBSET (Keys \X Answers)]
    <3>1. Stored' \subseteq Keys \X Answers
        BY <2>1 DEF Stored
    <3>2. \A d \in Collectors : seen'[d] \in SUBSET (Keys \X Answers)
        BY <3>1, Watched DEF TypeInv, TypeOK
    <3>3. DOMAIN seen' = Collectors /\ seen' = [d \in Collectors |-> seen'[d]]
        BY DEF Watch
    <3>. QED BY <3>2, <3>3
  <2>3. CASE Elsewhere
      BY <2>1, <2>2, <2>3 DEF Elsewhere, StoreElsewhere, TypeInv, TypeOK
  <2>4. ASSUME NEW c \in Collectors, Acts(c) PROVE TypeInv'
      BY <2>1, <2>2, <2>4, ActsType DEF TypeInv, TypeOK
  <2>. QED BY <2>3, <2>4
<1>. QED BY <1>1, <1>2

\* What is in the store has been seen, by those that were running.
LEMMA InStore ==
    ASSUME TypeInv, NEW k \in Keys, store[k] # Absent
    PROVE  <<k, store[k]>> \in Stored
BY DEF Stored

LEMMA TracedStep ==
    ASSUME TypeInv, Watch, NEW d \in Collectors, Traced(d),
           col'[d] = col[d] \/ Acts(d)
    PROVE  Traced(d)'
<1>. TypeOK /\ col[d].idx \in 1..Len(Specs) /\ Cur(d).key \in Keys
    BY FirstDeduped, SpecType DEF TypeInv, TypeOK, Cur
<1>0. Running(d)' => col'[d].pc \notin {"idle", "failed"}
    BY DEF Running
<1>1. Running(d)' => Stored' \subseteq seen'[d]
  <2>1. CASE Running(d)
      BY <1>0, <2>1, Watched
  <2>2. CASE ~Running(d)
    <3>1. Running(d)' => col'[d].pc = "load"
      <4>1. CASE col'[d] = col[d]
          BY <2>2, <4>1 DEF Running
      <4>2. CASE Acts(d)
          BY <2>2, <4>2, Kinds, Lands DEF Running
      <4>. QED BY <4>1, <4>2
    <3>. QED BY <2>2, <3>1, Watched
  <2>. QED BY <2>1, <2>2
<1>2. Running(d) /\ col'[d].pc \notin {"idle", "failed"} => seen[d] \subseteq seen'[d]
    BY Watched
<1>3. CASE col'[d] = col[d] \/ Signal(d)
  <2>1. /\ col'[d].pc = col[d].pc /\ col'[d].idx = col[d].idx
        /\ col'[d].default = col[d].default /\ col'[d].value = col[d].value
      BY <1>3, Lands
  <2>2. col[d].pc \in {"ask", "read", "set"} => Running(d)
      BY DEF Running
  <2>. QED BY <1>1, <1>2, <2>1, <2>2 DEF Traced, Cur
<1>4. CASE Start(d) \/ Settles(d) \/ Store(d) \/ Ends(d)
  <2>1. col'[d].pc \in {"load", "done", "failed"}
      BY <1>4, Lands, SettledIs
  <2>. QED BY <1>1, <2>1 DEF Traced
<1>5. ASSUME NEW v \in Answers, Asks(d, v) PROVE Traced(d)'
  <2>1. col'[d].pc = "ask" /\ col'[d].default = v /\ col'[d].idx = col[d].idx /\ Running(d)
      BY <1>5, Lands
  <2>2. \/ v = Cur(d).default
        \/ v = Empty
        \/ Cur(d).default = Empty /\ <<Cur(d).key, v>> \in seen[d]
      BY <1>5, <2>1, InStore, CollectorAssumption DEF Asks, Traced, Answers
  <2>. QED BY <1>1, <1>2, <2>1, <2>2 DEF Traced, Cur
<1>6. CASE Prompts(d)
    BY <1>1, <1>2, <1>6, Lands DEF Traced, Cur, Running
<1>7. ASSUME NEW v \in Answers, Holds(d, v) PROVE Traced(d)'
  <2>1. col'[d].pc = "set" /\ col'[d].value = v /\ col'[d].idx = col[d].idx /\ Running(d)
      BY <1>7, Lands
  <2>2. \/ d \in Interactive
        \/ <<Cur(d).key, v>> \in seen[d]
        \/ (Cur(d).optional /\ v = Cur(d).default)
    <3>1. CASE v = store[Cur(d).key]
        BY <2>1, <3>1, InStore, CollectorAssumption DEF Traced, Answers
    <3>2. CASE col[d].pc = "read"
        BY <3>2 DEF Traced
    <3>3. CASE v = col[d].default /\ Cur(d).optional /\ v # Empty
        BY <1>7, <3>3 DEF Traced, Holds
    <3>. QED BY <1>7, <3>1, <3>2, <3>3 DEF Holds
  <2>. QED BY <1>1, <1>2, <2>1, <2>2 DEF Traced, Cur
<1>. QED BY <1>3, <1>4, <1>5, <1>6, <1>7, Kinds

LEMMA FilledStep ==
    ASSUME TypeInv, Watch, NEW d \in Collectors, Traced(d), Filled(d),
           col'[d] = col[d] \/ Acts(d)
    PROVE  Filled(d)'
<1>. TypeOK /\ col[d].idx \in 1..Len(Specs) /\ Cur(d).key \in Keys
    BY FirstDeduped, SpecType DEF TypeInv, TypeOK, Cur
<1>0. PICK n \in Deduped : n = col[d].idx /\ Cur(d) = Specs[n]
    BY DEF TypeInv, Cur
<1>1. \/ Running(d) /\ col'[d].pc \notin {"idle", "failed"}
      \/ col[d].pc = "done" /\ col'[d].pc = "done"
      => seen[d] \subseteq seen'[d]
    BY Watched
<1>2. seen[d] \subseteq seen'[d] =>
         \A i \in Deduped : /\ Met(d, i) => Met(d, i)'
                            /\ EmptyPasses(d, i) => EmptyPasses(d, i)'
    BY DEF Met, EmptyPasses
<1>3. CASE col'[d] = col[d] \/ Signal(d)
  <2>1. col'[d].pc = col[d].pc /\ col'[d].idx = col[d].idx /\ col'[d].value = col[d].value
      BY <1>3, Lands
  <2>2. /\ Running(d)' <=> Running(d)
        /\ Running(d) => col[d].pc \notin {"idle", "failed"}
        /\ col[d].pc = "set" => Running(d)
      BY <2>1 DEF Running
  <2>. QED BY <1>0, <1>1, <1>2, <2>1, <2>2 DEF Filled, Cur
<1>4. CASE Start(d)
  <2>1. col'[d].pc = "load" /\ col'[d].idx = 1
      BY <1>4, Lands
  <2>2. \A i \in Deduped : ~(i < 1)
      BY FirstDeduped
  <2>. QED BY <2>1, <2>2 DEF Filled, Running
<1>5. CASE Ends(d)
    BY <1>5, Lands DEF Filled, Running
<1>6. ASSUME Settles(d) \/ Store(d), Met(d, n)'
      PROVE  Filled(d)'
  <2>1. col'[d] = Settled(d) /\ Running(d)
      BY <1>6, Lands
  <2>2. col'[d].pc \in {"load", "done"}
      BY <2>1, SettledIs
  <2>3. \A i \in Deduped : i <= col[d].idx => Met(d, i)'
    <3> SUFFICES ASSUME NEW i \in Deduped, i <= col[d].idx PROVE Met(d, i)'
        OBVIOUS
    <3>1. i < col[d].idx \/ i = n
        BY <1>0, FirstDeduped
    <3>. QED BY <1>1, <1>2, <1>6, <2>1, <2>2, <3>1 DEF Filled
  <2>4. /\ col'[d].pc = "load" => \A i \in Deduped : i < col'[d].idx => Met(d, i)'
        /\ col'[d].pc = "done" => \A i \in Deduped : Met(d, i)'
      BY <2>1, <2>3, SettledIs
  <2>. QED BY <2>2, <2>4 DEF Filled, Running
<1>7. CASE Settles(d)
  <2>1. CASE Cur(d).optional
      BY <1>0, <1>6, <1>7, <2>1 DEF Met
  <2>2. CASE store[Cur(d).key] \in Cur(d).valid \ {Empty}
    <3>. DEFINE v == store[Cur(d).key]
    <3>1. v \in Answers /\ Accepts(Cur(d), v)
        BY <2>2, SpecType DEF Accepts, Cur
    <3>2. <<Cur(d).key, v>> \in seen[d] /\ Running(d)
        BY <1>7, <3>1, InStore, CollectorAssumption DEF Settles, Traced, Answers
    <3>3. Met(d, n)
        BY <1>0, <3>1, <3>2 DEF Met
    <3>4. col'[d].pc \in {"load", "done"}
        BY <1>7, <3>2, Lands, SettledIs
    <3>5. Met(d, n)'
        BY <1>1, <1>2, <3>2, <3>3, <3>4
    <3>. QED BY <1>6, <1>7, <3>5
  <2>. QED BY <1>7, <2>1, <2>2 DEF Settles
<1>8. CASE Store(d)
  <2>1. /\ col[d].pc = "set" /\ Running(d)
        /\ store' = [store EXCEPT ![Cur(d).key] = col[d].value]
      BY <1>8 DEF Store, Running
  <2>2. col'[d].pc \in {"load", "done"}
      BY <1>8, <2>1, Lands, SettledIs
  <2>3. CASE Cur(d).optional
      BY <1>0, <1>6, <1>8, <2>3 DEF Met
  <2>4. CASE Accepts(Cur(d), col[d].value)
    <3>1. col[d].value \in Answers /\ store'[Cur(d).key] = col[d].value
        BY <2>1 DEF TypeOK
    <3>2. <<Cur(d).key, col[d].value>> \in Stored'
        BY <3>1, CollectorAssumption DEF Stored, Answers
    <3>3. <<Cur(d).key, col[d].value>> \in seen'[d]
        BY <2>1, <2>2, <3>2, Watched
    <3>4. Met(d, n)'
        BY <1>0, <2>4, <3>1, <3>3 DEF Met, Accepts
    <3>. QED BY <1>6, <1>8, <3>4
  <2>5. CASE EmptyPasses(d, n)
    <3>1. EmptyPasses(d, n)'
        BY <1>1, <1>2, <2>1, <2>2, <2>5
    <3>2. Met(d, n)'
        BY <3>1 DEF Met
    <3>. QED BY <1>6, <1>8, <3>2
  <2>. QED BY <1>0, <2>1, <2>3, <2>4, <2>5 DEF Filled
<1>9. ASSUME NEW v \in Answers, Asks(d, v) PROVE Filled(d)'
  <2>1. col'[d].pc = "ask" /\ col'[d].idx = col[d].idx /\ Running(d)
      BY <1>9, Lands
  <2>. QED BY <1>1, <1>2, <2>1 DEF Filled
<1>10. CASE Prompts(d)
  <2>1. col'[d].pc \in {"ask", "read"} /\ col'[d].idx = col[d].idx /\ Running(d)
      BY <1>10, Lands DEF Running
  <2>. QED BY <1>1, <1>2, <2>1 DEF Filled
<1>11. ASSUME NEW v \in Answers, Holds(d, v) PROVE Filled(d)'
  <2>1. col'[d].pc = "set" /\ col'[d].value = v /\ col'[d].idx = col[d].idx /\ Running(d)
      BY <1>11, Lands
  <2>2. \/ Accepts(Cur(d), v)
        \/ v = Empty /\ EmptyPasses(d, n)
        \/ Cur(d).optional /\ Cur(d).default = Empty
    <3>1. CASE col[d].pc = "read" /\ Accepts(Cur(d), v)
        BY <3>1
    <3>2. CASE d \notin Interactive /\ v = store[Cur(d).key] /\ v \in Cur(d).valid
      <4>1. <<Cur(d).key, v>> \in seen[d]
          BY <2>1, <3>2, InStore, CollectorAssumption DEF Traced, Answers
      <4>. QED BY <1>0, <3>2, <4>1 DEF Accepts, EmptyPasses
    <3>3. CASE v = col[d].default /\ Cur(d).optional
      <4>1. Cur(d).default = Empty \/ Cur(d).default \in Cur(d).valid
          BY SpecType DEF Cur
      <4>. QED BY <1>11, <3>3, <4>1 DEF Traced, Holds, Accepts
    <3>. QED BY <1>11, <3>1, <3>2, <3>3 DEF Holds
  <2>. QED BY <1>0, <1>1, <1>2, <2>1, <2>2 DEF Filled, Cur
<1>. QED BY <1>3, <1>4, <1>5, <1>7, <1>8, <1>9, <1>10, <1>11, Kinds

LEMMA InitInv == Init => IInv
<1> SUFFICES ASSUME Init PROVE IInv
    OBVIOUS
<1>1. \A c \in Collectors : col[c] = Idle /\ seen[c] = {}
    BY DEF Init
<1>2. TypeInv
    BY <1>1, FirstDeduped, CollectorAssumption DEF Init, Idle, TypeInv, TypeOK, Answers
<1>3. \A c \in Collectors : Traced(c) /\ Filled(c)
  <2> SUFFICES ASSUME NEW c \in Collectors PROVE Traced(c) /\ Filled(c)
      OBVIOUS
  <2>1. col[c].pc = "idle"
      BY <1>1 DEF Idle
  <2>. QED BY <2>1 DEF Traced, Filled, Running
<1>. QED BY <1>2, <1>3 DEF IInv

LEMMA NextInv == IInv /\ [Next]_vars => IInv'
<1> SUFFICES ASSUME IInv, [Next]_vars PROVE IInv'
    OBVIOUS
<1>. TypeInv /\ \A c \in Collectors : Traced(c) /\ Filled(c)
    BY DEF IInv
<1>1. CASE UNCHANGED vars
  <2>1. col' = col /\ store' = store /\ seen' = seen
      BY <1>1 DEF vars
  <2>2. TypeInv'
      BY TypeStep
  <2>3. \A c \in Collectors : Traced(c)'
      BY <2>1 DEF Traced, Running, Stored, Cur
  <2>4. \A c \in Collectors : Filled(c)'
    <3>1. \A c, i : /\ Met(c, i) => Met(c, i)'
                    /\ EmptyPasses(c, i) => EmptyPasses(c, i)'
        BY <2>1 DEF Met, EmptyPasses
    <3>. QED BY <2>1, <3>1 DEF Filled, Running, Cur
  <2>. QED BY <2>2, <2>3, <2>4 DEF IInv
<1>2. CASE Next
  <2>. Watch /\ (Elsewhere \/ \E c \in Collectors : Acts(c))
      BY <1>2, NextIs
  <2>1. \A d \in Collectors : col'[d] = col[d] \/ Acts(d)
      BY ActsType DEF Elsewhere, StoreElsewhere
  <2>2. \A d \in Collectors : Traced(d)' /\ Filled(d)'
      BY <2>1, TracedStep, FilledStep
  <2>3. TypeInv'
      BY TypeStep
  <2>. QED BY <2>2, <2>3 DEF IInv
<1>. QED BY <1>1, <1>2

-------------------------------------------------------------------------------
(* Theorems *)

\* What a collection holds and has passed comes from the store, the person and the specs,
\* in every reachable state (collector.go:63-94, batch.go:20-47).
THEOREM Sound == Spec => []IInv
BY InitInv, NextInv, PTL DEF Spec

\* Every variable is of its type.
THEOREM TypeCorrect == Spec => []TypeOK
<1>1. IInv => TypeOK
    BY DEF IInv, TypeInv
<1>. QED BY <1>1, Sound, PTL

\* A collection reports success only when every required input has had an acceptable
\* value since it began, or, without a person, a "" that passes its check, whatever
\* others store (collector.go:41-48, batch.go:36-39).
THEOREM SuccessIsReal == Spec => []SuccessMeansCollected
<1>1. IInv => SuccessMeansCollected
    BY DEF IInv, Filled, Met, SuccessMeansCollected
<1>. QED BY <1>1, Sound, PTL

\* A batch collection stores only what it has seen in the store, or a default
\* (batch.go:20-47).
THEOREM BatchInventsNothing == Spec => NothingInvented
<1>1. IInv /\ [Next]_vars =>
         [\A c \in Collectors \ Interactive : (Store(c) \/ StoreFails(c)) /\ store' # store =>
             \/ <<Cur(c).key, store'[Cur(c).key]>> \in seen[c]
             \/ Cur(c).optional /\ store'[Cur(c).key] = Cur(c).default]_vars
  <2> SUFFICES ASSUME IInv, NEW c \in Collectors \ Interactive, Store(c) \/ StoreFails(c),
                      store' # store
               PROVE  \/ <<Cur(c).key, store'[Cur(c).key]>> \in seen[c]
                      \/ (Cur(c).optional /\ store'[Cur(c).key] = Cur(c).default)
      OBVIOUS
  <2>1. col[c].pc = "set" /\ store' = [store EXCEPT ![Cur(c).key] = col[c].value]
      BY DEF Store, StoreFails
  <2>2. TypeOK /\ Traced(c) /\ Cur(c).key \in Keys
      BY FirstDeduped, SpecType DEF IInv, TypeInv, Cur
  <2>3. store'[Cur(c).key] = col[c].value
      BY <2>1, <2>2 DEF TypeOK
  <2>. QED BY <2>1, <2>2, <2>3 DEF Traced
<1>. QED BY <1>1, Sound, PTL DEF Spec, NothingInvented

\* An acceptable value is never overwritten by one that is not, but for a "" that a batch
\* collection has read, and the answer for an optional input without a default
\* (collector.go:64-90, batch.go:26-39).
THEOREM GoodIsKept == Spec => GoodStaysGood
<1>1. IInv /\ [Next]_vars =>
         [\A c \in Collectors : Store(c) \/ StoreFails(c) =>
             (Accepts(Cur(c), store[Cur(c).key]) =>
                 \/ Accepts(Cur(c), store'[Cur(c).key])
                 \/ store'[Cur(c).key] = Empty /\ EmptyPasses(c, col[c].idx)
                 \/ Cur(c).optional /\ Cur(c).default = Empty)]_vars
  <2> SUFFICES ASSUME IInv, NEW c \in Collectors, Store(c) \/ StoreFails(c),
                      Accepts(Cur(c), store[Cur(c).key])
               PROVE  \/ Accepts(Cur(c), store'[Cur(c).key])
                      \/ (store'[Cur(c).key] = Empty /\ EmptyPasses(c, col[c].idx))
                      \/ (Cur(c).optional /\ Cur(c).default = Empty)
      OBVIOUS
  <2>1. /\ col[c].pc = "set"
        /\ UNCHANGED store \/ store' = [store EXCEPT ![Cur(c).key] = col[c].value]
      BY DEF Store, StoreFails
  <2>2. TypeOK /\ Filled(c) /\ Cur(c).key \in Keys
      BY FirstDeduped, SpecType DEF IInv, TypeInv, Cur
  <2>3. CASE UNCHANGED store
      BY <2>3
  <2>4. CASE store' = [store EXCEPT ![Cur(c).key] = col[c].value]
    <3>1. store'[Cur(c).key] = col[c].value
        BY <2>2, <2>4 DEF TypeOK
    <3>. QED BY <2>1, <2>2, <3>1 DEF Filled
  <2>. QED BY <2>1, <2>3, <2>4
<1>. QED BY <1>1, Sound, PTL DEF Spec, GoodStaysGood

-------------------------------------------------------------------------------
(* The end of a collection *)

\* How much of its work a collection has ahead of it: four steps for each input, and
\* what is left of the one at hand.
ToDo(pc) == CASE pc = "load" -> 3
              [] pc = "ask"  -> 2
              [] pc = "read" -> 1
              [] OTHER       -> 0

Ahead(c) == 4 * (Len(Specs) - col[c].idx) + ToDo(col[c].pc)

Onward(c) == Running(c) => /\ Ahead(c) \in Nat
                           /\ \/ ~Running(c)'
                              \/ Ahead(c)' < Ahead(c)
                              \/ Ahead(c)' = Ahead(c) /\ ~Act(c)
                              \/ \E input \in Answers : Refuse(c, input)

\* No step of the program brings a collection back to an input it has settled or makes
\* it ask again: each settles something or ends it, signals and other collections take
\* nothing back, and only a refused answer is asked for once more
\* (collector.go:41-94; interactive.go and batch.go, Ask).
CollectionMovesOn == [][\A c \in Collectors : Onward(c)]_vars

LEMMA AheadIs ==
    ASSUME TypeInv, NEW c \in Collectors
    PROVE  Ahead(c) \in Nat
<1>1. col[c].idx \in 1..Len(Specs) /\ Len(Specs) \in Nat
    BY FirstDeduped, SpecType DEF TypeInv
<1>2. ToDo(col[c].pc) \in 0..3
    BY DEF ToDo
<1>. QED BY <1>1, <1>2 DEF Ahead

LEMMA SettledIsLater ==
    ASSUME TypeInv, NEW c \in Collectors, Settled(c).pc # "done"
    PROVE  Settled(c).idx > col[c].idx
<1>1. Later(c) # {}
    BY DEF Settled, TypeInv, TypeOK
<1>. DEFINE n == CHOOSE i \in Later(c) : \A j \in Later(c) : i <= j
<1>2. \E i \in Later(c) : \A j \in Later(c) : i <= j
  <2>1. Later(c) \in SUBSET Nat
      BY FirstDeduped, SpecType DEF Later, TypeInv
  <2>. QED BY <1>1, <2>1, LeastExists
<1>3. n \in Later(c)
    BY <1>2
<1>4. Settled(c) = [col[c] EXCEPT !.pc = "load", !.default = Empty, !.value = Empty,
                                  !.idx = n]
    BY <1>1 DEF Settled
<1>. HIDE DEF n
<1>. QED BY <1>3, <1>4 DEF Later, TypeInv, TypeOK

\* A step of c moves it on, or is a refused answer.
LEMMA ActMovesOn ==
    ASSUME TypeInv, TypeInv', NEW c \in Collectors, Act(c) \/ Respond(c)
    PROVE  \/ ~Running(c)'
           \/ Ahead(c)' < Ahead(c)
           \/ \E input \in Answers : Refuse(c, input)
<1>. DEFINE i == col[c].idx
            j == col'[c].idx
            n == Len(Specs)
<1>1. i \in Nat /\ j \in Nat /\ n \in Nat /\ j <= n /\ i <= n
    BY FirstDeduped, SpecType DEF TypeInv
<1>2. /\ Ahead(c) = 4 * (n - i) + ToDo(col[c].pc) /\ ToDo(col[c].pc) \in 0..3
      /\ Ahead(c)' = 4 * (n - j) + ToDo(col'[c].pc) /\ ToDo(col'[c].pc) \in 0..3
    BY DEF Ahead, ToDo
<1>. HIDE DEF n, i, j
<1>3. CASE Settles(c) \/ Store(c)
  <2>1. col'[c] = Settled(c)
      BY <1>3, Lands
  <2>2. CASE Settled(c).pc = "done"
      BY <2>1, <2>2 DEF Running
  <2>3. CASE Settled(c).pc # "done"
    <3>1. j > i
        BY <2>1, <2>3, SettledIsLater DEF i, j
    <3>. QED BY <1>1, <1>2, <3>1
  <2>. QED BY <2>2, <2>3
<1>4. CASE Ends(c)
    BY <1>4, Lands DEF Running
<1>5. ASSUME NEW v \in Answers, Asks(c, v) PROVE Ahead(c)' < Ahead(c)
  <2>1. col[c].pc = "load" /\ col'[c].pc = "ask" /\ j = i
      BY <1>5, Lands DEF Asks, i, j
  <2>2. ToDo(col[c].pc) = 3 /\ ToDo(col'[c].pc) = 2
      BY <2>1 DEF ToDo
  <2>. QED BY <1>1, <1>2, <2>1, <2>2
<1>6. ASSUME NEW v \in Answers, Holds(c, v) PROVE Ahead(c)' < Ahead(c)
  <2>1. col[c].pc \in {"ask", "read"} /\ col'[c].pc = "set" /\ j = i
      BY <1>6, Lands DEF Holds, i, j
  <2>2. ToDo(col[c].pc) \in 1..2 /\ ToDo(col'[c].pc) = 0
      BY <2>1 DEF ToDo
  <2>. QED BY <1>1, <1>2, <2>1, <2>2
<1>7. CASE Prompts(c)
  <2>1. /\ j = i /\ col[c].pc \in {"ask", "read"} /\ col'[c].pc \in {"ask", "read"}
        /\ col'[c].pc = "ask" => col[c].pc = "read"
        /\ col[c].pc = "ask" => col'[c].pc = "read"
      BY <1>7, Lands DEF Prompts, Moves, TypeInv, TypeOK, i, j
  <2>2. CASE col[c].pc = "ask"
    <3>1. ToDo(col[c].pc) = 2 /\ ToDo(col'[c].pc) = 1
        BY <2>1, <2>2 DEF ToDo
    <3>. QED BY <1>1, <1>2, <2>1, <3>1
  <2>3. CASE col[c].pc = "read"
    <3>1. col'[c].pc = "ask"
        BY <1>7, <2>3 DEF Prompts, Moves, TypeInv, TypeOK
    <3>2. \/ \E input \in Answers : Answer(c, input) \/ Refuse(c, input)
          \/ AskFails(c)
        BY <2>3 DEF Act, Respond, Load, LoadFails, AskStore, PrintPrompt, Store, StoreFails
    <3>3. ~AskFails(c)
        BY <3>1, Lands DEF AskFails, Moves, Failed, TypeInv, TypeOK
    <3>4. \A input \in Answers : ~Answer(c, input)
      <4> SUFFICES ASSUME NEW input \in Answers, Answer(c, input) PROVE FALSE
          OBVIOUS
      <4>1. \/ col' = [col EXCEPT ![c] = Settled(c)]
            \/ col' = [col EXCEPT ![c] = [col[c] EXCEPT !.pc = "set",
                                                        !.value = Typed(c, input)]]
          BY DEF Answer, Answered, Moves
      <4>2. Settled(c).pc # "ask"
          BY <2>3, SettledIs DEF Running
      <4>. QED BY <3>1, <4>1, <4>2 DEF TypeInv, TypeOK
    <3>. QED BY <3>2, <3>3, <3>4
  <2>. QED BY <2>1, <2>2, <2>3
<1>. QED BY <1>3, <1>4, <1>5, <1>6, <1>7, AnswerKinds

\* The part of BatchEnds and InteractiveEnds that does not depend on fairness, for any
\* number of inputs: a collection ends unless a call never returns or the person's
\* answers are refused for ever.
THEOREM QuestionsRunOut == Spec => CollectionMovesOn
<1>1. IInv /\ IInv' /\ [Next]_vars => [\A c \in Collectors : Onward(c)]_vars
  <2> SUFFICES ASSUME IInv, IInv', Next, NEW c \in Collectors, Running(c)
               PROVE  Onward(c)
      BY DEF Onward
  <2>. TypeInv /\ TypeInv'
      BY DEF IInv
  <2>. Ahead(c) \in Nat
      BY AheadIs
  <2>1. CASE Act(c)
      BY <2>1, ActMovesOn DEF Onward
  <2>2. CASE Respond(c)
      BY <2>2, ActMovesOn DEF Onward
  <2>3. CASE ~Act(c) /\ ~Respond(c)
    <3>1. col'[c].pc = col[c].pc /\ col'[c].idx = col[c].idx
      <4>1. Elsewhere \/ \E d \in Collectors : Acts(d)
          BY NextIs
      <4>2. CASE Elsewhere
          BY <4>2 DEF Elsewhere, StoreElsewhere
      <4>3. ASSUME NEW d \in Collectors, Acts(d), d # c PROVE col'[c] = col[c]
          BY <4>3, ActsType
      <4>4. CASE Acts(c)
        <5>1. Signal(c)
            BY <2>3, <4>4 DEF Acts, Start
        <5>. QED BY <5>1, Lands
      <4>. QED BY <4>1, <4>2, <4>3, <4>4
    <3>2. Ahead(c)' = Ahead(c)
        BY <3>1 DEF Ahead, ToDo
    <3>. QED BY <2>3, <3>2 DEF Onward
  <2>. QED BY <2>1, <2>2, <2>3
<1>. QED BY <1>1, Sound, PTL DEF Spec, CollectionMovesOn
================================================================================
