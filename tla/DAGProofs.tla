------------------------------- MODULE DAGProofs -------------------------------
(***************************************************************************)
(* The sort is right on every registry: proofs about DAG for any number of *)
(* steps and any dependency lists.  They discharge what Engine assumes of  *)
(* its order.                                                              *)
(***************************************************************************)
EXTENDS DAG, FiniteSetTheorems, WellFoundedInduction, TLAPS

\* The dependencies of s that are not among S, by their place in its list.
Undone(s, S) == {i \in 1..Len(deps[s]) : deps[s][i] \notin S}

\* The steps sorted before the i-th, and those that could then be sorted.
Before(i) == {sorted[j] : j \in 1..(i - 1)}

Free(S) == {s \in Steps \ S : Elements(deps[s]) \subseteq S}

\* The loop of TopoSort (see KahnInv), and its choice among the steps that are free.
Degrees == /\ DOMAIN inDegree = Steps
           /\ \A s \in Steps : inDegree[s] = Cardinality(Undone(s, Elements(sorted)))

Queued == queue = {s \in Steps \ Elements(sorted) : inDegree[s] = 0}

Ordered == /\ Elements(sorted) \subseteq Steps
           /\ \A i, j \in 1..Len(sorted) : sorted[i] = sorted[j] => i = j
           /\ \A i \in 1..Len(sorted) : Elements(deps[sorted[i]]) \subseteq Before(i)

Greedy == \A i \in 1..Len(sorted) : \A s \in Free(Before(i)) : sorted[i] <= s

Kahn == Degrees /\ Queued /\ Ordered /\ Greedy

\* The graph has the dependencies that were registered.
Built == /\ Steps \subseteq DOMAIN registry
         /\ \A s \in Steps : deps[s] = registry[s]

IInv == /\ TypeOK
        /\ Built
        /\ phase \notin {"register", "duplicate", "add"} => Steps = DOMAIN registry
        /\ phase \in {"sort", "ready", "cycle"} => Unknown = {} /\ Kahn
        /\ phase \in {"ready", "cycle"} => queue = {}
        /\ phase = "ready" => Len(sorted) = Cardinality(Steps)
        /\ phase = "cycle" => Len(sorted) # Cardinality(Steps)

-------------------------------------------------------------------------------
(* Counting *)

LEMMA LeastIs ==
    ASSUME NEW T \in SUBSET Nat, T # {}
    PROVE  Least(T) \in T /\ \A t \in T : Least(T) <= t
<1>. DEFINE R == OpToRel(<, Nat)
<1>1. R = {q \in Nat \X Nat : q[1] < q[2]}
    BY DEF OpToRel
<1>2. IsWellFoundedOn(R, Nat)
    BY NatLessThanWellFounded
<1>. HIDE DEF R
<1>3. PICK x \in T : \A y \in T : ~ (<<y, x>> \in R)
    BY <1>2, WFMin
<1>4. \A y \in T : ~ (y < x)
    BY <1>1, <1>3
<1>5. \A y \in T : x <= y
    BY <1>4
<1>. QED BY <1>5 DEF Least

LEMMA StepsAre ==
    ASSUME TypeOK
    PROVE  /\ Steps \subseteq Ids /\ Steps \subseteq Nat /\ IsFiniteSet(Steps)
           /\ \A s \in Steps : /\ deps[s] \in Seq(Ids)
                               /\ Len(deps[s]) \in Nat
                               /\ Elements(deps[s]) \subseteq Ids
<1>1. Steps \subseteq Ids /\ \A s \in Steps : deps[s] \in Seq(Ids)
    BY IdsAssumption DEF TypeOK, Maps, Steps
<1>2. IsFiniteSet(Steps) /\ Steps \subseteq Nat
    BY <1>1, IdsAssumption, FS_Subset
<1>3. \A q \in Seq(Ids) : Len(q) \in Nat /\ Elements(q) \subseteq Ids
    BY DEF Elements
<1>. QED BY <1>1, <1>2, <1>3

LEMMA UndoneIs ==
    ASSUME TypeOK, NEW s \in Steps, NEW S
    PROVE  /\ IsFiniteSet(Undone(s, S))
           /\ Cardinality(Undone(s, S)) \in Nat
           /\ Cardinality(Undone(s, S)) = 0 <=> Elements(deps[s]) \subseteq S
<1>1. Len(deps[s]) \in Nat
    BY StepsAre
<1>2. IsFiniteSet(1..Len(deps[s]))
    BY <1>1, FS_Interval
<1>3. IsFiniteSet(Undone(s, S))
    BY <1>2, FS_Subset DEF Undone
<1>4. Cardinality(Undone(s, S)) = 0 <=> Undone(s, S) = {}
    BY <1>3, FS_EmptySet
<1>5. Undone(s, S) = {} <=> Elements(deps[s]) \subseteq S
    BY DEF Undone, Elements
<1>. QED BY <1>3, <1>4, <1>5, FS_CardinalityType

\* Sorting d settles as many dependencies of s as there are mentions of d.
LEMMA MentionsAre ==
    ASSUME TypeOK, NEW s \in Steps, NEW S, NEW d, d \notin S
    PROVE  /\ Mentions(s, d) \in Nat
           /\ Cardinality(Undone(s, S \cup {d})) =
                  Cardinality(Undone(s, S)) - Mentions(s, d)
<1>. DEFINE A == Undone(s, S \cup {d})
            B == {i \in 1..Len(deps[s]) : deps[s][i] = d}
<1>1. IsFiniteSet(A) /\ Cardinality(A) \in Nat
    BY UndoneIs
<1>2. IsFiniteSet(B) /\ Cardinality(B) \in Nat
  <2>1. Len(deps[s]) \in Nat
      BY StepsAre
  <2>2. IsFiniteSet(1..Len(deps[s]))
      BY <2>1, FS_Interval
  <2>3. IsFiniteSet(B)
      BY <2>2, FS_Subset
  <2>. QED BY <2>3, FS_CardinalityType
<1>3. A \cup B = Undone(s, S) /\ A \cap B = {}
    BY DEF Undone
<1>4. Mentions(s, d) = Cardinality(B)
    BY DEF Mentions
<1>. HIDE DEF A, B
<1>5. Cardinality(A \cup B) = Cardinality(A) + Cardinality(B) - Cardinality(A \cap B)
    BY <1>1, <1>2, FS_Union
<1>6. Cardinality(A \cap B) = 0
    BY <1>3, FS_EmptySet
<1>7. Cardinality(Undone(s, S)) = Cardinality(A) + Cardinality(B)
  <2>1. Cardinality(Undone(s, S)) = Cardinality(A) + Cardinality(B) - Cardinality(A \cap B)
      BY <1>3, <1>5
  <2>. QED BY ONLY <1>1, <1>2, <1>6, <2>1
<1>8. A = Undone(s, S \cup {d})
    BY DEF A
<1>. QED BY <1>1, <1>2, <1>4, <1>7, <1>8

LEMMA UpToIs ==
    ASSUME NEW n \in Nat
    PROVE  IsFiniteSet(1..n) /\ Cardinality(1..n) = n
<1>1. IsFiniteSet(1..n) /\ Cardinality(1..n) = IF 1 > n THEN 0 ELSE n - 1 + 1
    BY FS_Interval
<1>. QED BY <1>1

\* A sequence without repetitions is as long as the set of its elements is large.
LEMMA LenIsCardinality ==
    ASSUME NEW q \in Seq(Ids), \A i, j \in 1..Len(q) : q[i] = q[j] => i = j
    PROVE  IsFiniteSet(Elements(q)) /\ Cardinality(Elements(q)) = Len(q)
<1>. DEFINE f == [i \in 1..Len(q) |-> q[i]]
<1>1. f \in Bijection(1..Len(q), Elements(q))
    BY DEF Elements, Bijection, Injection, Surjection, IsInjective
<1>2. ExistsBijection(1..Len(q), Elements(q))
    BY <1>1 DEF ExistsBijection
<1>3. Len(q) \in Nat
    OBVIOUS
<1>4. IsFiniteSet(1..Len(q)) /\ Cardinality(1..Len(q)) = Len(q)
    BY ONLY <1>3, UpToIs
<1>. QED BY <1>2, <1>4, FS_Bijection

-------------------------------------------------------------------------------
(* The loop *)

LEMMA QueueIsFree ==
    ASSUME TypeOK, Degrees, Queued
    PROVE  queue = Free(Elements(sorted))
BY UndoneIs DEF Degrees, Queued, Free

LEMMA AppendIs ==
    ASSUME TypeOK, NEW id \in Ids, sorted' = Append(sorted, id),
           NEW n, n = Len(sorted) + 1
    PROVE  /\ sorted' \in Seq(Ids)
           /\ n \in Nat \ {0} /\ Len(sorted) = n - 1 /\ Len(sorted') = n
           /\ sorted'[n] = id
           /\ \A i \in 1..(n - 1) : sorted'[i] = sorted[i]
           /\ \A i \in 1..n : Before(i)' = Before(i)
           /\ Elements(sorted)' = Elements(sorted) \cup {id}
           /\ Before(n) = Elements(sorted)
<1>1. sorted \in Seq(Ids) /\ Len(sorted) \in Nat
    BY DEF TypeOK
<1>2. /\ sorted' \in Seq(Ids)
      /\ n \in Nat \ {0} /\ Len(sorted) = n - 1 /\ Len(sorted') = n
      /\ sorted'[n] = id
      /\ \A i \in 1..(n - 1) : sorted'[i] = sorted[i]
    BY <1>1
<1>3. Elements(sorted)' = Elements(sorted) \cup {id}
  <2>1. 1..n = 1..(n - 1) \cup {n}
      BY <1>2
  <2>. QED BY <1>2, <2>1 DEF Elements
<1>4. \A i \in 1..n : Before(i)' = Before(i)
  <2> SUFFICES ASSUME NEW i \in 1..n PROVE Before(i)' = Before(i)
      OBVIOUS
  <2>1. \A k \in 1..(i - 1) : k \in 1..(n - 1)
      BY <1>2
  <2>. QED BY <1>2, <2>1 DEF Before
<1>5. Before(n) = Elements(sorted)
    BY <1>2 DEF Before, Elements
<1>. QED BY <1>2, <1>3, <1>4, <1>5

LEMMA EmitKahn ==
    ASSUME TypeOK, Kahn, NEW id \in Ids, Emit(id)
    PROVE  Kahn' /\ TypeOK'
<1>. Degrees /\ Queued /\ Ordered /\ Greedy
    BY DEF Kahn
<1>1. id \in queue /\ \A t \in queue : id <= t
  <2>1. queue # {} /\ queue \subseteq Nat /\ id = Least(queue)
      BY StepsAre DEF Emit, Emittable, Queued
  <2>. QED BY <2>1, LeastIs
<1>2. id \in Steps /\ id \notin Elements(sorted) /\ inDegree[id] = 0
    BY <1>1 DEF Queued
<1>3. queue = Free(Elements(sorted))
    BY QueueIsFree
<1>4. /\ sorted' = Append(sorted, id) /\ inDegree' = DegreeAfter(id)
      /\ queue' = QueueAfter(id) /\ UNCHANGED <<phase, registry, deps>>
    BY DEF Emit
<1>5. Steps' = Steps /\ \A s, S : Undone(s, S)' = Undone(s, S') /\ Free(S)' = Free(S')
    BY <1>4 DEF Steps, Undone, Free, Elements
<1>. DEFINE done == Elements(sorted)
<1>a. PICK n : n = Len(sorted) + 1
    OBVIOUS
<1>6. /\ sorted' \in Seq(Ids) /\ n \in Nat \ {0}
      /\ Len(sorted) = n - 1 /\ Len(sorted') = n /\ sorted'[n] = id
      /\ \A i \in 1..(n - 1) : sorted'[i] = sorted[i]
      /\ \A i \in 1..n : Before(i)' = Before(i)
      /\ Elements(sorted)' = done \cup {id}
      /\ Before(n) = done
    BY <1>4, <1>a, AppendIs
<1>7. \A s \in Steps : /\ Mentions(s, id) \in Nat
                       /\ inDegree[s] \in Nat
                       /\ inDegree[s] - Mentions(s, id) = Cardinality(Undone(s, done \cup {id}))
                       /\ inDegree[s] - Mentions(s, id) \in Nat
    BY <1>2, MentionsAre, UndoneIs DEF Degrees
<1>8. /\ DOMAIN inDegree' = Steps
      /\ \A s \in Steps : inDegree'[s] = inDegree[s] - Mentions(s, id)
    BY <1>4 DEF DegreeAfter
<1>9. Degrees'
  <2>1. \A s \in Steps : Undone(s, Elements(sorted))' = Undone(s, done \cup {id})
      BY <1>4, <1>6 DEF Undone
  <2>. QED BY <1>5, <1>7, <1>8, <2>1 DEF Degrees
<1>10. Queued'
  <2>1. \A s \in done : s \in Steps /\ inDegree[s] = 0
    <3> SUFFICES ASSUME NEW i \in 1..Len(sorted) PROVE sorted[i] \in Steps /\ inDegree[sorted[i]] = 0
        BY DEF Elements
    <3>1. sorted[i] \in Steps /\ Before(i) \subseteq done
        BY DEF Ordered, Elements, Before, TypeOK
    <3>. QED BY <3>1, UndoneIs DEF Ordered, Degrees
  <2>2. \A s \in Steps : s \in QueueAfter(id) <=>
             s \notin done \cup {id} /\ inDegree[s] - Mentions(s, id) = 0
    <3> SUFFICES ASSUME NEW s \in Steps
                 PROVE  s \in QueueAfter(id) <=>
                          s \notin done \cup {id} /\ inDegree[s] - Mentions(s, id) = 0
        OBVIOUS
    <3>1. s \in QueueAfter(id) <=>
             \/ s \in queue /\ s # id
             \/ inDegree[s] \in 1..Mentions(s, id)
        BY DEF QueueAfter, Released
    <3>2. s \in queue <=> s \notin done /\ inDegree[s] = 0
        BY DEF Queued
    <3>. QED BY <1>2, <1>7, <2>1, <3>1, <3>2
  <2>3. QueueAfter(id) \subseteq Steps
      BY DEF QueueAfter, Released, Queued
  <2>. QED BY <1>4, <1>5, <1>6, <1>8, <2>2, <2>3 DEF Queued
<1>11. Ordered'
  <2>1. Elements(sorted)' \subseteq Steps
      BY <1>2, <1>6 DEF Ordered
  <2>2. \A i \in 1..(n - 1) : sorted[i] \in done
      BY <1>6 DEF Elements
  <2>3. \A i, j \in 1..n : sorted'[i] = sorted'[j] => i = j
      BY <1>2, <1>6, <2>2 DEF Ordered
  <2>4. \A i \in 1..(n - 1) : Elements(deps[sorted'[i]]) \subseteq Before(i)
      BY <1>6 DEF Ordered
  <2>5. Elements(deps[sorted'[n]]) \subseteq Before(n)
      BY <1>1, <1>3, <1>6 DEF Free
  <2>6. \A i \in 1..n : Elements(deps[sorted'[i]]) \subseteq Before(i)
      BY <1>6, <2>4, <2>5
  <2>7. \A i \in 1..n : Elements(deps[sorted'[i]]) \subseteq Before(i)'
      BY <1>6, <2>6
  <2>. QED BY <1>4, <1>5, <1>6, <2>1, <2>3, <2>7 DEF Ordered, Elements
<1>12. Greedy'
  <2>1. \A i \in 1..(n - 1) : \A s \in Free(Before(i)) : sorted'[i] <= s
      BY <1>6 DEF Greedy
  <2>2. \A s \in Free(Before(n)) : sorted'[n] <= s
      BY <1>1, <1>3, <1>6
  <2>3. \A i \in 1..n : Free(Before(i))' = Free(Before(i))
    <3> SUFFICES ASSUME NEW i \in 1..n PROVE Free(Before(i))' = Free(Before(i))
        OBVIOUS
    <3>1. Before(i)' = Before(i)
        BY <1>6
    <3>. QED BY <1>4, <3>1 DEF Free, Steps
  <2>4. \A i \in 1..n : \A s \in Free(Before(i))' : sorted'[i] <= s
      BY <1>6, <2>1, <2>2, <2>3
  <2>. QED BY <1>6, <2>4 DEF Greedy
<1>13. TypeOK'
  <2>1. Maps(inDegree', Nat)
      BY <1>7, <1>8, StepsAre DEF Maps
  <2>2. queue' \subseteq Ids
      BY <1>4, StepsAre DEF QueueAfter, Released, Queued
  <2>. QED BY <1>4, <1>6, <2>1, <2>2 DEF TypeOK, Maps
<1>. QED BY <1>9, <1>10, <1>11, <1>12, <1>13 DEF Kahn

LEMMA StartKahn ==
    ASSUME TypeOK, StartSort
    PROVE  Kahn' /\ TypeOK'
<1>1. /\ inDegree' = [s \in Steps |-> Len(deps[s])]
      /\ queue' = {s \in Steps : deps[s] = <<>>}
      /\ sorted' = <<>> /\ phase' = "sort" /\ UNCHANGED <<registry, deps>>
    BY DEF StartSort
<1>2. Steps' = Steps /\ Elements(sorted)' = {} /\ Len(sorted') = 0
    BY <1>1 DEF Steps, Elements
<1>3. \A s \in Steps : /\ Len(deps[s]) \in Nat /\ deps[s] \in Seq(Ids)
                       /\ Cardinality(Undone(s, {})) = Len(deps[s])
                       /\ Len(deps[s]) = 0 <=> deps[s] = <<>>
  <2> SUFFICES ASSUME NEW s \in Steps
               PROVE  /\ Len(deps[s]) \in Nat /\ deps[s] \in Seq(Ids)
                      /\ Cardinality(Undone(s, {})) = Len(deps[s])
                      /\ Len(deps[s]) = 0 <=> deps[s] = <<>>
      OBVIOUS
  <2>1. deps[s] \in Seq(Ids) /\ Len(deps[s]) \in Nat
      BY StepsAre
  <2>2. Undone(s, {}) = 1..Len(deps[s])
      BY DEF Undone
  <2>3. Cardinality(1..Len(deps[s])) = Len(deps[s])
      BY <2>1, UpToIs
  <2>4. Len(deps[s]) = 0 <=> deps[s] = <<>>
      BY <2>1
  <2>. QED BY <2>1, <2>2, <2>3, <2>4
<1>4. \A s : Undone(s, Elements(sorted))' = Undone(s, {})
    BY <1>1, <1>2 DEF Undone
<1>5. Degrees'
    BY <1>1, <1>2, <1>3, <1>4 DEF Degrees
<1>6. Queued'
    BY <1>1, <1>2, <1>3 DEF Queued
<1>7. Ordered' /\ Greedy'
    BY <1>2 DEF Ordered, Greedy
<1>8. TypeOK'
  <2>1. Maps(inDegree', Nat)
      BY <1>1, <1>3, StepsAre DEF Maps
  <2>. QED BY <1>1, <2>1, StepsAre DEF TypeOK, Maps, Working
<1>. QED BY <1>5, <1>6, <1>7, <1>8 DEF Kahn

\* The invariant of the loop does not depend on the phase.
LEMMA KahnStays ==
    ASSUME UNCHANGED <<deps, inDegree, queue, sorted>>, Kahn
    PROVE  Kahn'
<1>1. \A s, S : Undone(s, S)' = Undone(s, S') /\ Free(S)' = Free(S')
    BY DEF Undone, Free, Steps, Elements
<1>2. Steps' = Steps /\ Elements(sorted)' = Elements(sorted)
    BY DEF Steps, Elements
<1>3. \A i : Before(i)' = Before(i)
    BY DEF Before
<1>4. \A i : Free(Before(i))' = Free(Before(i))
    BY DEF Free, Before, Steps, Elements
<1>5. Degrees'
    BY <1>2 DEF Kahn, Degrees, Undone, Steps
<1>6. Queued' /\ Greedy'
    BY <1>2, <1>4 DEF Kahn, Queued, Greedy
<1>7. Ordered'
    BY <1>2, <1>3 DEF Kahn, Ordered, Elements
<1>. QED BY <1>5, <1>6, <1>7 DEF Kahn

-------------------------------------------------------------------------------
(* Registration and building *)

LEMMA InitInv == Init => IInv
BY DEF Init, IInv, TypeOK, Maps, Empty, Built, Steps, Working

LEMMA NextInv == IInv /\ [Next]_vars => IInv'
<1> SUFFICES ASSUME IInv, [Next]_vars PROVE IInv'
    OBVIOUS
<1>. TypeOK /\ Built
    BY DEF IInv
<1>1. ASSUME NEW s \in Ids, NEW list \in DepLists, Register(s, list) PROVE IInv'
  <2>1. /\ phase = "register" /\ s \notin DOMAIN registry
        /\ registry' = Insert(registry, s, list)
        /\ UNCHANGED <<phase, deps, inDegree, queue, sorted>>
      BY <1>1 DEF Register
  <2>2. /\ Maps(registry', DepLists) /\ DOMAIN registry' = DOMAIN registry \cup {s}
        /\ \A t \in DOMAIN registry : registry'[t] = registry[t]
    <3>1. Maps(registry, DepLists)
        BY DEF TypeOK
    <3>2. /\ Maps(Insert(registry, s, list), DepLists)
          /\ DOMAIN Insert(registry, s, list) = DOMAIN registry \cup {s}
          /\ \A t \in DOMAIN registry : t # s => Insert(registry, s, list)[t] = registry[t]
        BY <3>1 DEF Maps, Insert
    <3>. QED BY <2>1, <3>2
  <2>3. TypeOK'
      BY <2>1, <2>2 DEF TypeOK, Maps
  <2>4. Built'
      BY <2>1, <2>2 DEF Built, Steps
  <2>. QED BY <2>1, <2>3, <2>4 DEF IInv
<1>2. ASSUME NEW s \in Ids, RegisterTwice(s) PROVE IInv'
    BY <1>2 DEF RegisterTwice, IInv, TypeOK, Maps, Built, Steps, Rejected
<1>3. CASE BuildDAG
    BY <1>3 DEF BuildDAG, IInv, TypeOK, Maps, Built, Steps, Working
<1>4. ASSUME NEW s \in Ids, Add(s) PROVE IInv'
  <2>1. /\ phase = "add" /\ s \in DOMAIN registry /\ s \notin Steps
        /\ deps' = Insert(deps, s, registry[s])
        /\ UNCHANGED <<phase, registry, inDegree, queue, sorted>>
      BY <1>4 DEF Add
  <2>2. registry[s] \in DepLists
      BY <2>1 DEF TypeOK, Maps
  <2>3. /\ Maps(deps', DepLists) /\ Steps' = Steps \cup {s}
        /\ \A t \in Steps : deps'[t] = deps[t]
        /\ deps'[s] = registry[s]
    <3>1. Maps(deps, DepLists)
        BY DEF TypeOK
    <3>2. PICK list \in DepLists : list = registry[s]
        BY <2>2
    <3>3. /\ Maps(Insert(deps, s, list), DepLists)
          /\ DOMAIN Insert(deps, s, list) = DOMAIN deps \cup {s}
          /\ \A t \in DOMAIN deps : t # s => Insert(deps, s, list)[t] = deps[t]
          /\ Insert(deps, s, list)[s] = list
        BY <3>1 DEF Maps, Insert
    <3>. QED BY <2>1, <3>2, <3>3 DEF Steps
  <2>4. TypeOK'
      BY <2>1, <2>3 DEF TypeOK, Maps
  <2>5. Built'
      BY <2>1, <2>3 DEF Built
  <2>. QED BY <2>1, <2>4, <2>5 DEF IInv
<1>5. CASE AllAdded
    BY <1>5 DEF AllAdded, IInv, TypeOK, Maps, Built, Steps, Working
<1>6. CASE UnknownDependency
    BY <1>6 DEF UnknownDependency, IInv, TypeOK, Maps, Built, Steps, Rejected
<1>7. CASE StartSort
  <2>1. /\ phase \in {"validate", "ready"} /\ phase' = "sort"
        /\ Unknown = {} /\ Steps = DOMAIN registry
        /\ UNCHANGED <<registry, deps>>
      BY <1>7 DEF StartSort, IInv
  <2>2. Unknown' = Unknown /\ Steps' = Steps
      BY <2>1 DEF Unknown, Steps, Elements
  <2>3. Kahn' /\ TypeOK'
      BY <1>7, StartKahn
  <2>4. Built'
      BY <2>1, <2>2 DEF Built
  <2>. QED BY <2>1, <2>2, <2>3, <2>4 DEF IInv
<1>8. ASSUME NEW id \in Ids, Emit(id) PROVE IInv'
  <2>1. phase = "sort" /\ UNCHANGED <<phase, registry, deps>>
      BY <1>8 DEF Emit
  <2>2. Unknown' = Unknown /\ Steps' = Steps
      BY <2>1 DEF Unknown, Steps, Elements
  <2>3. Kahn' /\ TypeOK'
      BY <1>8, <2>1, EmitKahn DEF IInv
  <2>4. Built'
      BY <2>1, <2>2 DEF Built
  <2>. QED BY <2>1, <2>2, <2>3, <2>4 DEF IInv
<1>9. CASE Finish
  <2>1. /\ phase = "sort" /\ queue = {} /\ UNCHANGED <<registry, deps, inDegree, queue, sorted>>
        /\ \/ phase' = "ready" /\ Len(sorted) = Cardinality(Steps)
           \/ phase' = "cycle" /\ Len(sorted) # Cardinality(Steps)
      BY <1>9 DEF Finish
  <2>2. Unknown' = Unknown /\ Steps' = Steps
      BY <2>1 DEF Unknown, Steps, Elements
  <2>3. Kahn'
      BY <2>1, KahnStays DEF IInv
  <2>4. TypeOK' /\ Built'
      BY <2>1 DEF TypeOK, Maps, Built, Steps, Rejected
  <2>. QED BY <2>1, <2>2, <2>3, <2>4 DEF IInv
<1>10. CASE UNCHANGED vars
  <2>1. UNCHANGED <<phase, registry, deps, inDegree, queue, sorted>>
      BY <1>10 DEF vars
  <2>2. Unknown' = Unknown /\ Steps' = Steps
      BY <2>1 DEF Unknown, Steps, Elements
  <2>3. Kahn => Kahn'
      BY <2>1, KahnStays
  <2>4. TypeOK' /\ Built'
      BY <2>1 DEF TypeOK, Maps, Built, Steps
  <2>. QED BY <2>1, <2>2, <2>3, <2>4 DEF IInv
<1>. QED BY <1>1, <1>2, <1>3, <1>4, <1>5, <1>6, <1>7, <1>8, <1>9, <1>10 DEF Next, Build

-------------------------------------------------------------------------------
(* Theorems *)

\* The loop of TopoSort is right at every step, on every registry (dag.go:48-80).
THEOREM Sound == Spec => []IInv
BY InitInv, NextInv, PTL DEF Spec

\* Every variable is of its type; a degree is never negative.
THEOREM TypeCorrect == Spec => []TypeOK
<1>1. IInv => TypeOK
    BY DEF IInv
<1>. QED BY <1>1, Sound, PTL

\* Degrees, queue and result agree at every iteration (dag.go:59-73).
THEOREM LoopIsRight == Spec => []KahnInv
<1>1. IInv => KahnInv
  <2> SUFFICES ASSUME IInv, phase = "sort" PROVE KahnInv
      BY DEF KahnInv
  <2>1. Degrees /\ Queued /\ Ordered
      BY DEF IInv, Kahn
  <2>. QED BY <2>1 DEF KahnInv, Degrees, Queued, Ordered, Undone, Before
<1>. QED BY <1>1, Sound, PTL

\* An accepted graph is returned as a topological order of exactly the registered steps.
THEOREM OrderIsTopological == Spec => []ReadyIsTopological
<1>1. IInv => ReadyIsTopological
  <2> SUFFICES ASSUME IInv, phase = "ready" PROVE ReadyIsTopological
      BY DEF ReadyIsTopological
  <2>1. /\ TypeOK /\ Built /\ Ordered /\ Steps = DOMAIN registry
        /\ Len(sorted) = Cardinality(Steps)
      BY DEF IInv, Kahn
  <2>2. Cardinality(Elements(sorted)) = Len(sorted)
      BY <2>1, LenIsCardinality DEF Ordered, TypeOK
  <2>3. Elements(sorted) = Steps
      BY <2>1, <2>2, StepsAre, FS_Subset DEF Ordered
  <2>4. \A i \in 1..Len(sorted) : /\ sorted[i] \in Steps
                                  /\ Elements(registry[sorted[i]]) \subseteq Before(i)
    <3>1. \A i \in 1..Len(sorted) : sorted[i] \in Steps
        BY <2>1 DEF Ordered, Elements
    <3>. QED BY <2>1, <3>1 DEF Ordered, Built
  <2>. QED BY <2>1, <2>3, <2>4 DEF ReadyIsTopological, Before
<1>. QED BY <1>1, Sound, PTL

\* A graph is rejected for a cycle only when some steps wait for each other.
THEOREM RejectedForACycle == Spec => []CycleIsReal
<1>1. IInv => CycleIsReal
  <2> SUFFICES ASSUME IInv, phase = "cycle" PROVE CycleIsReal
      BY DEF CycleIsReal
  <2>. DEFINE C == Steps \ Elements(sorted)
  <2>1. /\ TypeOK /\ Degrees /\ Queued /\ Ordered /\ Unknown = {} /\ queue = {}
        /\ Len(sorted) # Cardinality(Steps)
      BY DEF IInv, Kahn
  <2>2. C # {}
    <3>1. Cardinality(Elements(sorted)) = Len(sorted)
        BY <2>1, LenIsCardinality DEF Ordered, TypeOK
    <3>2. Elements(sorted) # Steps
        BY <2>1, <3>1
    <3>. QED BY <2>1, <3>2 DEF Ordered
  <2>3. \A s \in C : \E d \in C : d \in Elements(deps[s])
    <3> SUFFICES ASSUME NEW s \in C PROVE \E d \in C : d \in Elements(deps[s])
        OBVIOUS
    <3>1. ~ (Elements(deps[s]) \subseteq Elements(sorted))
        BY <2>1, UndoneIs DEF Degrees, Queued
    <3>2. Elements(deps[s]) \subseteq Steps
        BY <2>1, StepsAre DEF Unknown
    <3>. QED BY <3>1, <3>2
  <2>. QED BY <2>2, <2>3 DEF CycleIsReal
<1>. QED BY <1>1, Sound, PTL

\* Every call of TopoSort on one graph returns the same order, that of the least step
\* that is free.
THEOREM OrderIsLeast == Spec => []LeastOrder
<1>1. IInv => LeastOrder
  <2> SUFFICES ASSUME IInv, phase = "ready" PROVE LeastOrder
      BY DEF LeastOrder
  <2>1. Greedy
      BY DEF IInv, Kahn
  <2>. QED BY <2>1 DEF LeastOrder, Greedy, Free, Before
<1>. QED BY <1>1, Sound, PTL

-------------------------------------------------------------------------------
(* One order for each registry *)

\* q is the order of the graph f in which each step is the least that is free.
Preceding(q, i) == {q[j] : j \in 1..(i - 1)}

LeastTopological(f, q) ==
    /\ q \in Seq(Ids) /\ Elements(q) = DOMAIN f
    /\ \A i, j \in 1..Len(q) : q[i] = q[j] => i = j
    /\ \A i \in 1..Len(q) : Elements(f[q[i]]) \subseteq Preceding(q, i)
    /\ \A i \in 1..Len(q) : \A s \in DOMAIN f \ Preceding(q, i) :
          Elements(f[s]) \subseteq Preceding(q, i) => q[i] <= s

\* What TopoSort returns is a function of the registry, whatever the order of the
\* registrations and of the maps it iterates over: input collection, the engine and
\* every later command on the same pipeline work in one order (dag.go:46-80;
\* dag_test.go:151, IsDeterministic).
SortIsDeterministic ==
    phase = "ready" => \A q \in Seq(Ids) : LeastTopological(registry, q) <=> q = sorted

LEMMA LeastIsUnique ==
    ASSUME NEW f, NEW p, NEW q, LeastTopological(f, p), LeastTopological(f, q)
    PROVE  p = q
<1>1. /\ p \in Seq(Ids) /\ q \in Seq(Ids) /\ Len(p) \in Nat /\ Len(q) \in Nat
      /\ \A i \in 1..Len(p) : p[i] \in Nat
      /\ \A i \in 1..Len(q) : q[i] \in Nat
  <2>1. p \in Seq(Ids) /\ q \in Seq(Ids) BY DEF LeastTopological
  <2>2. /\ \A i \in 1..Len(p) : p[i] \in Ids
        /\ \A i \in 1..Len(q) : q[i] \in Ids
      BY <2>1
  <2>3. Len(p) \in Nat /\ Len(q) \in Nat BY <2>1
  <2>. QED BY <2>1, <2>2, <2>3, IdsAssumption
<1>2. Len(p) = Len(q)
  <2>1. Cardinality(Elements(p)) = Len(p) /\ Cardinality(Elements(q)) = Len(q)
      BY LenIsCardinality DEF LeastTopological
  <2>. QED BY <2>1 DEF LeastTopological
<1>. DEFINE D == {i \in 1..Len(p) : p[i] # q[i]}
<1>3. D = {}
  <2>1. SUFFICES ASSUME D # {} PROVE FALSE
      OBVIOUS
  <2>. DEFINE i == Least(D)
  <2>2. D \subseteq Nat BY <1>1
  <2>3. i \in D /\ \A t \in D : i <= t BY <2>1, <2>2, LeastIs
  <2>. HIDE DEF i
  <2>4. i \in 1..Len(p) /\ i \in 1..Len(q) /\ p[i] # q[i] BY <1>2, <2>3
  <2>5. \A j \in 1..(i - 1) : p[j] = q[j]
    <3>1. TAKE j \in 1..(i - 1)
    <3>2. j \in 1..Len(p) /\ ~(i <= j) BY <1>1, <2>4
    <3>. QED BY <2>3, <3>2
  <2>6. Preceding(p, i) = Preceding(q, i) BY <2>5 DEF Preceding
  <2>7. q[i] <= p[i]
    <3>1. p[i] \in DOMAIN f BY <2>4 DEF LeastTopological, Elements
    <3>2. p[i] \notin Preceding(p, i)
      <4>1. \A j \in 1..(i - 1) : j \in 1..Len(p) /\ j # i BY <1>1, <2>4
      <4>. QED BY <2>4, <4>1 DEF LeastTopological, Preceding
    <3>3. Elements(f[p[i]]) \subseteq Preceding(p, i) BY <2>4 DEF LeastTopological
    <3>. QED BY <2>4, <2>6, <3>1, <3>2, <3>3 DEF LeastTopological
  <2>8. p[i] <= q[i]
    <3>1. q[i] \in DOMAIN f BY <2>4 DEF LeastTopological, Elements
    <3>2. q[i] \notin Preceding(q, i)
      <4>1. \A j \in 1..(i - 1) : j \in 1..Len(q) /\ j # i BY <1>1, <2>4
      <4>. QED BY <2>4, <4>1 DEF LeastTopological, Preceding
    <3>3. Elements(f[q[i]]) \subseteq Preceding(q, i) BY <2>4 DEF LeastTopological
    <3>. QED BY <2>4, <2>6, <3>1, <3>2, <3>3 DEF LeastTopological
  <2>. QED BY <1>1, <2>4, <2>7, <2>8
<1>. QED BY <1>1, <1>2, <1>3

\* A registry has one order, and the sort finds it: what Engine takes as a constant
\* is the same in every process and on every call.
THEOREM OneOrder == Spec => []SortIsDeterministic
<1>1. IInv /\ ReadyIsTopological /\ LeastOrder => SortIsDeterministic
  <2> SUFFICES ASSUME IInv, ReadyIsTopological, LeastOrder, phase = "ready",
                      NEW q \in Seq(Ids)
               PROVE  LeastTopological(registry, q) <=> q = sorted
      BY DEF SortIsDeterministic
  <2>1. /\ sorted \in Seq(Ids) /\ Steps = DOMAIN registry
        /\ \A s \in Steps : deps[s] = registry[s]
        /\ \A i, j \in 1..Len(sorted) : sorted[i] = sorted[j] => i = j
      BY DEF IInv, TypeOK, Built, Kahn, Ordered
  <2>2. /\ Elements(sorted) = DOMAIN registry
        /\ \A i \in 1..Len(sorted) :
               Elements(registry[sorted[i]]) \subseteq Preceding(sorted, i)
      BY DEF ReadyIsTopological, Preceding
  <2>3. \A i \in 1..Len(sorted) : \A s \in DOMAIN registry \ Preceding(sorted, i) :
            Elements(registry[s]) \subseteq Preceding(sorted, i) => sorted[i] <= s
      BY <2>1 DEF LeastOrder, Preceding
  <2>4. LeastTopological(registry, sorted) BY <2>1, <2>2, <2>3 DEF LeastTopological
  <2>. QED BY <2>4, LeastIsUnique
<1>. QED BY <1>1, Sound, OrderIsTopological, OrderIsLeast, PTL

-------------------------------------------------------------------------------
(* Acyclic graphs, and the end of the loops *)

\* A graph is accepted only when no steps wait for each other: with CycleIsReal,
\* TopoSort tells cyclic graphs from the others (dag.go:75-77).
ReadyIsAcyclic ==
    phase = "ready" =>
        ~ \E C \in (SUBSET Steps) \ {{}} :
              \A s \in C : \E d \in C : d \in Elements(deps[s])

\* A set of steps that wait for each other has a first one in the order, which waits
\* for none of them.
THEOREM AcceptedIsAcyclic == Spec => []ReadyIsAcyclic
<1>1. IInv /\ ReadyIsTopological => ReadyIsAcyclic
  <2> SUFFICES ASSUME IInv, ReadyIsTopological, phase = "ready",
                      NEW C \in (SUBSET Steps) \ {{}},
                      \A s \in C : \E d \in C : d \in Elements(deps[s])
               PROVE  FALSE
      BY DEF ReadyIsAcyclic
  <2>1. /\ sorted \in Seq(Ids) /\ Steps = DOMAIN registry
        /\ \A s \in Steps : deps[s] = registry[s]
        /\ Elements(sorted) = Steps
        /\ \A i \in 1..Len(sorted) : \A d \in Elements(registry[sorted[i]]) :
               \E j \in 1..(i - 1) : sorted[j] = d
      BY DEF IInv, TypeOK, Built, ReadyIsTopological
  <2>. DEFINE P == {i \in 1..Len(sorted) : sorted[i] \in C}
              i == Least(P)
  <2>2. P # {} BY <2>1 DEF Elements
  <2>3. P \subseteq Nat BY <2>1
  <2>4. i \in P /\ \A t \in P : i <= t BY <2>2, <2>3, LeastIs
  <2>. HIDE DEF i
  <2>5. PICK d \in C : d \in Elements(deps[sorted[i]]) BY <2>4
  <2>6. PICK j \in 1..(i - 1) : sorted[j] = d
    <3>1. i \in 1..Len(sorted) /\ sorted[i] \in Steps BY <2>4
    <3>2. d \in Elements(registry[sorted[i]]) BY <2>1, <2>5, <3>1
    <3>. QED BY <2>1, <3>1, <3>2
  <2>7. j \in P /\ ~(i <= j) BY <2>1, <2>4, <2>6
  <2>. QED BY <2>4, <2>7
<1>. QED BY <1>1, Sound, OrderIsTopological, PTL

\* How many more steps BuildDAG and TopoSort can take: each loop has one for each
\* step of the graph.
Left == LET all == Cardinality(DOMAIN registry)
        IN  CASE phase = "add"      -> 3 + 2 * all - Cardinality(Steps)
              [] phase = "validate" -> 2 + all
              [] phase = "sort"     -> 1 + all - Len(sorted)
              [] OTHER              -> 0

\* Neither loop repeats itself or stops short: each iteration leaves fewer, down to
\* a result (dag.go:59-73 has no other bound, and a step that is queued twice would
\* be sorted twice).
Descends == phase \in {"add", "validate", "sort"}
                => Left \in Nat /\ Left' \in Nat /\ Left' < Left

BuildRunsOut == [][Descends]_vars

LEMMA CountsAre ==
    ASSUME IInv
    PROVE  /\ IsFiniteSet(DOMAIN registry) /\ Cardinality(DOMAIN registry) \in Nat
           /\ IsFiniteSet(Steps) /\ Cardinality(Steps) \in Nat
           /\ Cardinality(Steps) <= Cardinality(DOMAIN registry)
<1>1. DOMAIN registry \subseteq Ids /\ Steps \subseteq DOMAIN registry
    BY DEF IInv, TypeOK, Maps, Built
<1>2. IsFiniteSet(DOMAIN registry)
    BY <1>1, IdsAssumption, FS_Subset
<1>3. IsFiniteSet(Steps) /\ Cardinality(Steps) <= Cardinality(DOMAIN registry)
    BY <1>1, <1>2, FS_Subset
<1>. QED BY <1>2, <1>3, FS_CardinalityType

\* While the loop runs it has sorted no more steps than there are.
Fits == phase = "sort" => Len(sorted) <= Cardinality(DOMAIN registry)

LEMMA SortedFits == IInv => Fits
<1> SUFFICES ASSUME IInv, phase = "sort"
             PROVE  Len(sorted) <= Cardinality(DOMAIN registry)
    BY DEF Fits
<1>1. /\ sorted \in Seq(Ids) /\ Elements(sorted) \subseteq DOMAIN registry
      /\ \A i, j \in 1..Len(sorted) : sorted[i] = sorted[j] => i = j
    BY DEF IInv, TypeOK, Kahn, Ordered
<1>2. Cardinality(Elements(sorted)) = Len(sorted)
    BY <1>1, LenIsCardinality
<1>3. Cardinality(Elements(sorted)) <= Cardinality(DOMAIN registry)
    BY <1>1, CountsAre, FS_Subset
<1>. QED BY <1>2, <1>3

LEMMA NextDescends == IInv /\ Fits /\ Fits' /\ Next => Descends
<1> SUFFICES ASSUME IInv, Fits, Fits', Next, phase \in {"add", "validate", "sort"}
             PROVE  Left \in Nat /\ Left' \in Nat /\ Left' < Left
    BY DEF Descends
<1>. DEFINE all == Cardinality(DOMAIN registry)
            in  == Cardinality(Steps)
            out == Len(sorted)
<1>1. all \in Nat /\ in \in Nat /\ in <= all /\ out \in Nat
    BY CountsAre DEF IInv, TypeOK
<1>2. /\ phase = "add"      => Left = 3 + 2 * all - in
      /\ phase = "validate" => Left = 2 + all
      /\ phase = "sort"     => Left = 1 + all - out
    BY DEF Left
<1>3. /\ phase' = "add"      => Left' = 3 + 2 * all' - in'
      /\ phase' = "validate" => Left' = 2 + all'
      /\ phase' = "sort"     => Left' = 1 + all' - out'
      /\ phase' \in {"unknown", "cycle", "ready"} => Left' = 0
    BY DEF Left
<1>4. phase = "sort" => out <= all
    BY DEF Fits
<1>. HIDE DEF all, in, out
<1>5. ASSUME NEW s \in Ids, Add(s) PROVE Left \in Nat /\ Left' \in Nat /\ Left' < Left
  <2>1. /\ phase = "add" /\ phase' = "add" /\ registry' = registry
        /\ s \in (DOMAIN registry) \ Steps /\ deps' = Insert(deps, s, registry[s])
      BY <1>5 DEF Add
  <2>2. Steps' = Steps \cup {s} /\ all' = all
      BY <2>1 DEF Steps, Insert, all
  <2>3. in' = in + 1
      BY <2>1, <2>2, CountsAre, FS_AddElement DEF in
  <2>4. in' <= all
    <3>1. Steps \cup {s} \subseteq DOMAIN registry
        BY <2>1 DEF IInv, Built
    <3>. QED BY <2>2, <3>1, CountsAre, FS_Subset DEF in, all
  <2>. QED BY <1>1, <1>2, <1>3, <2>1, <2>2, <2>3, <2>4
<1>6. CASE AllAdded
  <2>1. phase = "add" /\ phase' = "validate" /\ all' = all
      BY <1>6 DEF AllAdded, all
  <2>. QED BY <1>1, <1>2, <1>3, <2>1
<1>7. CASE UnknownDependency
  <2>1. phase = "validate" /\ phase' = "unknown"
      BY <1>7 DEF UnknownDependency
  <2>. QED BY <1>1, <1>2, <1>3, <2>1
<1>8. CASE StartSort
  <2>1. phase = "validate" /\ phase' = "sort" /\ all' = all /\ out' = 0
      BY <1>8 DEF StartSort, all, out
  <2>. QED BY <1>1, <1>2, <1>3, <2>1
<1>9. ASSUME NEW id \in Ids, Emit(id) PROVE Left \in Nat /\ Left' \in Nat /\ Left' < Left
  <2>1. /\ phase = "sort" /\ phase' = "sort" /\ registry' = registry
        /\ sorted' = Append(sorted, id) /\ sorted \in Seq(Ids)
      BY <1>9 DEF Emit, IInv, TypeOK
  <2>2. all' = all /\ out' = out + 1
      BY <2>1 DEF all, out
  <2>3. out' <= all'
      BY <2>1 DEF Fits, all, out
  <2>. QED BY <1>1, <1>2, <1>3, <2>1, <2>2, <2>3
<1>10. CASE Finish
  <2>1. phase = "sort" /\ phase' \in {"ready", "cycle"}
      BY <1>10 DEF Finish
  <2>. QED BY <1>1, <1>2, <1>3, <1>4, <2>1
<1>. QED BY <1>5, <1>6, <1>7, <1>8, <1>9, <1>10
         DEF Next, Build, Register, RegisterTwice, BuildDAG

\* BuildDAG and TopoSort end on every registry, cyclic or not, within two iterations
\* for each of its steps and three more; BuildReturns adds that a call goes on.
THEOREM LoopsRunOut == Spec => BuildRunsOut
<1>1. IInv /\ Fits /\ Fits' /\ [Next]_vars => [Descends]_vars
    BY NextDescends
<1>. QED BY <1>1, SortedFits, Sound, PTL DEF Spec, BuildRunsOut


================================================================================
