---------------------------- MODULE SearchProofs ----------------------------
(***************************************************************************)
(* Proofs about Search, for any number of walkers, any folders, any limit  *)
(* and any sizes of batch.  A search counts at most one result past its    *)
(* limit for each walker, though a walker checks the limit and counts in   *)
(* two steps; and one that ends well has given its client all it counted.  *)
(* The second rests on a ledger: each file is in one place at a time, and  *)
(* what has been counted in it is where the file is.                       *)
(***************************************************************************)
EXTENDS Search, FiniteSetTheorems, FunctionTheorems, TLAPS

(***************************************************************************)
(* Sums of a function's values, as numbers of units.                       *)
(***************************************************************************)
LEMMA UnitPairs ==
  ASSUME NEW S, NEW sizes \in [S -> Nat]
  PROVE  /\ \A u \in Units(sizes) : /\ u = <<u[1], u[2]>>
                                    /\ u[1] \in S /\ u[2] \in 1..sizes[u[1]]
         /\ \A x \in S : \A n \in 1..sizes[x] : <<x, n>> \in Units(sizes)
  BY DEF Units

LEMMA TotalType ==
  ASSUME NEW S, IsFiniteSet(S), NEW sizes \in [S -> Nat]
  PROVE  IsFiniteSet(Units(sizes)) /\ Total(sizes) \in Nat
  <1> DEFINE Unit(x) == {x} \X (1..sizes[x])
             all == {Unit(x) : x \in S}
             unit == [x \in S |-> Unit(x)]
  <1>1. unit \in Surjection(S, all)
    BY DEF Surjection
  <1>2. IsFiniteSet(all)
    <2> HIDE DEF all, unit
    <2> QED
      BY <1>1, FS_Surjection
  <1>3. ASSUME NEW x \in S PROVE IsFiniteSet(Unit(x))
    <2>1. PICK n \in Nat : n = sizes[x]
      BY <1>3
    <2>2. IsFiniteSet(1..n)
      BY FS_Interval
    <2>3. IsFiniteSet({x})
      BY FS_Singleton
    <2> QED
      BY <2>1, <2>2, <2>3, FS_Product
  <1>4. \A T \in all : IsFiniteSet(T)
    BY <1>3
  <1>5. Units(sizes) = UNION all
    BY DEF Units
  <1>6. IsFiniteSet(UNION all)
    <2> HIDE DEF all
    <2> QED
      BY <1>2, <1>4, FS_UNION
  <1> QED
    BY <1>5, <1>6, FS_CardinalityType DEF Total

LEMMA TotalEmpty ==
  ASSUME NEW S, NEW sizes \in [S -> Nat], \A x \in S : sizes[x] = 0
  PROVE  Total(sizes) = 0
  <1>1. Units(sizes) = {}
    BY UnitPairs
  <1> QED
    BY <1>1, FS_EmptySet DEF Total

LEMMA TotalOfOne ==
  ASSUME NEW x, NEW sizes \in [{x} -> Nat]
  PROVE  Total(sizes) = sizes[x]
  <1>1. Units(sizes) = {x} \X (1..sizes[x])
    BY DEF Units
  <1>2. PICK n \in Nat : n = sizes[x]
    OBVIOUS
  <1>3. IsFiniteSet({x}) /\ Cardinality({x}) = 1
    BY FS_Singleton
  <1>4. IsFiniteSet(1..n) /\ Cardinality(1..n) = n
    BY FS_Interval
  <1>5. Cardinality({x} \X (1..n)) = 1 * n
    BY <1>3, <1>4, FS_Product
  <1> QED
    BY <1>1, <1>2, <1>5 DEF Total

LEMMA TotalGrows ==
  ASSUME NEW S, IsFiniteSet(S), NEW sizes \in [S -> Nat], NEW s \in S
  PROVE  /\ [sizes EXCEPT ![s] = @ + 1] \in [S -> Nat]
         /\ Total([sizes EXCEPT ![s] = @ + 1]) = Total(sizes) + 1
  <1> DEFINE more == [sizes EXCEPT ![s] = @ + 1]
  <1>1. PICK n \in Nat : n = sizes[s]
    OBVIOUS
  <1>2. /\ more \in [S -> Nat] /\ more[s] = n + 1
        /\ \A x \in S \ {s} : more[x] = sizes[x]
    BY <1>1
  <1> HIDE DEF more
  <1>3. Units(more) = Units(sizes) \cup {<<s, n + 1>>}
    <2>1. ASSUME NEW u \in Units(more) PROVE u \in Units(sizes) \cup {<<s, n + 1>>}
      <3>1. u = <<u[1], u[2]>> /\ u[1] \in S /\ u[2] \in 1..more[u[1]]
        BY <1>2, <2>1, UnitPairs
      <3>2. u[2] \in 1..sizes[u[1]] \/ (u[1] = s /\ u[2] = n + 1)
        BY <1>1, <1>2, <3>1
      <3>3. CASE u[2] \in 1..sizes[u[1]]
        <4>1. <<u[1], u[2]>> \in Units(sizes)
          BY <3>1, <3>3, UnitPairs
        <4> QED
          BY <3>1, <4>1
      <3> QED
        BY <3>1, <3>2, <3>3
    <2>2. ASSUME NEW u \in Units(sizes) PROVE u \in Units(more)
      <3>1. u = <<u[1], u[2]>> /\ u[1] \in S /\ u[2] \in 1..sizes[u[1]]
        BY UnitPairs
      <3>2. u[2] \in 1..more[u[1]]
        BY <1>1, <1>2, <3>1
      <3>3. <<u[1], u[2]>> \in Units(more)
        BY <1>2, <3>1, <3>2, UnitPairs
      <3> QED
        BY <3>1, <3>3
    <2>3. <<s, n + 1>> \in Units(more)
      BY <1>2, UnitPairs
    <2> QED
      BY <2>1, <2>2, <2>3
  <1>4. <<s, n + 1>> \notin Units(sizes)
    <2> SUFFICES ASSUME <<s, n + 1>> \in Units(sizes) PROVE FALSE
      OBVIOUS
    <2>1. n + 1 \in 1..n
      BY <1>1, UnitPairs
    <2> QED
      BY <2>1
  <1>5. IsFiniteSet(Units(sizes)) /\ Total(sizes) \in Nat
    BY TotalType
  <1>6. Cardinality(Units(sizes) \cup {<<s, n + 1>>}) = Cardinality(Units(sizes)) + 1
    BY <1>4, <1>5, FS_AddElement
  <1> QED
    BY <1>2, <1>3, <1>6 DEF Total, more

\* A ledger of the files is what was found in some and what was lost in the others.
LEMMA TotalSplit ==
  ASSUME NEW S, IsFiniteSet(S), NEW whole \in [S -> Nat], NEW part \in [S -> Nat],
         NEW lost, NEW sizes \in [lost -> Nat],
         \A e \in lost : e.file \in S /\ sizes[e] = e.size,
         \A e1, e2 \in lost : e1.file = e2.file => e1 = e2,
         \A e \in lost : part[e.file] = 0 /\ whole[e.file] = e.size,
         \A x \in S : (\A e \in lost : e.file # x) => part[x] = whole[x]
  PROVE  Total(part) + Total(sizes) = Total(whole)
  <1> DEFINE A == Units(part)
             B == {u \in Units(whole) : \E e \in lost : e.file = u[1]}
             to == [u \in Units(sizes) |-> <<u[1].file, u[2]>>]
  <1>1. sizes \in [lost -> Nat] /\ \A e \in lost : sizes[e] = e.size
    OBVIOUS
  <1>2. \A u \in Units(sizes) : /\ u = <<u[1], u[2]>> /\ u[1] \in lost
                                /\ u[2] \in 1..u[1].size
    BY <1>1, UnitPairs
  <1>3. \A u \in Units(whole) : /\ u = <<u[1], u[2]>> /\ u[1] \in S
                                /\ u[2] \in 1..whole[u[1]]
    BY UnitPairs
  <1>4. to \in Bijection(Units(sizes), B)
    <2>1. ASSUME NEW u \in Units(sizes) PROVE to[u] \in B
      <3>1. u[1] \in lost /\ u[1].file \in S /\ u[2] \in 1..whole[u[1].file]
        BY <1>2
      <3>2. <<u[1].file, u[2]>> \in Units(whole)
        BY <3>1, UnitPairs
      <3> QED
        BY <3>1, <3>2
    <2>2. ASSUME NEW u \in Units(sizes), NEW v \in Units(sizes), to[u] = to[v] PROVE u = v
      <3>1. u[1].file = v[1].file /\ u[2] = v[2] /\ u[1] \in lost /\ v[1] \in lost
        BY <1>2, <2>2
      <3>2. u[1] = v[1]
        BY <3>1
      <3> QED
        BY <1>2, <3>1, <3>2
    <2>3. ASSUME NEW b \in B PROVE \E u \in Units(sizes) : to[u] = b
      <3>1. PICK e \in lost : e.file = b[1]
        OBVIOUS
      <3>2. b = <<b[1], b[2]>> /\ b[2] \in 1..sizes[e]
        BY <1>1, <1>3, <3>1
      <3>3. <<e, b[2]>> \in Units(sizes)
        BY <1>1, <3>2, UnitPairs
      <3>4. to[<<e, b[2]>>] = b
        BY <3>1, <3>2, <3>3
      <3> QED
        BY <3>3, <3>4
    <2>4. to \in [Units(sizes) -> B]
      BY <2>1
    <2> HIDE DEF to, B
    <2> QED
      BY <2>2, <2>3, <2>4, Fun_IsBij
  <1>5. IsFiniteSet(Units(whole)) /\ IsFiniteSet(A)
    BY TotalType
  <1>6. IsFiniteSet(B)
    BY <1>5, FS_Subset
  <1>7. ExistsBijection(B, Units(sizes))
    <2> HIDE DEF to, B
    <2>1. ExistsBijection(Units(sizes), B)
      BY <1>4 DEF ExistsBijection
    <2> QED
      BY <2>1, Fun_ExistsBijSymmetric
  <1>8. Cardinality(B) = Total(sizes)
    <2> HIDE DEF B
    <2> QED
      BY <1>6, <1>7, FS_Bijection DEF Total
  <1>9. A \cap B = {}
    <2> SUFFICES ASSUME NEW u \in A, u \in B PROVE FALSE
      OBVIOUS
    <2>1. u[1] \in S /\ u[2] \in 1..part[u[1]]
      BY UnitPairs
    <2>2. part[u[1]] = 0
      OBVIOUS
    <2> QED
      BY <2>1, <2>2
  <1>10. Units(whole) = A \cup B
    <2>1. ASSUME NEW u \in A PROVE u \in Units(whole)
      <3>1. u = <<u[1], u[2]>> /\ u[1] \in S /\ u[2] \in 1..part[u[1]]
        BY UnitPairs
      <3>2. part[u[1]] = 0 \/ part[u[1]] = whole[u[1]]
        BY <3>1
      <3>3. u[2] \in 1..whole[u[1]]
        BY <3>1, <3>2
      <3>4. <<u[1], u[2]>> \in Units(whole)
        BY <3>1, <3>3, UnitPairs
      <3> QED
        BY <3>1, <3>4
    <2>2. ASSUME NEW u \in Units(whole), u \notin B PROVE u \in A
      <3>1. u = <<u[1], u[2]>> /\ u[1] \in S /\ u[2] \in 1..part[u[1]]
        BY <1>3, <2>2
      <3>2. <<u[1], u[2]>> \in A
        BY <3>1, UnitPairs
      <3> QED
        BY <3>1, <3>2
    <2> QED
      BY <2>1, <2>2
  <1>11. Cardinality(A \cup B) = Cardinality(A) + Cardinality(B) - 0
    <2>1. Cardinality(A \cap B) = 0
      BY <1>9, FS_EmptySet
    <2> HIDE DEF A, B
    <2> QED
      BY <1>5, <1>6, <2>1, FS_Union
  <1>12. Cardinality(A) = Total(part) /\ Total(part) \in Nat /\ Total(whole) \in Nat
    BY TotalType DEF Total
  <1>13. Total(whole) = Cardinality(A \cup B)
    BY <1>10 DEF Total
  <1>14. Total(sizes) \in Nat
    BY <1>6, <1>8, FS_CardinalityType
  <1> HIDE DEF A, B
  <1> QED
    BY <1>8, <1>11, <1>12, <1>13, <1>14

(***************************************************************************)
(* The walk's types, and what a walker's step makes of the walker.         *)
(***************************************************************************)
\* A walker that is not idle is at a file.
Busy == {"read", "count", "mark"}
Worker == {s \in Walker : s.at \in Busy => s.file \in Files}

Typed ==
  /\ kind \in Kinds /\ max \in Nat /\ results \in Nat /\ limitHit \in BOOLEAN
  /\ todo \subseteq Files /\ rest \in Seq(SUBSET Files)
  /\ walker \in [Walkers -> Worker]

LEMMA WorkerFields ==
  ASSUME NEW s \in Worker
  PROVE  /\ s \in Walker /\ s.at \in {"idle", "quit", "read", "count", "mark"}
         /\ s.left \in Nat /\ s.got \in Nat
         /\ s.at \in Busy => s.file \in Files
  BY DEF Worker, Walker

LEMMA Shapes ==
  /\ Idle \in Worker /\ Idle.at = "idle"
  /\ Gone \in Worker /\ Gone.at = "quit"
  BY DEF Idle, Gone, Worker, Walker, Busy

LEMMA VisitMoves ==
  ASSUME Typed, NEW w \in Walkers, Visit(w)
  PROVE  \E s \in Worker :
           /\ walker[w].at = "idle" /\ Becomes(w, s)
           /\ \/ Stop /\ s = Gone /\ UNCHANGED todo
              \/ /\ ~Stop
                 /\ \E f \in todo :
                      /\ todo' = todo \ {f}
                      /\ \/ Matches[f] = 0 /\ s = Idle
                         \/ /\ Matches[f] # 0 /\ s.file = f
                            /\ kind = "text" => s.at = "read" /\ s.left = Matches[f] /\ s.got = 0
                            /\ kind # "text" => s.at = "count"
  <1>1. CASE Stop
    BY <1>1, Shapes DEF Visit
  <1>2. CASE ~Stop
    <2>1. PICK f \in todo : /\ todo' = todo \ {f}
                            /\ Becomes(w, IF Matches[f] = 0 THEN Idle
                                 ELSE IF kind = "text"
                                 THEN [at |-> "read", file |-> f, left |-> Matches[f], got |-> 0]
                                 ELSE [at |-> "count", file |-> f, left |-> 0, got |-> 1])
      BY <1>2 DEF Visit
    <2>2. f \in Files /\ Matches[f] \in Nat
      BY FilesAssumption DEF Typed
    <2> DEFINE a == [at |-> "read", file |-> f, left |-> Matches[f], got |-> 0]
               b == [at |-> "count", file |-> f, left |-> 0, got |-> 1]
    <2>3. /\ a \in Worker /\ a.at = "read" /\ a.file = f /\ a.left = Matches[f] /\ a.got = 0
          /\ b \in Worker /\ b.at = "count" /\ b.file = f
      BY <2>2 DEF Worker, Walker
    <2>4. Becomes(w, IF Matches[f] = 0 THEN Idle ELSE IF kind = "text" THEN a ELSE b)
      BY <2>1
    <2>5. walker[w].at = "idle"
      BY DEF Visit
    <2> HIDE DEF a, b
    <2>6. CASE Matches[f] = 0
      BY <1>2, <2>1, <2>4, <2>5, <2>6, Shapes
    <2>7. CASE Matches[f] # 0 /\ kind = "text"
      BY <1>2, <2>1, <2>3, <2>4, <2>5, <2>7
    <2>8. CASE Matches[f] # 0 /\ kind # "text"
      BY <1>2, <2>1, <2>3, <2>4, <2>5, <2>8
    <2> QED
      BY <2>6, <2>7, <2>8
  <1> QED
    BY <1>1, <1>2

LEMMA ReadMoves ==
  ASSUME Typed, NEW w \in Walkers, Read(w)
  PROVE  \E s \in Worker :
           /\ walker[w].at = "read" /\ Becomes(w, s)
           /\ \/ /\ Stop \/ walker[w].left = 0
                 /\ s = Idle
                 /\ queue' = IF walker[w].got = 0 THEN queue
                             ELSE Append(queue, [file |-> walker[w].file, size |-> walker[w].got])
              \/ /\ ~Stop /\ UNCHANGED queue
                 /\ s.at = "count" /\ s.file = walker[w].file /\ s.got = walker[w].got
                 /\ s.left + 1 = walker[w].left
  <1>1. CASE Stop \/ walker[w].left = 0
    BY <1>1, Shapes DEF Read
  <1>2. CASE ~(Stop \/ walker[w].left = 0)
    <2> DEFINE s == [walker[w] EXCEPT !.at = "count", !.left = @ - 1]
    <2>1. walker[w] \in Worker /\ walker[w].at = "read" /\ Becomes(w, s) /\ UNCHANGED queue
      BY <1>2 DEF Read, Typed
    <2>2. PICK n \in Nat : n + 1 = walker[w].left /\ walker[w].left - 1 = n
      <3>1. walker[w].left - 1 \in Nat /\ (walker[w].left - 1) + 1 = walker[w].left
        BY <1>2, <2>1, WorkerFields
      <3> QED
        BY <3>1
    <2>3. /\ s \in Worker /\ s.at = "count" /\ s.file = walker[w].file
          /\ s.got = walker[w].got /\ s.left = n
      <3>1. s = [walker[w] EXCEPT !.at = "count", !.left = n]
        BY <2>2
      <3> QED
        BY <2>1, <3>1 DEF Worker, Walker, Busy
    <2> HIDE DEF s
    <2> QED
      BY <1>2, <2>1, <2>2, <2>3
  <1> QED
    BY <1>1, <1>2

LEMMA CountMoves ==
  ASSUME Typed, NEW w \in Walkers, Count(w)
  PROVE  \E s \in Worker :
           /\ walker[w].at = "count" /\ Becomes(w, s)
           /\ \/ /\ kind # "text" /\ ~AtLimit(results + 1) /\ s = Idle
                 /\ queue' = Append(queue, [file |-> walker[w].file, size |-> 1])
              \/ /\ kind = "text" \/ AtLimit(results + 1)
                 /\ UNCHANGED queue
                 /\ s.at = IF AtLimit(results + 1) THEN "mark" ELSE "read"
                 /\ s.file = walker[w].file /\ s.left = walker[w].left
                 /\ kind = "text" => s.got = walker[w].got + 1
  <1>1. walker[w] \in Worker /\ walker[w].at = "count" /\ walker[w].got + 1 \in Nat
    BY WorkerFields DEF Count, Typed
  <1>2. CASE kind = "text"
    <2> DEFINE a == IF AtLimit(results + 1) THEN "mark" ELSE "read"
               g == walker[w].got + 1
               s == [walker[w] EXCEPT !.at = a, !.got = g]
    <2>1. Becomes(w, s) /\ UNCHANGED queue
      BY <1>2 DEF Count
    <2>2. a \in {"mark", "read"}
      OBVIOUS
    <2>3. /\ s \in Worker /\ s.at = a /\ s.file = walker[w].file
          /\ s.left = walker[w].left /\ s.got = g
      <3> HIDE DEF a, g
      <3>1. g \in Nat
        BY <1>1 DEF g
      <3> QED
        BY <1>1, <2>2, <3>1 DEF Worker, Walker, Busy
    <2> HIDE DEF s
    <2> QED
      BY <1>1, <1>2, <2>1, <2>3
  <1>3. CASE kind # "text" /\ AtLimit(results + 1)
    <2> DEFINE s == [walker[w] EXCEPT !.at = "mark"]
    <2>1. Becomes(w, s) /\ UNCHANGED queue
      BY <1>3 DEF Count
    <2>2. s \in Worker /\ s.at = "mark" /\ s.file = walker[w].file /\ s.left = walker[w].left
      BY <1>1 DEF Worker, Walker, Busy
    <2> HIDE DEF s
    <2> QED
      BY <1>1, <1>3, <2>1, <2>2
  <1>4. CASE kind # "text" /\ ~AtLimit(results + 1)
    BY <1>1, <1>4, Shapes DEF Count
  <1> QED
    BY <1>2, <1>3, <1>4

LEMMA MarkMoves ==
  ASSUME Typed, NEW w \in Walkers, Mark(w)
  PROVE  \E s \in Worker :
           /\ walker[w].at = "mark" /\ Becomes(w, s)
           /\ \/ kind # "text" /\ s = Gone
              \/ /\ kind = "text" /\ s.at = "read" /\ s.file = walker[w].file
                 /\ s.left = walker[w].left /\ s.got = walker[w].got
  <1>1. walker[w] \in Worker /\ walker[w].at = "mark"
    BY DEF Mark, Typed
  <1>2. CASE kind = "text"
    <2> DEFINE s == [walker[w] EXCEPT !.at = "read"]
    <2>1. Becomes(w, s)
      BY <1>2 DEF Mark
    <2>2. /\ s \in Worker /\ s.at = "read" /\ s.file = walker[w].file
          /\ s.left = walker[w].left /\ s.got = walker[w].got
      BY <1>1 DEF Worker, Walker, Busy
    <2> HIDE DEF s
    <2> QED
      BY <1>1, <1>2, <2>1, <2>2
  <1>3. CASE kind # "text"
    BY <1>1, <1>3, Shapes DEF Mark
  <1> QED
    BY <1>2, <1>3

LEMMA TypedInit ==
  Init => Typed
  <1> SUFFICES ASSUME Init PROVE Typed
    OBVIOUS
  <1>1. /\ kind \in Kinds /\ max \in Limits /\ results = 0 /\ limitHit = FALSE
        /\ todo = {} /\ rest = Folders /\ walker = [w \in Walkers |-> Gone]
    BY DEF Init
  <1>2. walker \in [Walkers -> Worker]
    BY <1>1, Shapes
  <1>3. max \in Nat
    BY <1>1, LimitsAssumption
  <1> QED
    BY <1>1, <1>2, <1>3, FilesAssumption DEF Typed

LEMMA TypedStep ==
  Typed /\ [Next]_vars => Typed'
  <1> SUFFICES ASSUME Typed, [Next]_vars PROVE Typed'
    OBVIOUS
  <1> USE DEF query, walkVars
  <1>1. CASE Cancel \/ Unlisten \/ Refuse \/ UNCHANGED vars
    BY <1>1 DEF Typed, Cancel, Unlisten, Refuse, vars
  <1>2. CASE NextFolder
    <2>1. /\ todo' = Head(rest) /\ rest' = Tail(rest) /\ rest # <<>>
          /\ walker' = [x \in Walkers |-> Idle] /\ UNCHANGED <<kind, max, results, limitHit>>
      BY <1>2 DEF NextFolder
    <2>2. todo' \subseteq Files /\ rest' \in Seq(SUBSET Files)
      BY <2>1 DEF Typed
    <2>3. walker' \in [Walkers -> Worker]
      BY <2>1, Shapes
    <2> QED
      BY <2>1, <2>2, <2>3 DEF Typed
  <1>3. CASE WalkEnds
    BY <1>3, Shapes DEF Typed, WalkEnds
  <1>4. CASE Drain \/ Timeout \/ Complete
    BY <1>4 DEF Typed, Drain, Timeout, Complete, CollectorLeaves
  <1>5. ASSUME NEW w \in Walkers, Step(w) PROVE Typed'
    <2>1. \E s \in Worker : Becomes(w, s)
      BY <1>5, VisitMoves, ReadMoves, CountMoves, MarkMoves, Shapes DEF Step, ReadFails
    <2>2. walker' \in [Walkers -> Worker]
      BY <2>1 DEF Becomes, Typed
    <2>3. UNCHANGED <<kind, max, rest>> /\ todo' \subseteq todo
      BY <1>5 DEF Step, Visit, Read, ReadFails, Count, Mark, WalkerLeaves
    <2>4. results' \in {results, results + 1} /\ limitHit' \in {limitHit, TRUE}
      BY <1>5 DEF Step, Visit, Read, ReadFails, Count, Mark
    <2>5. results' \in Nat
      BY <2>4 DEF Typed
    <2>6. limitHit' \in BOOLEAN
      BY <2>4 DEF Typed
    <2>7. kind' \in Kinds /\ max' \in Nat /\ todo' \subseteq Files /\ rest' \in Seq(SUBSET Files)
      BY <2>3 DEF Typed
    <2> QED
      BY <2>2, <2>5, <2>6, <2>7 DEF Typed
  <1> QED
    BY <1>1, <1>2, <1>3, <1>4, <1>5 DEF Next

(***************************************************************************)
(* The walkers at a step, and how their number changes when one moves.     *)
(***************************************************************************)
Where(a) == {w \in Walkers : walker[w].at = a}
At(a) == Cardinality(Where(a))

LEMMA AtFinite ==
  ASSUME NEW a
  PROVE  /\ IsFiniteSet(Where(a)) /\ At(a) \in Nat
         /\ Cardinality(Walkers) \in Nat /\ At(a) <= Cardinality(Walkers)
  <1>1. IsFiniteSet(Walkers) /\ Where(a) \in SUBSET Walkers
    BY WalkersAssumption DEF Where
  <1> QED
    BY <1>1, FS_Subset, FS_CardinalityType DEF At

LEMMA Moves ==
  ASSUME Typed, NEW w \in Walkers, NEW s \in Worker, Becomes(w, s), NEW a
  PROVE  /\ At(a)' \in Nat
         /\ At(a)' + (IF walker[w].at = a THEN 1 ELSE 0) = At(a) + (IF s.at = a THEN 1 ELSE 0)
  <1>1. walker' = [walker EXCEPT ![w] = s] /\ walker \in [Walkers -> Worker]
    BY DEF Becomes, Typed
  <1>2. w \in Where(a) <=> walker[w].at = a
    BY DEF Where
  <1>3. IsFiniteSet(Where(a)) /\ Cardinality(Where(a)) \in Nat
    BY AtFinite DEF At
  <1>4. CASE s.at = a
    <2>1. Where(a)' = Where(a) \cup {w}
      BY <1>1, <1>4 DEF Where
    <2>2. Cardinality(Where(a)') = IF w \in Where(a) THEN Cardinality(Where(a))
                                                     ELSE Cardinality(Where(a)) + 1
      BY <1>3, <2>1, FS_AddElement
    <2> QED
      BY <1>2, <1>3, <1>4, <2>2 DEF At
  <1>5. CASE s.at # a
    <2>1. Where(a)' = Where(a) \ {w}
      BY <1>1, <1>5 DEF Where
    <2>2. /\ Cardinality(Where(a)') = IF w \in Where(a) THEN Cardinality(Where(a)) - 1
                                                        ELSE Cardinality(Where(a))
          /\ IsFiniteSet(Where(a)')
      BY <1>3, <2>1, FS_RemoveElement
    <2>3. Cardinality(Where(a)') \in Nat
      BY <2>2, FS_CardinalityType
    <2> QED
      BY <1>2, <1>3, <1>5, <2>2, <2>3 DEF At
  <1> QED
    BY <1>4, <1>5

\* No walker counts and marks at once.
LEMMA CountOrMark ==
  At("count") + At("mark") <= Cardinality(Walkers)
  <1>1. Where("count") \cap Where("mark") = {}
    BY DEF Where
  <1>2. /\ IsFiniteSet(Where("count")) /\ Cardinality(Where("count")) \in Nat
        /\ IsFiniteSet(Where("mark")) /\ Cardinality(Where("mark")) \in Nat
    BY AtFinite DEF At
  <1>3. Cardinality(Where("count") \cup Where("mark")) = At("count") + At("mark")
    <2>1. Cardinality(Where("count") \cap Where("mark")) = 0
      BY <1>1, FS_EmptySet
    <2>2. Cardinality(Where("count") \cup Where("mark"))
            = Cardinality(Where("count")) + Cardinality(Where("mark")) - Cardinality(Where("count") \cap Where("mark"))
      BY <1>2, FS_Union
    <2> QED
      BY <1>2, <2>1, <2>2 DEF At
  <1>4. Where("count") \cup Where("mark") \in SUBSET Walkers
    BY DEF Where
  <1> QED
    BY <1>3, <1>4, FS_Subset, WalkersAssumption

(***************************************************************************)
(* The invariant: until the limit is stored, what is past it is on walkers *)
(* about to store it; from then on only walkers that have checked already  *)
(* may still count.                                                        *)
(***************************************************************************)
Bounded ==
  /\ ~limitHit => results <= Allowed + At("mark")
  /\ limitHit => results + At("count") <= Allowed + Cardinality(Walkers)

LEMMA AllowedType ==
  Typed => Allowed \in Nat
  <1> SUFFICES ASSUME Typed PROVE Allowed \in Nat
    OBVIOUS
  <1>1. max \in Nat /\ (max # 0 => max - 1 \in Nat)
    BY DEF Typed
  <1>2. CASE kind = "text"
    BY <1>1, <1>2 DEF Allowed
  <1>3. CASE kind = "file"
    BY <1>1, <1>3 DEF Allowed
  <1>4. CASE kind = "exists"
    BY <1>4 DEF Allowed
  <1> QED
    BY <1>2, <1>3, <1>4 DEF Typed, Kinds

LEMMA BoundedInit ==
  Init => Bounded
  <1> SUFFICES ASSUME Init PROVE Bounded
    OBVIOUS
  <1>1. Where("mark") = {}
    BY Shapes DEF Init, Where
  <1>2. results = 0 /\ limitHit = FALSE
    BY DEF Init
  <1>3. Allowed \in Nat
    BY TypedInit, AllowedType
  <1>4. At("mark") = 0
    BY <1>1, FS_EmptySet DEF At
  <1> QED
    BY <1>2, <1>3, <1>4 DEF Bounded

\* A result that is not at the limit is one of those allowed.
LEMMA BelowLimit ==
  ASSUME Typed, ~AtLimit(results + 1)
  PROVE  results + 1 <= Allowed
  <1>1. CASE kind = "text"
    BY <1>1 DEF Typed, AtLimit, Allowed
  <1>2. CASE kind = "file"
    BY <1>2 DEF Typed, AtLimit, Allowed
  <1>3. CASE kind = "exists"
    BY <1>3 DEF AtLimit
  <1> QED
    BY <1>1, <1>2, <1>3 DEF Typed, Kinds

LEMMA BoundedStep ==
  Typed /\ Bounded /\ [Next]_vars => Bounded'
  <1> SUFFICES ASSUME Typed, Bounded, [Next]_vars PROVE Bounded'
    OBVIOUS
  <1>1. /\ results \in Nat /\ Allowed \in Nat /\ Cardinality(Walkers) \in Nat
        /\ At("mark") \in Nat /\ At("count") \in Nat
    BY AllowedType, AtFinite DEF Typed
  <1>2. UNCHANGED query => Allowed' = Allowed
    BY DEF query, Allowed
  <1>3. CASE UNCHANGED <<query, walker, results, limitHit>>
    BY <1>2, <1>3 DEF Bounded, At, Where, query
  <1>4. CASE NextFolder \/ WalkEnds
    <2>1. UNCHANGED <<query, results, limitHit>>
      BY <1>4 DEF NextFolder, WalkEnds, query
    <2>2. Where("mark") = {} /\ Where("mark")' = {} /\ Where("count")' = {}
      BY <1>4, Shapes DEF NextFolder, WalkEnds, FolderDone, Resting, Where
    <2>3. At("mark") = 0 /\ At("mark")' = 0 /\ At("count")' = 0
      BY <2>2, FS_EmptySet DEF At
    <2> QED
      BY <1>1, <1>2, <2>1, <2>3 DEF Bounded
  <1>5. ASSUME NEW w \in Walkers, Step(w) PROVE Bounded'
    <2>0. ASSUME NEW s \in Worker, Becomes(w, s)
          PROVE  /\ At("mark")' \in Nat /\ At("count")' \in Nat
                 /\ At("mark")' + (IF walker[w].at = "mark" THEN 1 ELSE 0)
                      = At("mark") + (IF s.at = "mark" THEN 1 ELSE 0)
                 /\ At("count")' + (IF walker[w].at = "count" THEN 1 ELSE 0)
                      = At("count") + (IF s.at = "count" THEN 1 ELSE 0)
      BY <2>0, Moves
    <2>1. CASE Visit(w)
      <3>1. PICK s \in Worker : /\ walker[w].at = "idle" /\ Becomes(w, s)
                                /\ s.at \in {"idle", "quit", "read", "count"}
                                /\ s.at = "count" => ~limitHit
        BY <2>1, VisitMoves, Shapes DEF Stop, Typed
      <3>2. At("mark")' = At("mark") /\ (s.at # "count" => At("count")' = At("count"))
        BY <1>1, <2>0, <3>1
      <3>3. UNCHANGED <<query, results, limitHit>>
        BY <2>1 DEF Visit, WalkerLeaves
      <3> QED
        BY <1>1, <1>2, <3>1, <3>2, <3>3 DEF Bounded
    <2>2. CASE Read(w)
      <3>1. PICK s \in Worker : /\ walker[w].at = "read" /\ Becomes(w, s)
                                /\ s.at \in {"idle", "count"} /\ (s.at = "count" => ~limitHit)
        BY <2>2, ReadMoves, Shapes DEF Stop
      <3>2. At("mark")' = At("mark") /\ (s.at # "count" => At("count")' = At("count"))
        BY <1>1, <2>0, <3>1
      <3>3. UNCHANGED <<query, results, limitHit>>
        BY <2>2 DEF Read, WalkerLeaves
      <3> QED
        BY <1>1, <1>2, <3>1, <3>2, <3>3 DEF Bounded
    <2>3. CASE ReadFails(w)
      <3>1. At("mark")' = At("mark") /\ At("count")' = At("count")
        <4>1. walker[w].at = "read" /\ Becomes(w, Idle)
          BY <2>3 DEF ReadFails
        <4> QED
          BY <1>1, <2>0, <4>1, Shapes
      <3>2. UNCHANGED <<query, results, limitHit>>
        BY <2>3 DEF ReadFails, WalkerLeaves
      <3> QED
        BY <1>1, <1>2, <3>1, <3>2 DEF Bounded
    <2>4. CASE Count(w)
      <3>1. PICK s \in Worker : /\ walker[w].at = "count" /\ Becomes(w, s)
                                /\ s.at \in {"mark", "read", "idle"}
                                /\ s.at = "mark" <=> AtLimit(results + 1)
        BY <2>4, CountMoves, Shapes
      <3>2. /\ At("count")' + 1 = At("count")
            /\ s.at = "mark" => At("mark")' = At("mark") + 1
            /\ s.at # "mark" => At("mark")' = At("mark")
        BY <1>1, <2>0, <3>1
      <3>3. results' = results + 1 /\ UNCHANGED <<query, limitHit>>
        BY <2>4 DEF Count, WalkerLeaves
      <3>4. s.at # "mark" => results + 1 <= Allowed
        BY <3>1, BelowLimit
      <3> QED
        BY <1>1, <1>2, <2>0, <3>1, <3>2, <3>3, <3>4 DEF Bounded
    <2>5. CASE Mark(w)
      <3>1. PICK s \in Worker : /\ walker[w].at = "mark" /\ Becomes(w, s)
                                /\ s.at \in {"read", "quit"}
        BY <2>5, MarkMoves, Shapes
      <3>2. At("count")' = At("count")
        BY <1>1, <2>0, <3>1
      <3>3. limitHit' = TRUE /\ UNCHANGED <<query, results>>
        BY <2>5 DEF Mark, WalkerLeaves
      <3> QED
        BY <1>1, <1>2, <3>2, <3>3, CountOrMark DEF Bounded, Typed
    <2> QED
      BY <1>5, <2>1, <2>2, <2>3, <2>4, <2>5 DEF Step
  <1>6. CASE Cancel \/ Unlisten \/ Refuse \/ Drain \/ Timeout \/ Complete \/ UNCHANGED vars
    <2>1. UNCHANGED <<query, walker, results, limitHit>>
      BY <1>6 DEF Cancel, Unlisten, Refuse, Drain, Timeout, Complete, CollectorLeaves,
                  vars, walkVars, query
    <2> QED
      BY <1>3, <2>1
  <1> QED
    BY <1>4, <1>5, <1>6 DEF Next

\* Typed /\ Bounded is inductive.
LEMMA SearchHolds ==
  Spec => [](Typed /\ Bounded)
  <1>1. Init => Typed /\ Bounded
    BY TypedInit, BoundedInit
  <1>2. Typed /\ Bounded /\ [Next]_vars => (Typed /\ Bounded)'
    BY TypedStep, BoundedStep
  <1> QED
    BY <1>1, <1>2, PTL DEF Spec

\* However many walkers check the limit before the first of them has stored
\* that it is reached, a search counts at most one result past it for each.
THEOREM SearchStaysWithinLimit ==
  Spec => []OverrunBounded
  <1>1. Typed /\ Bounded => OverrunBounded
    <2> SUFFICES ASSUME Typed, Bounded PROVE OverrunBounded
      OBVIOUS
    <2>0. IsFiniteSet(Walkers)
      BY WalkersAssumption
    <2>1. /\ results \in Nat /\ Allowed \in Nat /\ Cardinality(Walkers) \in Nat
      BY <2>0, AllowedType, FS_CardinalityType DEF Typed
    <2>2. /\ At("mark") \in Nat /\ At("mark") <= Cardinality(Walkers)
          /\ At("count") \in Nat
      BY AtFinite
    <2>3. PICK c, m, w, a \in Nat :
            /\ c = At("count") /\ m = At("mark")
            /\ w = Cardinality(Walkers) /\ a = Allowed
      BY <2>1, <2>2
    <2>4. m <= w /\ (~limitHit => results <= a + m) /\ (limitHit => results + c <= a + w)
      BY <2>2, <2>3 DEF Bounded
    <2>5. results <= a + w
      <3>1. CASE limitHit
        BY <2>1, <2>4, <3>1
      <3>2. CASE ~limitHit
        BY <2>1, <2>4, <3>2
      <3> QED
        BY <3>1, <3>2
    <2> QED
      BY <2>3, <2>5 DEF OverrunBounded
  <1> QED
    BY <1>1, SearchHolds, PTL

(***************************************************************************)
(* Type correctness.  What a walker sends names a file because a walker    *)
(* that is not idle is at one.                                             *)
(***************************************************************************)
LEMMA TypeOKTyped == TypeOK /\ walker \in [Walkers -> Worker] => Typed
  BY LimitsAssumption DEF TypeOK, Typed

LEMMA SizesType ==
  ASSUME NEW items \in Seq(Item)
  PROVE  SizeOf(items) \in Nat /\ \A f : SizeIn(items, f) \in Nat
  <1>1. PICK n \in Nat : DOMAIN items = 1..n
    OBVIOUS
  <1>2. IsFiniteSet(DOMAIN items)
    BY <1>1, FS_Interval
  <1>3. ASSUME NEW i \in DOMAIN items PROVE items[i].size \in Nat
    <2>1. items[i] \in Item
      OBVIOUS
    <2> QED
      BY <2>1 DEF Item
  <1>4. SizeOf(items) \in Nat
    <2>1. [i \in DOMAIN items |-> items[i].size] \in [DOMAIN items -> Nat]
      BY <1>3
    <2> QED
      BY <1>2, <2>1, TotalType DEF SizeOf
  <1>5. ASSUME NEW f PROVE SizeIn(items, f) \in Nat
    <2> DEFINE D == {j \in DOMAIN items : items[j].file = f}
    <2>1. IsFiniteSet(D)
      BY <1>2, FS_Subset
    <2>2. [i \in D |-> items[i].size] \in [D -> Nat]
      BY <1>3
    <2>3. Total([i \in D |-> items[i].size]) \in Nat
      <3> HIDE DEF D
      <3> QED
        BY <2>1, <2>2, TotalType
    <2> QED
      BY <2>3 DEF SizeIn
  <1> QED
    BY <1>4, <1>5

LEMMA FlushedTypes ==
  ASSUME TypeOK, NEW items \in Seq(Item), Flushed(items)
  PROVE  /\ sent' \in Nat /\ found' \in [Files -> Nat]
         /\ batch' \in Seq(Item) /\ timer' \in BOOLEAN /\ (timer' <=> batch' # <<>>)
  <1>1. \A f \in Files : found[f] \in Nat /\ SizeIn(items, f) \in Nat
    BY SizesType DEF TypeOK
  <1>2. sent \in Nat /\ SizeOf(items) \in Nat /\ found \in [Files -> Nat]
    BY SizesType DEF TypeOK
  <1>3. \A f \in Files : found[f] + SizeIn(items, f) \in Nat
    BY <1>1
  <1>4. sent' \in Nat /\ batch' = <<>> /\ timer' = FALSE
    BY <1>2 DEF Flushed
  <1>5. found' \in [Files -> Nat]
    BY <1>2, <1>3 DEF Flushed
  <1>6. <<>> \in Seq(Item) /\ FALSE \in BOOLEAN
    OBVIOUS
  <1>7. batch' \in Seq(Item) /\ timer' \in BOOLEAN
    BY <1>4, <1>6, Zenon
  <1>8. timer' <=> batch' # <<>>
    BY <1>4, Zenon
  <1> QED
    BY <1>4, <1>5, <1>7, <1>8

LEMMA TypesInit ==
  Init => TypeOK /\ Typed
  <1> SUFFICES ASSUME Init PROVE TypeOK
    BY TypedInit
  <1>1. Typed
    BY TypedInit
  <1>2. walker \in [Walkers -> Walker]
    BY <1>1, WorkerFields DEF Typed
  <1>3. <<>> \in Seq(Item) /\ found \in [Files -> Nat]
    BY DEF Init
  <1> QED
    BY <1>1, <1>2, <1>3 DEF Init, Typed, TypeOK

LEMMA TypesStep ==
  TypeOK /\ Typed /\ [Next]_vars => (TypeOK /\ Typed)'
  <1> SUFFICES ASSUME TypeOK, Typed, [Next]_vars PROVE TypeOK'
    BY TypedStep
  <1>1. Typed'
    BY TypedStep
  <1>2. walker' \in [Walkers -> Walker]
    BY <1>1, WorkerFields DEF Typed
  <1>3. UNCHANGED query
    BY DEF Next, vars, query, Cancel, Unlisten, Refuse, NextFolder, WalkEnds, Drain, Timeout,
           Complete, CollectorLeaves, Step, Visit, Read, ReadFails, Count, Mark, WalkerLeaves
  <1>4. ASSUME /\ stage' \in {"validating", "walking", "closed", "failed", "ended"}
               /\ sent' \in Nat /\ failed' \subseteq Item
               /\ cancelled' \in BOOLEAN /\ active' \in BOOLEAN
               /\ queue' \in Seq(Item) /\ batch' \in Seq(Item)
               /\ timer' \in BOOLEAN /\ (timer' <=> batch' # <<>>)
               /\ client' \in {"listening", "cancelled", "error", "success", "limited"}
               /\ found' \in [Files -> Nat]
        PROVE  TypeOK'
    BY <1>1, <1>2, <1>3, <1>4 DEF TypeOK, Typed, query
  <1> USE DEF query, walkVars, drainVars
  <1>5. CASE Cancel
    BY <1>4, <1>5 DEF Cancel, TypeOK
  <1>6. CASE Unlisten
    BY <1>4, <1>6 DEF Unlisten, TypeOK
  <1>7. CASE Refuse
    BY <1>4, <1>7 DEF Refuse, Settle, TypeOK
  <1>8. CASE NextFolder \/ WalkEnds
    BY <1>4, <1>8 DEF NextFolder, WalkEnds, TypeOK
  <1>9. CASE Drain
    <2>1. queue \in Seq(Item) /\ queue # <<>> /\ batch \in Seq(Item)
      BY <1>9 DEF Drain, TypeOK
    <2>2. PICK items \in Seq(Item) : items = Append(batch, Head(queue)) /\ items # <<>>
      <3>1. Head(queue) \in Item
        BY <2>1
      <3>2. Append(batch, Head(queue)) \in Seq(Item) /\ Append(batch, Head(queue)) # <<>>
        BY <2>1, <3>1
      <3> QED
        BY <3>2
    <2>3. queue' \in Seq(Item) /\ Added(items)
      <3>1. queue' = Tail(queue) /\ Added(items)
        BY <1>9, <2>2 DEF Drain
      <3> QED
        BY <2>1, <3>1
    <2>4. UNCHANGED <<stage, failed, cancelled, active, client>>
      BY <1>9 DEF Drain, CollectorLeaves
    <2>5. CASE Flushed(items)
      <3>1. /\ sent' \in Nat /\ found' \in [Files -> Nat]
            /\ batch' \in Seq(Item) /\ timer' \in BOOLEAN /\ (timer' <=> batch' # <<>>)
        BY <2>5, FlushedTypes
      <3> QED
        BY <1>4, <2>3, <2>4, <3>1 DEF TypeOK
    <2>6. CASE batch' = items /\ timer' = TRUE /\ UNCHANGED <<sent, found>>
      BY <1>4, <2>2, <2>3, <2>4, <2>6 DEF TypeOK
    <2> QED
      BY <2>3, <2>5, <2>6 DEF Added
  <1>10. CASE Timeout
    <2>1. Flushed(batch) /\ UNCHANGED <<stage, failed, cancelled, active, client, queue>>
      BY <1>10 DEF Timeout, CollectorLeaves
    <2>2. /\ sent' \in Nat /\ found' \in [Files -> Nat]
          /\ batch' \in Seq(Item) /\ timer' \in BOOLEAN /\ (timer' <=> batch' # <<>>)
      <3>1. batch \in Seq(Item)
        BY DEF TypeOK
      <3> QED
        BY <2>1, <3>1, FlushedTypes
    <2> QED
      BY <1>4, <2>1, <2>2 DEF TypeOK
  <1>11. CASE Complete
    <2>1. Flushed(batch) /\ UNCHANGED <<failed, cancelled, active, queue>> /\ stage' = "ended"
      BY <1>11 DEF Complete, CollectorLeaves
    <2>2. /\ sent' \in Nat /\ found' \in [Files -> Nat]
          /\ batch' \in Seq(Item) /\ timer' \in BOOLEAN /\ (timer' <=> batch' # <<>>)
      <3>1. batch \in Seq(Item)
        BY DEF TypeOK
      <3> QED
        BY <2>1, <3>1, FlushedTypes
    <2>3. client' \in {"listening", "cancelled", "error", "success", "limited"}
      BY <1>11 DEF Complete, Settle, Result, TypeOK
    <2> QED
      BY <1>4, <2>1, <2>2, <2>3 DEF TypeOK
  <1>12. ASSUME NEW w \in Walkers, Step(w) PROVE TypeOK'
    <2>1. UNCHANGED <<stage, batch, sent, timer, cancelled, active, client, found>>
      BY <1>12 DEF Step, Visit, Read, ReadFails, Count, Mark, WalkerLeaves
    <2>2. walker[w].got \in Nat /\ (walker[w].at \in {"read", "count"} => walker[w].file \in Files)
      BY WorkerFields DEF Typed, Busy
    <2>3. walker[w].at \in {"read", "count"} =>
            /\ [file |-> walker[w].file, size |-> walker[w].got] \in Item
            /\ [file |-> walker[w].file, size |-> 1] \in Item
      BY <2>2 DEF Item
    <2>4. queue' \in Seq(Item)
      <3>1. queue \in Seq(Item)
        BY DEF TypeOK
      <3>2. CASE Visit(w) \/ ReadFails(w) \/ Mark(w)
        BY <3>1, <3>2 DEF Visit, ReadFails, Mark
      <3>3. CASE Read(w)
        <4>1. /\ walker[w].at = "read"
              /\ \/ queue' = queue
                 \/ queue' = Append(queue, [file |-> walker[w].file, size |-> walker[w].got])
          BY <3>3, ReadMoves
        <4> QED
          BY <2>3, <3>1, <4>1
      <3>4. CASE Count(w)
        <4>1. /\ walker[w].at = "count"
              /\ \/ queue' = queue
                 \/ queue' = Append(queue, [file |-> walker[w].file, size |-> 1])
          BY <3>4, CountMoves
        <4> QED
          BY <2>3, <3>1, <4>1
      <3> QED
        BY <1>12, <3>2, <3>3, <3>4 DEF Step
    <2>5. failed' \subseteq Item
      BY <1>12, <2>3 DEF Step, Visit, Read, ReadFails, Count, Mark, TypeOK
    <2> QED
      BY <1>4, <2>1, <2>4, <2>5 DEF TypeOK
  <1>13. CASE UNCHANGED vars
    BY <1>4, <1>13 DEF vars, TypeOK
  <1> QED
    BY <1>5, <1>6, <1>7, <1>8, <1>9, <1>10, <1>11, <1>12, <1>13 DEF Next

\* A search's state has its type, and what waits in the collector's batch has
\* its deadline set (BatchedCollector, batch.rs).
THEOREM SearchTyped ==
  Spec => []TypeOK
  <1>1. Init => TypeOK /\ Typed
    BY TypesInit
  <1>2. TypeOK /\ Typed /\ [Next]_vars => (TypeOK /\ Typed)'
    BY TypesStep
  <1> QED
    BY <1>1, <1>2, PTL DEF Spec

(***************************************************************************)
(* What each stage of a search leaves behind, and what a client that is    *)
(* still listening can count on.                                           *)
(***************************************************************************)
ClientSteady ==
  /\ client = "listening" => ~cancelled /\ active
  /\ client \in {"success", "limited"} => stage = "ended"

\* Before and after the walk nothing waits, and no walker is at work.
StageSteady ==
  /\ stage \in {"validating", "ended"} => batch = <<>> /\ queue = <<>>
  /\ stage # "walking" => todo = {} /\ \A w \in Walkers : walker[w].at = "quit"
  /\ stage \in {"closed", "failed"} => rest = <<>>
  /\ stage = "walking" => Stop \/ \A w \in Walkers : walker[w].at # "quit"

\* The limit is stored only once it is reached.
LimitSteady ==
  /\ limitHit => AtLimit(results)
  /\ \A w \in Walkers : walker[w].at = "mark" => AtLimit(results)

LEMMA AtLimitMonotone ==
  ASSUME Typed, NEW m \in Nat, NEW n \in Nat, m <= n, AtLimit(m)
  PROVE  AtLimit(n)
  <1>1. max \in Nat
    BY DEF Typed
  <1>2. CASE kind = "text"
    BY <1>1, <1>2 DEF AtLimit
  <1>3. CASE kind = "file"
    BY <1>1, <1>3 DEF AtLimit
  <1>4. CASE kind = "exists"
    BY <1>4 DEF AtLimit
  <1> QED
    BY <1>2, <1>3, <1>4 DEF Typed, Kinds

LEMMA SteadyInit ==
  Init => ClientSteady /\ StageSteady /\ LimitSteady
  BY Shapes DEF Init, ClientSteady, StageSteady, LimitSteady

LEMMA ClientSteadyStep ==
  ClientSteady /\ [Next]_vars => ClientSteady'
  <1> SUFFICES ASSUME ClientSteady, [Next]_vars PROVE ClientSteady'
    OBVIOUS
  <1>1. CASE Cancel
    BY <1>1 DEF Cancel, ClientSteady
  <1>2. CASE Unlisten
    BY <1>2 DEF Unlisten, ClientSteady
  <1>3. CASE Refuse
    BY <1>3 DEF Refuse, Settle, ClientSteady
  <1>4. CASE NextFolder \/ WalkEnds
    BY <1>4 DEF NextFolder, WalkEnds, ClientSteady
  <1>5. CASE Drain \/ Timeout
    BY <1>5 DEF Drain, Timeout, CollectorLeaves, ClientSteady
  <1>6. CASE Complete
    BY <1>6 DEF Complete, Settle, Result, CollectorLeaves, ClientSteady
  <1>7. ASSUME NEW w \in Walkers, Step(w) PROVE ClientSteady'
    <2>1. UNCHANGED <<client, cancelled, active, stage>>
      BY <1>7 DEF Step, Visit, Read, ReadFails, Count, Mark, WalkerLeaves
    <2> QED
      BY <2>1 DEF ClientSteady
  <1>8. CASE UNCHANGED vars
    BY <1>8 DEF vars, ClientSteady
  <1> QED
    BY <1>1, <1>2, <1>3, <1>4, <1>5, <1>6, <1>7, <1>8 DEF Next

LEMMA StageSteadyStep ==
  TypeOK /\ Typed /\ StageSteady /\ [Next]_vars => StageSteady'
  <1> SUFFICES ASSUME TypeOK, Typed, StageSteady, [Next]_vars PROVE StageSteady'
    OBVIOUS
  <1>1. CASE Cancel
    BY <1>1 DEF Cancel, StageSteady, walkVars, drainVars, Stop
  <1>2. CASE Unlisten
    BY <1>2 DEF Unlisten, StageSteady, walkVars, drainVars, Stop
  <1>3. CASE Refuse
    BY <1>3 DEF Refuse, StageSteady, walkVars, drainVars
  <1>4. CASE NextFolder
    <2>1. stage' = "walking" /\ walker' = [w \in Walkers |-> Idle]
      BY <1>4 DEF NextFolder
    <2>2. \A w \in Walkers : walker'[w].at # "quit"
      BY <2>1, Shapes
    <2> QED
      BY <2>1, <2>2 DEF StageSteady
  <1>5. CASE WalkEnds
    <2>1. /\ stage' \in {"closed", "failed"} /\ walker' = [w \in Walkers |-> Gone]
          /\ todo' = {} /\ rest' = <<>>
      BY <1>5 DEF WalkEnds
    <2>2. \A w \in Walkers : walker'[w].at = "quit"
      BY <2>1, Shapes
    <2> QED
      BY <2>1, <2>2 DEF StageSteady
  <1>6. CASE Drain
    <2>1. stage' = stage /\ stage \notin {"validating", "ended"} /\ UNCHANGED <<walkVars, cancelled>>
      BY <1>6 DEF Drain, CollectorLeaves, StageSteady
    <2> QED
      BY <2>1 DEF StageSteady, walkVars, Stop
  <1>7. CASE Timeout
    <2>1. stage' = stage /\ UNCHANGED <<walkVars, cancelled, queue>> /\ batch' = <<>>
      BY <1>7 DEF Timeout, Flushed, CollectorLeaves
    <2> QED
      BY <2>1 DEF StageSteady, walkVars, Stop
  <1>8. CASE Complete
    <2>1. /\ stage' = "ended" /\ UNCHANGED <<walkVars, queue>> /\ batch' = <<>>
          /\ queue = <<>> /\ stage \in {"closed", "failed"}
      BY <1>8 DEF Complete, Flushed, CollectorLeaves
    <2> QED
      BY <2>1 DEF StageSteady, walkVars
  <1>9. ASSUME NEW w \in Walkers, Step(w) PROVE StageSteady'
    <2>1. UNCHANGED <<stage, cancelled>>
      BY <1>9 DEF Step, Visit, Read, ReadFails, Count, Mark, WalkerLeaves
    <2>2. walker[w].at # "quit"
      BY <1>9 DEF Step, Visit, Read, ReadFails, Count, Mark
    <2>3. stage = "walking"
      BY <2>2 DEF StageSteady
    <2>4. limitHit => limitHit'
      BY <1>9 DEF Step, Visit, Read, ReadFails, Count, Mark
    <2>5. PICK s \in Worker : Becomes(w, s) /\ (s.at = "quit" => Stop \/ limitHit')
      <3>1. CASE Visit(w)
        BY <3>1, VisitMoves, Shapes DEF Typed
      <3>2. CASE Read(w)
        BY <3>2, ReadMoves, Shapes
      <3>3. CASE ReadFails(w)
        BY <3>3, Shapes DEF ReadFails
      <3>4. CASE Count(w)
        <4>1. PICK s \in Worker : Becomes(w, s) /\ s.at \in {"idle", "mark", "read"}
          BY <3>4, CountMoves, Shapes
        <4> QED
          BY <4>1
      <3>5. CASE Mark(w)
        <4>1. limitHit'
          BY <3>5 DEF Mark
        <4> QED
          BY <3>5, <4>1, MarkMoves
      <3> QED
        BY <1>9, <3>1, <3>2, <3>3, <3>4, <3>5 DEF Step
    <2>6. Stop' \/ \A v \in Walkers : walker'[v].at # "quit"
      <3> SUFFICES ASSUME ~Stop' PROVE \A v \in Walkers : walker'[v].at # "quit"
        OBVIOUS
      <3>1. ~Stop /\ ~limitHit'
        BY <2>1, <2>4 DEF Stop
      <3>2. \A v \in Walkers : walker[v].at # "quit"
        BY <2>3, <3>1 DEF StageSteady
      <3> QED
        BY <2>5, <3>1, <3>2 DEF Becomes, Typed
    <2> QED
      BY <2>1, <2>3, <2>6 DEF StageSteady
  <1>10. CASE UNCHANGED vars
    BY <1>10 DEF vars, StageSteady, walkVars, drainVars, Stop
  <1> QED
    BY <1>1, <1>2, <1>3, <1>4, <1>5, <1>6, <1>7, <1>8, <1>9, <1>10 DEF Next

LEMMA LimitSteadyStep ==
  Typed /\ LimitSteady /\ [Next]_vars => LimitSteady'
  <1> SUFFICES ASSUME Typed, LimitSteady, [Next]_vars PROVE LimitSteady'
    OBVIOUS
  <1>1. CASE UNCHANGED <<query, walker, results, limitHit>>
    BY <1>1 DEF LimitSteady, AtLimit, query
  <1>2. CASE NextFolder \/ WalkEnds
    <2>1. UNCHANGED <<query, results, limitHit>>
      BY <1>2 DEF NextFolder, WalkEnds
    <2>2. \A w \in Walkers : walker'[w].at # "mark"
      BY <1>2, Shapes DEF NextFolder, WalkEnds
    <2> QED
      BY <2>1, <2>2 DEF LimitSteady, AtLimit, query
  <1>3. ASSUME NEW w \in Walkers, Step(w) PROVE LimitSteady'
    <2>1. UNCHANGED query
      BY <1>3 DEF Step, Visit, Read, ReadFails, Count, Mark, WalkerLeaves
    <2>2. PICK s \in Worker : /\ Becomes(w, s)
                              /\ s.at = "mark" => AtLimit(results + 1) /\ results' = results + 1
      <3>1. CASE Visit(w)
        <4>1. PICK s \in Worker : Becomes(w, s) /\ s.at \in {"idle", "quit", "read", "count"}
          BY <3>1, VisitMoves, Shapes DEF Typed
        <4> QED
          BY <4>1
      <3>2. CASE Read(w)
        <4>1. PICK s \in Worker : Becomes(w, s) /\ s.at \in {"idle", "count"}
          BY <3>2, ReadMoves, Shapes
        <4> QED
          BY <4>1
      <3>3. CASE ReadFails(w)
        BY <3>3, Shapes DEF ReadFails
      <3>4. CASE Count(w)
        <4>1. results' = results + 1
          BY <3>4 DEF Count
        <4>2. PICK s \in Worker : Becomes(w, s) /\ (s.at = "mark" => AtLimit(results + 1))
          BY <3>4, CountMoves, Shapes
        <4> QED
          BY <4>1, <4>2
      <3>5. CASE Mark(w)
        <4>1. PICK s \in Worker : Becomes(w, s) /\ s.at \in {"read", "quit"}
          BY <3>5, MarkMoves, Shapes
        <4> QED
          BY <4>1
      <3> QED
        BY <1>3, <3>1, <3>2, <3>3, <3>4, <3>5 DEF Step
    <2>3. /\ results \in Nat /\ results' \in Nat /\ results <= results'
          /\ results + 1 \in Nat
      BY <1>3 DEF Typed, Step, Visit, Read, ReadFails, Count, Mark
    <2>4. AtLimit(results) => AtLimit(results')
      BY <2>3, AtLimitMonotone
    <2>5. limitHit' => limitHit \/ AtLimit(results)
      BY <1>3 DEF Step, Visit, Read, ReadFails, Count, Mark, LimitSteady
    <2>6. AtLimit(results)' <=> AtLimit(results')
      BY <2>1 DEF AtLimit, query
    <2>7. ASSUME NEW v \in Walkers, walker'[v].at = "mark" PROVE AtLimit(results')
      <3>1. walker' = [walker EXCEPT ![w] = s] /\ walker \in [Walkers -> Worker]
        BY <2>2 DEF Becomes, Typed
      <3>2. CASE v = w
        BY <2>2, <2>7, <3>1, <3>2
      <3>3. CASE v # w
        BY <2>4, <2>7, <3>1, <3>3 DEF LimitSteady
      <3> QED
        BY <3>2, <3>3
    <2> QED
      BY <2>4, <2>5, <2>6, <2>7 DEF LimitSteady
  <1>4. CASE Cancel \/ Unlisten \/ Refuse \/ Drain \/ Timeout \/ Complete \/ UNCHANGED vars
    <2>1. UNCHANGED <<query, walker, results, limitHit>>
      BY <1>4 DEF Cancel, Unlisten, Refuse, Drain, Timeout, Complete, CollectorLeaves,
                  vars, walkVars, query
    <2> QED
      BY <1>1, <2>1
  <1> QED
    BY <1>2, <1>3, <1>4 DEF Next

(***************************************************************************)
(* The ledger.  While the client listens each file is in one place p[f]:   *)
(* ahead of the walkers, held by one, on its way, given to the client,     *)
(* failed, or gone with nothing in it; and c[f] of its results have been   *)
(* counted and not withheld.                                               *)
(***************************************************************************)
Places == {"ahead", "held", "sent", "given", "failed", "gone"}

Line == batch \o queue
Going == ~limitHit /\ stage # "failed"
Passed == IF kind = "text" \/ results <= Allowed THEN results ELSE Allowed

Ahead(f) == f \in todo \/ \E i \in DOMAIN rest : f \in rest[i]
AheadPart(p) ==
  /\ \A f \in Files : p[f] = "ahead" <=> Ahead(f)
  /\ \A i \in DOMAIN rest : rest[i] \cap todo = {}
  /\ \A i, j \in DOMAIN rest : i # j => rest[i] \cap rest[j] = {}

\* A walker at a file knows what it has counted there and what is left.
Carries(k, s, n) ==
  IF k = "text"
  THEN /\ s.got = n
       /\ Matches[s.file] = s.got + s.left + (IF s.at = "count" THEN 1 ELSE 0)
  ELSE n = 0 /\ Matches[s.file] # 0 /\ s.at # "read"

Holds(w, f) == walker[w].at \in Busy /\ walker[w].file = f
HeldPart(p, c) ==
  /\ \A f \in Files : p[f] = "held" <=> \E w \in Walkers : Holds(w, f)
  /\ \A v, w \in Walkers : \A f \in Files : Holds(v, f) /\ Holds(w, f) => v = w
  /\ \A w \in Walkers : walker[w].at \in Busy => Carries(kind, walker[w], c[walker[w].file])

\* A file is sent once, with all that was counted in it.
Queued(line, p, c) ==
  /\ \A f \in Files : p[f] = "sent" <=> \E i \in DOMAIN line : line[i].file = f
  /\ \A i, j \in DOMAIN line : line[i].file = line[j].file => i = j
  /\ \A i \in DOMAIN line : line[i].size = c[line[i].file] /\ line[i].size # 0

FoundPart(p, c) ==
  \A f \in Files : (p[f] = "given" <=> found[f] # 0) /\ (p[f] = "given" => c[f] = found[f])

FailedPart(p, c) ==
  /\ \A f \in Files : p[f] = "failed" <=> Unread(f)
  /\ \A e \in failed : c[e.file] = e.size
  /\ failed # {} => kind = "text"

EmptyPart(p, c) == \A f \in Files : p[f] \in {"ahead", "gone"} => c[f] = 0

\* Until the search is stopped, no file leaves a walker before its end.
WholePart(p, c) ==
  Going => \A f \in Files : /\ p[f] \in {"sent", "given"} => c[f] = Expected(f)
                            /\ p[f] = "gone" => Matches[f] = 0

Entries(p, c) == p \in [Files -> Places] /\ c \in [Files -> Nat]

Books(p, c) ==
  /\ Entries(p, c) /\ EmptyPart(p, c) /\ WholePart(p, c)
  /\ AheadPart(p) /\ HeldPart(p, c) /\ Queued(Line, p, c)
  /\ FoundPart(p, c) /\ FailedPart(p, c)
  /\ Total(c) = Passed

\* The files that are at a have not moved, nor has anything been counted in them.
Keep(p, c, q, d, a) ==
  \A f \in Files : (q[f] = a <=> p[f] = a) /\ (p[f] = a => d[f] = c[f])

LEMMA AheadKept ==
  ASSUME NEW p, NEW c, NEW q, NEW d, AheadPart(p), Keep(p, c, q, d, "ahead"),
         UNCHANGED <<todo, rest>>
  PROVE  AheadPart(q)'
  BY DEF AheadPart, Keep, Ahead

LEMMA HeldKept ==
  ASSUME Typed, NEW p, NEW c, NEW q, NEW d, HeldPart(p, c), Keep(p, c, q, d, "held"),
         UNCHANGED <<kind, walker>>
  PROVE  HeldPart(q, d)'
  <1>1. \A f \in Files : q[f] = "held" <=> \E w \in Walkers : Holds(w, f)
    BY DEF HeldPart, Keep
  <1>2. ASSUME NEW w \in Walkers, walker[w].at \in Busy
        PROVE  Carries(kind, walker[w], d[walker[w].file])
    <2>1. walker[w].file \in Files /\ Holds(w, walker[w].file)
      BY <1>2, WorkerFields DEF Typed, Holds
    <2>2. d[walker[w].file] = c[walker[w].file]
      BY <2>1 DEF HeldPart, Keep
    <2> QED
      BY <1>2, <2>2 DEF HeldPart
  <1> QED
    BY <1>1, <1>2 DEF HeldPart, Holds

LEMMA QueuedKept ==
  ASSUME NEW line \in Seq(Item), NEW p, NEW c, NEW q, NEW d,
         Queued(line, p, c), Keep(p, c, q, d, "sent")
  PROVE  Queued(line, q, d)
  <1>1. \A i \in DOMAIN line : line[i] \in Item
    OBVIOUS
  <1>2. \A i \in DOMAIN line : line[i].file \in Files
    BY <1>1 DEF Item
  <1> QED
    BY <1>2 DEF Queued, Keep

LEMMA FoundKept ==
  ASSUME NEW p, NEW c, NEW q, NEW d, FoundPart(p, c), Keep(p, c, q, d, "given"),
         UNCHANGED found
  PROVE  FoundPart(q, d)'
  BY DEF FoundPart, Keep

LEMMA FailedKept ==
  ASSUME TypeOK, NEW p, NEW c, NEW q, NEW d, FailedPart(p, c), Keep(p, c, q, d, "failed"),
         UNCHANGED <<failed, kind>>
  PROVE  FailedPart(q, d)'
  <1>1. \A e \in failed : e.file \in Files /\ Unread(e.file)
    BY DEF TypeOK, Item, Unread
  <1> QED
    BY <1>1 DEF FailedPart, Keep, Unread

\* What moves of the ledger when one file moves from its place to another.
LEMMA FileMoves ==
  ASSUME NEW p, NEW c, Entries(p, c), EmptyPart(p, c), WholePart(p, c), NEW f \in Files,
         NEW q \in [Files -> Places], NEW d \in [Files -> Nat],
         \A x \in Files \ {f} : q[x] = p[x] /\ d[x] = c[x],
         UNCHANGED kind, Going' => Going,
         q[f] \in {"ahead", "gone"} => d[f] = 0,
         Going' => /\ q[f] \in {"sent", "given"} => d[f] = Expected(f)
                   /\ q[f] = "gone" => Matches[f] = 0
  PROVE  /\ Entries(q, d) /\ EmptyPart(q, d) /\ WholePart(q, d)'
         /\ \A a : a # q[f] /\ a # p[f] => Keep(p, c, q, d, a)
  <1>1. Entries(q, d)
    BY DEF Entries
  <1>2. EmptyPart(q, d)
    BY DEF EmptyPart
  <1>3. \A x : Expected(x)' = Expected(x)
    BY DEF Expected
  <1>4. WholePart(q, d)'
    <2> SUFFICES ASSUME Going', NEW x \in Files
                 PROVE  /\ q[x] \in {"sent", "given"} => d[x] = Expected(x)'
                        /\ q[x] = "gone" => Matches[x] = 0
      BY DEF WholePart
    <2>1. CASE x = f
      BY <1>3, <2>1
    <2>2. CASE x # f
      BY <1>3, <2>2 DEF WholePart
    <2> QED
      BY <2>1, <2>2
  <1>5. ASSUME NEW a, a # q[f], a # p[f] PROVE Keep(p, c, q, d, a)
    <2> SUFFICES ASSUME NEW x \in Files PROVE (q[x] = a <=> p[x] = a) /\ (p[x] = a => d[x] = c[x])
      BY DEF Keep
    <2>1. CASE x = f
      BY <1>5, <2>1
    <2>2. CASE x # f
      BY <2>2
    <2> QED
      BY <2>1, <2>2
  <1> QED
    BY <1>1, <1>2, <1>4, <1>5

LEMMA HeldMoves ==
  ASSUME Typed, NEW p, NEW c, NEW q, NEW d, HeldPart(p, c), UNCHANGED kind,
         NEW w \in Walkers, NEW s \in Worker, Becomes(w, s), NEW f \in Files,
         walker[w].at \in Busy => walker[w].file = f,
         walker[w].at \in Busy \/ p[f] # "held",
         s.at \in Busy => s.file = f /\ Carries(kind, s, d[f]),
         \A x \in Files \ {f} : q[x] = p[x] /\ d[x] = c[x],
         q[f] = "held" <=> s.at \in Busy
  PROVE  HeldPart(q, d)'
  <1>1. /\ walker' = [walker EXCEPT ![w] = s] /\ walker \in [Walkers -> Worker]
        /\ walker' \in [Walkers -> Worker] /\ walker'[w] = s
        /\ \A v \in Walkers \ {w} : walker'[v] = walker[v]
    BY DEF Becomes, Typed
  <1>2. /\ \A x : Holds(w, x)' <=> s.at \in Busy /\ s.file = x
        /\ \A v \in Walkers \ {w} : \A x : Holds(v, x)' <=> Holds(v, x)
    BY <1>1 DEF Holds
  <1>3. ASSUME NEW v \in Walkers \ {w} PROVE ~Holds(v, f)
    <2>1. walker[w].at \in Busy => Holds(w, f)
      BY DEF Holds
    <2> QED
      BY <1>3, <2>1 DEF HeldPart
  <1>4. ASSUME NEW x \in Files PROVE q[x] = "held" <=> \E v \in Walkers : Holds(v, x)'
    <2>1. CASE x = f
      BY <1>2, <1>3, <2>1
    <2>2. CASE x # f
      <3>1. ~Holds(w, x) /\ ~Holds(w, x)'
        BY <1>2, <2>2 DEF Holds
      <3>2. \A v \in Walkers : Holds(v, x)' <=> Holds(v, x)
        BY <1>2, <3>1
      <3> QED
        BY <2>2, <3>2 DEF HeldPart
    <2> QED
      BY <2>1, <2>2
  <1>5. ASSUME NEW u \in Walkers, NEW v \in Walkers, NEW x \in Files, Holds(u, x)', Holds(v, x)'
        PROVE  u = v
    <2>1. CASE x = f
      BY <1>2, <1>3, <1>5, <2>1
    <2>2. CASE x # f
      <3>1. u # w /\ v # w
        BY <1>2, <1>5, <2>2
      <3>2. Holds(u, x) /\ Holds(v, x)
        BY <1>2, <1>5, <3>1
      <3> QED
        BY <3>2 DEF HeldPart
    <2> QED
      BY <2>1, <2>2
  <1>6. ASSUME NEW v \in Walkers, walker'[v].at \in Busy
        PROVE  Carries(kind', walker'[v], d[walker'[v].file])
    <2>1. CASE v = w
      BY <1>1, <1>6, <2>1
    <2>2. CASE v # w
      <3>1. walker'[v] = walker[v] /\ walker[v].at \in Busy
        BY <1>1, <1>6, <2>2
      <3>2. walker[v].file \in Files /\ walker[v].file # f
        <4>1. walker[v].file \in Files
          BY <3>1, <1>1, WorkerFields
        <4>2. Holds(v, walker[v].file)
          BY <3>1 DEF Holds
        <4> QED
          BY <1>3, <2>2, <4>1, <4>2
      <3>3. Carries(kind, walker[v], c[walker[v].file])
        BY <3>1 DEF HeldPart
      <3> QED
        BY <3>1, <3>2, <3>3
    <2> QED
      BY <2>1, <2>2
  <1> QED
    BY <1>4, <1>5, <1>6 DEF HeldPart

\* A walker that holds no file moves, and holds none.
LEMMA HeldIdle ==
  ASSUME Typed, NEW p, NEW c, HeldPart(p, c), UNCHANGED kind,
         NEW w \in Walkers, NEW s \in Worker, Becomes(w, s),
         walker[w].at \notin Busy, s.at \notin Busy
  PROVE  HeldPart(p, c)'
  <1>1. /\ walker' = [walker EXCEPT ![w] = s] /\ walker \in [Walkers -> Worker]
        /\ walker'[w] = s /\ \A v \in Walkers \ {w} : walker'[v] = walker[v]
    BY DEF Becomes, Typed
  <1>2. \A v \in Walkers : \A x : Holds(v, x)' <=> Holds(v, x)
    BY <1>1 DEF Holds
  <1>3. \A v \in Walkers : walker'[v].at \in Busy => walker'[v] = walker[v]
    BY <1>1
  <1> QED
    BY <1>2, <1>3 DEF HeldPart

(***************************************************************************)
(* The line of the items that are sent and not given: the collector's      *)
(* batch, then the queue.                                                  *)
(***************************************************************************)
LEMMA LineGrows ==
  ASSUME NEW s \in Seq(Item), NEW t \in Seq(Item), NEW e \in Item
  PROVE  s \o Append(t, e) = Append(s \o t, e)
  OBVIOUS

LEMMA LineShifts ==
  ASSUME NEW s \in Seq(Item), NEW t \in Seq(Item), t # <<>>
  PROVE  /\ Append(s, Head(t)) \in Seq(Item) /\ Tail(t) \in Seq(Item)
         /\ Append(s, Head(t)) \o Tail(t) = s \o t
  <1>1. Head(t) \in Item /\ Tail(t) \in Seq(Item)
    OBVIOUS
  <1>2. PICK h \in Item, u \in Seq(Item) : h = Head(t) /\ u = Tail(t)
    BY <1>1
  <1>3. /\ Len(u) + 1 = Len(t) /\ t[1] = h
        /\ \A i \in 1..Len(u) : u[i] = t[i + 1]
    BY <1>2
  <1>4. PICK a \in Seq(Item) : a = Append(s, h)
    <2>1. Append(s, h) \in Seq(Item)
      OBVIOUS
    <2> QED
      BY <2>1
  <1>5. /\ Len(a) = Len(s) + 1 /\ a[Len(s) + 1] = h
        /\ \A i \in 1..Len(s) : a[i] = s[i]
    BY <1>4
  <1>6. /\ a \o u \in Seq(Item) /\ s \o t \in Seq(Item)
        /\ Len(a \o u) = Len(a) + Len(u) /\ Len(s \o t) = Len(s) + Len(t)
    OBVIOUS
  <1>7. Len(a \o u) = Len(s \o t)
    <2>1. Len(s) \in Nat /\ Len(t) \in Nat /\ Len(u) \in Nat
      OBVIOUS
    <2>2. Len(s) + 1 + Len(u) = Len(s) + Len(t)
      BY <1>3, <2>1
    <2> QED
      BY <1>5, <1>6, <2>2
  <1>8. ASSUME NEW i \in 1..Len(s \o t) PROVE (a \o u)[i] = (s \o t)[i]
    <2>1. CASE i <= Len(s)
      <3>1. (a \o u)[i] = a[i] /\ (s \o t)[i] = s[i]
        BY <1>5, <1>6, <1>8, <2>1
      <3> QED
        BY <1>5, <1>6, <1>8, <2>1, <3>1
    <2>2. CASE i = Len(s) + 1
      <3>1. (a \o u)[i] = a[i] /\ (s \o t)[i] = t[1]
        BY <1>5, <1>6, <1>8, <2>2
      <3> QED
        BY <1>3, <1>5, <2>2, <3>1
    <2>3. CASE i > Len(s) + 1
      <3>1. (a \o u)[i] = u[i - Len(s) - 1] /\ (s \o t)[i] = t[i - Len(s)]
        BY <1>3, <1>5, <1>6, <1>8, <2>3
      <3>2. i - Len(s) - 1 \in 1..Len(u) /\ (i - Len(s) - 1) + 1 = i - Len(s)
        BY <1>3, <1>6, <1>8, <2>3
      <3> QED
        BY <1>3, <3>1, <3>2
    <2>4. i \in Nat /\ Len(s) \in Nat
      BY <1>6, <1>8
    <2>5. i <= Len(s) \/ i = Len(s) + 1 \/ i > Len(s) + 1
      BY <2>4
    <2> QED
      BY <2>1, <2>2, <2>3, <2>5
  <1>9. a \o u = s \o t
    BY <1>6, <1>7, <1>8
  <1> QED
    BY <1>1, <1>2, <1>4, <1>9

LEMMA QueuedMore ==
  ASSUME NEW line \in Seq(Item), NEW e \in Item, NEW p, NEW c, NEW q, NEW d,
         Queued(line, p, c), p[e.file] # "sent", q[e.file] = "sent",
         d[e.file] = e.size, e.size # 0,
         \A x \in Files \ {e.file} : q[x] = p[x] /\ d[x] = c[x]
  PROVE  Queued(Append(line, e), q, d)
  <1> DEFINE more == Append(line, e)
  <1>1. PICK n \in Nat : n = Len(line) /\ DOMAIN line = 1..n
    OBVIOUS
  <1>2. /\ DOMAIN more = 1..(n + 1) /\ more[n + 1] = e
        /\ \A i \in 1..n : more[i] = line[i] /\ line[i] \in Item
    BY <1>1
  <1>3. \A i \in 1..n : line[i].file \in Files
    BY <1>2 DEF Item
  <1>4. e.file \in Files
    BY DEF Item
  <1>5. \A i \in 1..n : line[i].file # e.file
    BY <1>1, <1>4 DEF Queued
  <1>6. \A i \in 1..(n + 1) : i = n + 1 \/ i \in 1..n
    OBVIOUS
  <1>7. n + 1 \in 1..(n + 1) /\ \A i \in 1..n : i \in 1..(n + 1)
    OBVIOUS
  <1> HIDE DEF more
  <1>8. ASSUME NEW f \in Files
        PROVE  q[f] = "sent" <=> \E i \in DOMAIN more : more[i].file = f
    <2>1. CASE f = e.file
      BY <1>2, <1>7, <2>1
    <2>2. CASE f # e.file
      <3>1. q[f] = "sent" <=> \E i \in 1..n : line[i].file = f
        BY <1>1, <2>2 DEF Queued
      <3> QED
        BY <1>2, <1>6, <1>7, <2>2, <3>1
    <2> QED
      BY <2>1, <2>2
  <1>9. ASSUME NEW i \in DOMAIN more, NEW j \in DOMAIN more, more[i].file = more[j].file
        PROVE  i = j
    <2>1. CASE i \in 1..n /\ j \in 1..n
      BY <1>1, <1>2, <1>9, <2>1 DEF Queued
    <2> QED
      BY <1>2, <1>5, <1>6, <1>9, <2>1
  <1>10. ASSUME NEW i \in DOMAIN more
         PROVE  more[i].size = d[more[i].file] /\ more[i].size # 0
    <2>1. CASE i \in 1..n
      BY <1>1, <1>2, <1>3, <1>5, <2>1 DEF Queued
    <2>2. CASE i = n + 1
      BY <1>2, <2>2
    <2> QED
      BY <1>2, <1>6, <2>1, <2>2
  <1>11. Queued(more, q, d)
    BY <1>8, <1>9, <1>10 DEF Queued
  <1> QED
    BY <1>11 DEF more

\* What a flush of the first items of the line gives the client of each file:
\* all that was counted in it, or nothing.
LEMMA QueuedLess ==
  ASSUME NEW items \in Seq(Item), NEW later \in Seq(Item), NEW p, NEW c,
         Entries(p, c), Queued(items \o later, p, c),
         NEW q, \A f \in Files : q[f] = IF \E i \in DOMAIN items : items[i].file = f
                                         THEN "given" ELSE p[f]
  PROVE  /\ Queued(later, q, c)
         /\ \A f \in Files :
              \/ q[f] = "given" /\ p[f] = "sent" /\ SizeIn(items, f) = c[f] /\ c[f] # 0
              \/ q[f] = p[f] /\ SizeIn(items, f) = 0
  <1> DEFINE line == items \o later
  <1>1. PICK m \in Nat, n \in Nat : m = Len(items) /\ n = Len(later)
    OBVIOUS
  <1>2. /\ DOMAIN items = 1..m /\ DOMAIN later = 1..n /\ DOMAIN line = 1..(m + n)
        /\ \A i \in 1..m : items[i] = line[i] /\ items[i] \in Item
        /\ \A i \in 1..n : later[i] = line[m + i] /\ later[i] \in Item
    BY <1>1
  <1>3. /\ \A i \in 1..m : i \in 1..(m + n)
        /\ \A i \in 1..n : m + i \in 1..(m + n) /\ m + i \notin 1..m
        /\ \A k \in 1..(m + n) : k \in 1..m \/ \E i \in 1..n : k = m + i
        /\ \A i, j \in 1..n : m + i = m + j => i = j
    <2>1. \A k \in 1..(m + n) : k \in 1..m \/ (k - m \in 1..n /\ k = m + (k - m))
      OBVIOUS
    <2> QED
      BY <2>1
  <1>4. /\ \A f \in Files : p[f] = "sent" <=> \E i \in 1..(m + n) : line[i].file = f
        /\ \A i, j \in 1..(m + n) : line[i].file = line[j].file => i = j
        /\ \A i \in 1..(m + n) : line[i].size = c[line[i].file] /\ line[i].size # 0
    BY <1>2 DEF Queued
  <1> HIDE DEF line
  <1>5. \A f \in Files : q[f] = IF \E i \in 1..m : items[i].file = f THEN "given" ELSE p[f]
    BY <1>2
  <1>6. Queued(later, q, c)
    <2>1. ASSUME NEW f \in Files PROVE q[f] = "sent" <=> \E i \in 1..n : later[i].file = f
      <3>1. CASE \E i \in 1..m : items[i].file = f
        <4>1. PICK i \in 1..m : line[i].file = f
          BY <1>2, <3>1
        <4>2. ASSUME NEW j \in 1..n PROVE later[j].file # f
          <5>1. m + j \in 1..(m + n) /\ m + j # i /\ i \in 1..(m + n)
            BY <1>3, <4>1
          <5>2. line[m + j].file # f
            BY <1>4, <4>1, <5>1
          <5> QED
            BY <1>2, <5>2
        <4>3. q[f] = "given"
          BY <1>5, <3>1
        <4> QED
          BY <4>2, <4>3
      <3>2. CASE ~\E i \in 1..m : items[i].file = f
        <4>1. ASSUME NEW k \in 1..(m + n), line[k].file = f
              PROVE  \E i \in 1..n : later[i].file = f
          <5>1. k \notin 1..m
            BY <1>2, <3>2, <4>1
          <5>2. PICK i \in 1..n : k = m + i
            BY <1>3, <5>1
          <5> QED
            BY <1>2, <4>1, <5>2
        <4>2. ASSUME NEW i \in 1..n, later[i].file = f
              PROVE  \E k \in 1..(m + n) : line[k].file = f
          BY <1>2, <1>3, <4>2
        <4>3. q[f] = p[f]
          BY <1>5, <3>2
        <4> QED
          BY <1>4, <4>1, <4>2, <4>3
      <3> QED
        BY <3>1, <3>2
    <2>2. \A i, j \in 1..n : later[i].file = later[j].file => i = j
      BY <1>2, <1>3, <1>4
    <2>3. \A i \in 1..n : later[i].size = c[later[i].file] /\ later[i].size # 0
      BY <1>2, <1>3, <1>4
    <2> QED
      BY <1>2, <2>1, <2>2, <2>3 DEF Queued
  <1>7. ASSUME NEW f \in Files
        PROVE  \/ q[f] = "given" /\ p[f] = "sent" /\ SizeIn(items, f) = c[f] /\ c[f] # 0
               \/ q[f] = p[f] /\ SizeIn(items, f) = 0
    <2> DEFINE D == {j \in DOMAIN items : items[j].file = f}
               sizes == [i \in D |-> items[i].size]
    <2>1. SizeIn(items, f) = Total(sizes)
      BY DEF SizeIn
    <2>2. CASE \E i \in 1..m : items[i].file = f
      <3>1. PICK k \in 1..m : items[k].file = f
        BY <2>2
      <3>2. D = {k}
        BY <1>2, <1>3, <1>4, <3>1
      <3>3. /\ items[k].size \in Nat /\ items[k].size = c[f] /\ c[f] # 0
            /\ p[f] = "sent" /\ q[f] = "given"
        <4>1. items[k].size \in Nat /\ items[k] = line[k] /\ k \in 1..(m + n)
          BY <1>2, <1>3 DEF Item
        <4>2. items[k].size = c[f] /\ c[f] # 0 /\ p[f] = "sent"
          BY <1>4, <3>1, <4>1
        <4>3. q[f] = "given"
          BY <1>5, <3>1
        <4> QED
          BY <4>1, <4>2, <4>3
      <3>4. sizes \in [{k} -> Nat] /\ sizes[k] = c[f]
        BY <3>2, <3>3
      <3>5. Total(sizes) = c[f]
        <4> HIDE DEF sizes
        <4> QED
          BY <3>4, TotalOfOne
      <3> QED
        BY <2>1, <3>3, <3>5
    <2>3. CASE ~\E i \in 1..m : items[i].file = f
      <3>1. D = {} /\ q[f] = p[f]
        BY <1>2, <1>5, <2>3
      <3>2. sizes \in [{} -> Nat]
        BY <3>1
      <3>3. Total(sizes) = 0
        <4> HIDE DEF sizes
        <4> QED
          BY <3>2, TotalEmpty
      <3> QED
        BY <2>1, <3>1, <3>3
    <2> QED
      BY <2>2, <2>3
  <1> QED
    BY <1>6, <1>7

(***************************************************************************)
(* The ledger is kept by every step that leaves the client listening.      *)
(***************************************************************************)
LEMMA PassedSame ==
  UNCHANGED <<query, results>> => Passed' = Passed
  BY DEF query, Passed, Allowed

\* A result is passed on, or is the one past the limit that is withheld.
LEMMA PassedCounts ==
  ASSUME Typed, UNCHANGED query, results' = results + 1
  PROVE  /\ kind = "text" \/ ~AtLimit(results + 1) => Passed' = Passed + 1
         /\ kind # "text" /\ AtLimit(results + 1) => Passed' = Passed
  <1>1. results \in Nat /\ max \in Nat /\ Allowed \in Nat /\ Allowed' = Allowed /\ kind' = kind
    BY AllowedType DEF Typed, query, Allowed
  <1>2. CASE kind = "text"
    BY <1>1, <1>2 DEF Passed
  <1>3. CASE kind # "text" /\ ~AtLimit(results + 1)
    <2>1. results + 1 <= Allowed
      BY <1>3, BelowLimit
    <2> QED
      BY <1>1, <1>3, <2>1 DEF Passed
  <1>4. CASE kind # "text" /\ AtLimit(results + 1)
    <2>1. Allowed <= results
      <3>1. CASE kind = "file"
        BY <1>1, <1>4, <3>1 DEF AtLimit, Allowed
      <3>2. CASE kind = "exists"
        BY <1>1, <3>2 DEF Allowed
      <3> QED
        BY <1>4, <3>1, <3>2 DEF Typed, Kinds
    <2> QED
      BY <1>1, <1>4, <2>1 DEF Passed
  <1> QED
    BY <1>2, <1>3, <1>4

LEMMA LineType ==
  ASSUME TypeOK
  PROVE  batch \in Seq(Item) /\ queue \in Seq(Item) /\ Line \in Seq(Item)
  BY DEF TypeOK, Line

LEMMA LedgerStays ==
  ASSUME NEW p, NEW c, Books(p, c), Line' = Line,
         UNCHANGED <<query, stage, walkVars, found>>
  PROVE  Books(p, c)'
  <1> USE DEF query, walkVars
  <1>1. WholePart(p, c)' /\ AheadPart(p)' /\ HeldPart(p, c)'
    BY DEF Books, WholePart, Going, Expected, AheadPart, Ahead, HeldPart, Holds
  <1>2. FoundPart(p, c)' /\ FailedPart(p, c)'
    BY DEF Books, FoundPart, FailedPart, Unread
  <1>3. Queued(Line', p, c) /\ Total(c) = Passed'
    BY PassedSame DEF Books
  <1> QED
    BY <1>1, <1>2, <1>3 DEF Books

\* A walker does something with the file it holds, and moves it to b.
LEMMA LedgerWalker ==
  ASSUME TypeOK, Typed, NEW p, NEW c, Books(p, c), WalkerLeaves, UNCHANGED todo,
         NEW w \in Walkers, NEW s \in Worker, Becomes(w, s),
         NEW f \in Files, walker[w].at \in Busy, walker[w].file = f,
         NEW b \in {"held", "sent", "failed", "gone"}, b = "held" <=> s.at \in Busy,
         NEW d \in [Files -> Nat], \A x \in Files \ {f} : d[x] = c[x],
         s.at \in Busy => s.file = f /\ Carries(kind, s, d[f]),
         queue' = IF b = "sent" THEN Append(queue, [file |-> f, size |-> d[f]]) ELSE queue,
         b = "sent" => d[f] # 0,
         failed' = IF b = "failed" THEN failed \cup {[file |-> f, size |-> d[f]]} ELSE failed,
         b = "failed" => kind = "text",
         b = "gone" => d[f] = 0,
         Going' => /\ Going
                   /\ b = "sent" => d[f] = Expected(f)
                   /\ b = "gone" => Matches[f] = 0,
         Total(d) = Passed'
  PROVE  \E q : Books(q, d)'
  <1>1. /\ Entries(p, c) /\ EmptyPart(p, c) /\ WholePart(p, c) /\ AheadPart(p)
        /\ HeldPart(p, c) /\ Queued(Line, p, c) /\ FoundPart(p, c) /\ FailedPart(p, c)
    BY DEF Books
  <1>2. UNCHANGED <<kind, stage, rest, batch, found>>
    BY DEF WalkerLeaves, query, drainVars
  <1>3. p[f] = "held"
    <2>1. Holds(w, f)
      BY DEF Holds
    <2> QED
      BY <1>1, <2>1 DEF HeldPart
  <1> PICK q \in [Files -> Places] : q[f] = b /\ \A x \in Files \ {f} : q[x] = p[x]
    <2>1. p \in [Files -> Places] /\ b \in Places
      BY <1>1 DEF Entries, Places
    <2>2. [p EXCEPT ![f] = b] \in [Files -> Places]
      BY <2>1
    <2>3. /\ [p EXCEPT ![f] = b][f] = b
          /\ \A x \in Files \ {f} : [p EXCEPT ![f] = b][x] = p[x]
      BY <2>1
    <2> QED
      BY <2>2, <2>3
  <1>4. /\ Entries(q, d) /\ EmptyPart(q, d) /\ WholePart(q, d)'
        /\ \A a : a # b /\ a # p[f] => Keep(p, c, q, d, a)
    <2>1. UNCHANGED kind
      BY <1>2
    <2>2. Going' => Going
      OBVIOUS
    <2>3. q[f] \in {"ahead", "gone"} => d[f] = 0
      OBVIOUS
    <2>4. Going' => /\ q[f] \in {"sent", "given"} => d[f] = Expected(f)
                    /\ q[f] = "gone" => Matches[f] = 0
      OBVIOUS
    <2> QED
      BY <1>1, <2>1, <2>2, <2>3, <2>4, FileMoves
  <1>5. AheadPart(q)'
    BY <1>1, <1>2, <1>3, <1>4, AheadKept
  <1>6. HeldPart(q, d)'
    <2>1. UNCHANGED kind
      BY <1>2
    <2>2. \A x \in Files \ {f} : q[x] = p[x] /\ d[x] = c[x]
      BY <1>4
    <2>3. q[f] = "held" <=> s.at \in Busy
      BY <1>4
    <2> QED
      BY <1>1, <2>1, <2>2, <2>3, HeldMoves
  <1>7. Queued(Line', q, d)
    <2>1. CASE b = "sent"
      <3>1. PICK e \in Item : e = [file |-> f, size |-> d[f]]
        BY DEF Item
      <3>2. Line' = Append(Line, e)
        BY <1>2, <2>1, <3>1, LineType, LineGrows DEF Line
      <3>3. e.file = f /\ e.size = d[f]
        BY <3>1
      <3>4. Queued(Append(Line, e), q, d)
        BY <1>1, <1>3, <1>4, <2>1, <3>3, LineType, QueuedMore
      <3> QED
        BY <3>2, <3>4
    <2>2. CASE b # "sent"
      <3>1. Line' = Line
        BY <1>2, <2>2 DEF Line
      <3>2. Keep(p, c, q, d, "sent")
        BY <1>3, <1>4, <2>2
      <3> QED
        BY <1>1, <3>1, <3>2, LineType, QueuedKept
    <2> QED
      BY <2>1, <2>2
  <1>8. FoundPart(q, d)'
    BY <1>1, <1>2, <1>3, <1>4, FoundKept
  <1>9. FailedPart(q, d)'
    <2>1. CASE b = "failed"
      <3>1. PICK e \in Item : e = [file |-> f, size |-> d[f]] /\ e.file = f /\ e.size = d[f]
        BY DEF Item
      <3>2. failed' = failed \cup {e}
        BY <2>1, <3>1
      <3>3. \A x \in Files : Unread(x)' <=> Unread(x) \/ x = f
        BY <3>1, <3>2 DEF Unread
      <3>4. \A x \in Files : q[x] = "failed" <=> Unread(x)'
        BY <1>1, <1>4, <2>1, <3>3 DEF FailedPart
      <3>5. \A g \in failed' : d[g.file] = g.size
        <4>1. ASSUME NEW g \in failed PROVE d[g.file] = g.size
          <5>1. g.file \in Files /\ p[g.file] = "failed"
            BY <1>1 DEF TypeOK, Item, FailedPart, Unread
          <5>2. d[g.file] = c[g.file]
            BY <1>3, <5>1
          <5> QED
            BY <1>1, <5>2 DEF FailedPart
        <4> QED
          BY <3>1, <3>2, <4>1
      <3> QED
        BY <1>2, <2>1, <3>4, <3>5 DEF FailedPart
    <2>2. CASE b # "failed"
      <3>1. Keep(p, c, q, d, "failed")
        BY <1>3, <1>4, <2>2
      <3> QED
        BY <1>1, <1>2, <2>2, <3>1, FailedKept
    <2> QED
      BY <2>1, <2>2
  <1>10. Books(q, d)'
    BY <1>4, <1>5, <1>6, <1>7, <1>8, <1>9 DEF Books
  <1> QED
    BY <1>10

\* What the ledger says of a walker at a file.
LEMMA HolderOf ==
  ASSUME Typed, NEW p, NEW c, Books(p, c), NEW w \in Walkers, walker[w].at \in Busy
  PROVE  /\ walker[w].file \in Files /\ p[walker[w].file] = "held"
         /\ Carries(kind, walker[w], c[walker[w].file])
         /\ walker[w].left \in Nat /\ walker[w].got \in Nat
         /\ c \in [Files -> Nat] /\ Matches[walker[w].file] \in Nat
  <1>1. walker[w].file \in Files /\ Holds(w, walker[w].file)
        /\ walker[w].left \in Nat /\ walker[w].got \in Nat
    BY WorkerFields DEF Typed, Holds
  <1> QED
    BY <1>1, FilesAssumption DEF Books, HeldPart, Entries

LEMMA LedgerRead ==
  ASSUME TypeOK, Typed, NEW p, NEW c, Books(p, c), ~cancelled, NEW w \in Walkers, Read(w)
  PROVE  \E q, d : Books(q, d)'
  <1>1. walker[w].at = "read" /\ walker[w].at \in Busy
    BY DEF Read, Busy
  <1>2. PICK f \in Files : f = walker[w].file
    BY <1>1, HolderOf
  <1>3. PICK g \in Nat, l \in Nat : g = walker[w].got /\ l = walker[w].left
    BY <1>1, HolderOf
  <1>4. /\ kind = "text" /\ c[f] = g /\ Matches[f] = g + l /\ p[f] = "held"
        /\ c \in [Files -> Nat]
    <2>1. Carries(kind, walker[w], c[f]) /\ p[f] = "held" /\ c \in [Files -> Nat]
      BY <1>1, <1>2, HolderOf
    <2> QED
      BY <1>1, <1>2, <1>3, <2>1 DEF Carries
  <1>5. WalkerLeaves /\ UNCHANGED <<todo, results, limitHit, failed>>
    BY DEF Read
  <1>6. Going' => Going /\ ~Stop
    BY <1>5 DEF WalkerLeaves, Going, Stop
  <1>7. Total(c) = Passed'
    BY <1>5, PassedSame DEF Books, WalkerLeaves
  <1>8. \A x \in Files \ {f} : c[x] = c[x]
    OBVIOUS
  <1>9. PICK s \in Worker :
          /\ Becomes(w, s)
          /\ \/ /\ Stop \/ l = 0
                /\ s.at \notin Busy
                /\ queue' = IF g = 0 THEN queue ELSE Append(queue, [file |-> f, size |-> c[f]])
             \/ /\ UNCHANGED queue
                /\ s.at = "count" /\ s.file = f /\ s.got = g /\ s.left + 1 = l
    BY <1>2, <1>3, <1>4, ReadMoves, Shapes DEF Busy
  <1>10. CASE s.at \notin Busy
    <2>1. /\ Stop \/ l = 0
          /\ queue' = IF g = 0 THEN queue ELSE Append(queue, [file |-> f, size |-> c[f]])
      BY <1>9, <1>10 DEF Busy
    <2>2. Going' => Matches[f] = g
      BY <1>4, <1>6, <2>1
    <2>3. CASE g = 0
      <3>1. PICK b \in {"held", "sent", "failed", "gone"} : b = "gone"
        OBVIOUS
      <3> QED
        BY <1>1, <1>2, <1>4, <1>5, <1>6, <1>7, <1>8, <1>9, <1>10, <2>1, <2>2, <2>3, <3>1,
           LedgerWalker
    <2>4. CASE g # 0
      <3>1. PICK b \in {"held", "sent", "failed", "gone"} : b = "sent"
        OBVIOUS
      <3>2. Expected(f) = Matches[f]
        BY <1>4 DEF Expected
      <3> QED
        BY <1>1, <1>2, <1>4, <1>5, <1>6, <1>7, <1>8, <1>9, <1>10, <2>1, <2>2, <2>4, <3>1, <3>2,
           LedgerWalker
    <2> QED
      BY <2>3, <2>4
  <1>11. CASE s.at \in Busy
    <2>1. UNCHANGED queue /\ s.at = "count" /\ s.file = f /\ s.got = g /\ s.left + 1 = l
      BY <1>9, <1>11
    <2>2. Carries(kind, s, c[f])
      <3>1. s.left \in Nat
        BY WorkerFields
      <3> QED
        BY <1>4, <2>1, <3>1 DEF Carries
    <2>3. PICK b \in {"held", "sent", "failed", "gone"} : b = "held"
      OBVIOUS
    <2> QED
      BY <1>1, <1>2, <1>4, <1>5, <1>6, <1>7, <1>8, <1>9, <1>11, <2>1, <2>2, <2>3, LedgerWalker
  <1> QED
    BY <1>10, <1>11

LEMMA LedgerReadFails ==
  ASSUME TypeOK, Typed, NEW p, NEW c, Books(p, c), NEW w \in Walkers, ReadFails(w)
  PROVE  \E q, d : Books(q, d)'
  <1>1. walker[w].at = "read" /\ walker[w].at \in Busy
    BY DEF ReadFails, Busy
  <1>2. PICK f \in Files : f = walker[w].file
    BY <1>1, HolderOf
  <1>3. kind = "text" /\ c[f] = walker[w].got /\ c \in [Files -> Nat]
    BY <1>1, <1>2, HolderOf DEF Carries
  <1>4. /\ WalkerLeaves /\ UNCHANGED <<todo, results, limitHit, queue>> /\ Becomes(w, Idle)
        /\ failed' = failed \cup {[file |-> f, size |-> c[f]]}
    BY <1>2, <1>3 DEF ReadFails
  <1>5. Going' => Going
    BY <1>4 DEF WalkerLeaves, Going
  <1>6. Total(c) = Passed'
    BY <1>4, PassedSame DEF Books, WalkerLeaves
  <1>7. PICK b \in {"held", "sent", "failed", "gone"} : b = "failed"
    OBVIOUS
  <1>8. PICK s \in Worker : s = Idle /\ s.at \notin Busy /\ Becomes(w, s)
    BY <1>4, Shapes DEF Busy
  <1>9. \A x \in Files \ {f} : c[x] = c[x]
    OBVIOUS
  <1> QED
    BY <1>1, <1>2, <1>3, <1>4, <1>5, <1>6, <1>7, <1>8, <1>9, LedgerWalker

LEMMA LedgerMark ==
  ASSUME TypeOK, Typed, NEW p, NEW c, Books(p, c), NEW w \in Walkers, Mark(w)
  PROVE  \E q, d : Books(q, d)'
  <1>1. walker[w].at = "mark" /\ walker[w].at \in Busy
    BY DEF Mark, Busy
  <1>2. PICK f \in Files : f = walker[w].file
    BY <1>1, HolderOf
  <1>3. Carries(kind, walker[w], c[f]) /\ c \in [Files -> Nat]
    BY <1>1, <1>2, HolderOf
  <1>4. WalkerLeaves /\ UNCHANGED <<todo, results, failed, queue>> /\ limitHit' = TRUE
    BY DEF Mark
  <1>5. ~Going'
    BY <1>4 DEF Going
  <1>6. Total(c) = Passed'
    BY <1>4, PassedSame DEF Books, WalkerLeaves
  <1>7. \A x \in Files \ {f} : c[x] = c[x]
    OBVIOUS
  <1>8. CASE kind = "text"
    <2>1. PICK s \in Worker : /\ Becomes(w, s) /\ s.at = "read" /\ s.file = walker[w].file
                              /\ s.left = walker[w].left /\ s.got = walker[w].got
      BY <1>8, MarkMoves
    <2>2. Carries(kind, s, c[f])
      BY <1>1, <1>2, <1>3, <1>8, <2>1 DEF Carries
    <2>3. PICK b \in {"held", "sent", "failed", "gone"} : b = "held"
      OBVIOUS
    <2>4. s.at \in Busy
      BY <2>1 DEF Busy
    <2> QED
      BY <1>1, <1>2, <1>3, <1>4, <1>5, <1>6, <1>7, <2>1, <2>2, <2>3, <2>4, LedgerWalker
  <1>9. CASE kind # "text"
    <2>1. PICK s \in Worker : Becomes(w, s) /\ s.at \notin Busy
      BY <1>9, MarkMoves, Shapes DEF Busy
    <2>2. c[f] = 0
      BY <1>3, <1>9 DEF Carries
    <2>3. PICK b \in {"held", "sent", "failed", "gone"} : b = "gone"
      OBVIOUS
    <2> QED
      BY <1>1, <1>2, <1>3, <1>4, <1>5, <1>6, <1>7, <2>1, <2>2, <2>3, LedgerWalker
  <1> QED
    BY <1>8, <1>9

LEMMA LedgerCount ==
  ASSUME TypeOK, Typed, NEW p, NEW c, Books(p, c), NEW w \in Walkers, Count(w)
  PROVE  \E q, d : Books(q, d)'
  <1>1. walker[w].at = "count" /\ walker[w].at \in Busy
    BY DEF Count, Busy
  <1>2. PICK f \in Files : f = walker[w].file
    BY <1>1, HolderOf
  <1>3. Carries(kind, walker[w], c[f]) /\ c \in [Files -> Nat] /\ c[f] \in Nat
    BY <1>1, <1>2, HolderOf
  <1>4. WalkerLeaves /\ UNCHANGED <<todo, limitHit, failed, query>> /\ results' = results + 1
    BY DEF Count, WalkerLeaves
  <1>5. Going' => Going
    BY <1>4 DEF WalkerLeaves, Going
  <1>6. Total(c) = Passed
    BY DEF Books
  <1>7. PICK d \in [Files -> Nat] : /\ d[f] = c[f] + 1 /\ \A x \in Files \ {f} : d[x] = c[x]
                                    /\ Total(d) = Total(c) + 1
    <2>1. /\ [c EXCEPT ![f] = @ + 1] \in [Files -> Nat]
          /\ Total([c EXCEPT ![f] = @ + 1]) = Total(c) + 1
      BY <1>3, TotalGrows, FilesAssumption
    <2>2. /\ [c EXCEPT ![f] = @ + 1][f] = c[f] + 1
          /\ \A x \in Files \ {f} : [c EXCEPT ![f] = @ + 1][x] = c[x]
      BY <1>3
    <2> QED
      BY <2>1, <2>2
  <1>8. CASE kind = "text"
    <2>1. PICK s \in Worker : /\ Becomes(w, s) /\ UNCHANGED queue
                              /\ s.at \in {"mark", "read"} /\ s.file = walker[w].file
                              /\ s.left = walker[w].left /\ s.got = walker[w].got + 1
      BY <1>8, CountMoves
    <2>2. Carries(kind, s, d[f])
      <3>1. /\ walker[w].got = c[f]
            /\ Matches[walker[w].file] = walker[w].got + walker[w].left + 1
        BY <1>1, <1>3, <1>8 DEF Carries
      <3>2. s.left \in Nat /\ s.got = d[f]
        BY <1>7, <2>1, <3>1, WorkerFields
      <3>3. Matches[s.file] = s.got + s.left + 0
        BY <1>3, <2>1, <3>1, <3>2
      <3> QED
        BY <1>8, <2>1, <3>2, <3>3 DEF Carries
    <2>3. PICK b \in {"held", "sent", "failed", "gone"} : b = "held"
      OBVIOUS
    <2>4. s.at \in Busy
      BY <2>1 DEF Busy
    <2>5. Total(d) = Passed'
      BY <1>4, <1>6, <1>7, <1>8, PassedCounts
    <2> QED
      BY <1>1, <1>2, <1>4, <1>5, <1>7, <2>1, <2>2, <2>3, <2>4, <2>5, LedgerWalker
  <1>9. CASE kind # "text"
    <2>1. c[f] = 0 /\ Matches[f] # 0
      BY <1>2, <1>3, <1>9 DEF Carries
    <2>2. CASE AtLimit(results + 1)
      <3>1. PICK s \in Worker : /\ Becomes(w, s) /\ UNCHANGED queue
                                /\ s.at = "mark" /\ s.file = f
        BY <1>2, <1>9, <2>2, CountMoves
      <3>2. Carries(kind, s, c[f])
        BY <1>9, <2>1, <3>1 DEF Carries
      <3>3. PICK b \in {"held", "sent", "failed", "gone"} : b = "held"
        OBVIOUS
      <3>4. s.at \in Busy
        BY <3>1 DEF Busy
      <3>5. Total(c) = Passed'
        BY <1>4, <1>6, <1>9, <2>2, PassedCounts
      <3>6. \A x \in Files \ {f} : c[x] = c[x]
        OBVIOUS
      <3> QED
        BY <1>1, <1>2, <1>3, <1>4, <1>5, <3>1, <3>2, <3>3, <3>4, <3>5, <3>6, LedgerWalker
    <2>3. CASE ~AtLimit(results + 1)
      <3>1. PICK s \in Worker : /\ Becomes(w, s) /\ s.at \notin Busy
                                /\ queue' = Append(queue, [file |-> f, size |-> d[f]])
        BY <1>2, <1>7, <1>9, <2>1, <2>3, CountMoves, Shapes DEF Busy
      <3>2. PICK b \in {"held", "sent", "failed", "gone"} : b = "sent"
        OBVIOUS
      <3>3. Total(d) = Passed'
        BY <1>4, <1>6, <1>7, <2>3, PassedCounts
      <3>4. d[f] # 0 /\ d[f] = Expected(f)
        BY <1>7, <1>9, <2>1 DEF Expected
      <3>5. queue' = IF b = "sent" THEN Append(queue, [file |-> f, size |-> d[f]]) ELSE queue
        BY <3>1, <3>2
      <3>6. /\ b = "held" <=> s.at \in Busy
            /\ b # "held" /\ b # "failed" /\ b # "gone"
        BY <3>1, <3>2
      <3>7. failed' = IF b = "failed" THEN failed \cup {[file |-> f, size |-> d[f]]} ELSE failed
        BY <1>4, <3>6
      <3> QED
        BY <1>1, <1>2, <1>4, <1>5, <1>7, <3>1, <3>3, <3>4, <3>5, <3>6, <3>7, LedgerWalker,
           SMTT(30)
    <2> QED
      BY <2>2, <2>3
  <1> QED
    BY <1>8, <1>9

LEMMA LedgerVisit ==
  ASSUME TypeOK, Typed, NEW p, NEW c, Books(p, c), NEW w \in Walkers, Visit(w)
  PROVE  \E q, d : Books(q, d)'
  <1>1. /\ Entries(p, c) /\ EmptyPart(p, c) /\ WholePart(p, c) /\ AheadPart(p)
        /\ HeldPart(p, c) /\ Queued(Line, p, c) /\ FoundPart(p, c) /\ FailedPart(p, c)
        /\ Total(c) = Passed
    BY DEF Books
  <1>2. UNCHANGED <<query, kind, stage, rest, results, limitHit, failed, batch, queue, found>>
    BY DEF Visit, WalkerLeaves, query, drainVars
  <1>3. Line' = Line /\ Passed' = Passed /\ (Going' <=> Going)
    BY <1>2, PassedSame DEF Line, Going
  <1>4. walker[w].at \notin Busy
    BY DEF Visit, Busy
  <1>5. CASE Stop
    <2>1. Becomes(w, Gone) /\ UNCHANGED todo
      BY <1>5 DEF Visit
    <2>2. PICK s \in Worker : Becomes(w, s) /\ s.at \notin Busy
      BY <2>1, Shapes DEF Busy
    <2>3. HeldPart(p, c)'
      BY <1>1, <1>2, <1>4, <2>2, HeldIdle
    <2>4. AheadPart(p)'
      BY <1>1, <1>2, <2>1 DEF AheadPart, Ahead
    <2>5. WholePart(p, c)'
      BY <1>1, <1>2, <1>3 DEF WholePart, Expected
    <2>6. FoundPart(p, c)' /\ FailedPart(p, c)'
      BY <1>1, <1>2 DEF FoundPart, FailedPart, Unread
    <2> QED
      BY <1>1, <1>3, <2>3, <2>4, <2>5, <2>6 DEF Books
  <1>6. CASE ~Stop
    <2>1. PICK s \in Worker, f \in todo :
            /\ Becomes(w, s) /\ todo' = todo \ {f}
            /\ \/ Matches[f] = 0 /\ s.at \notin Busy
               \/ /\ Matches[f] # 0 /\ s.at \in Busy /\ s.file = f
                  /\ kind = "text" => s.at = "read" /\ s.left = Matches[f] /\ s.got = 0
                  /\ kind # "text" => s.at = "count"
      BY <1>6, VisitMoves, Shapes DEF Busy
    <2>2. f \in Files /\ p[f] = "ahead" /\ c[f] = 0 /\ Matches[f] \in Nat
      BY <1>1, FilesAssumption DEF Typed, AheadPart, Ahead, EmptyPart
    <2>3. s.at \in Busy => Carries(kind, s, c[f])
      BY <2>1, <2>2 DEF Carries, Busy
    <2>4. PICK b \in {"held", "gone"} : b = "held" <=> s.at \in Busy
      OBVIOUS
    <2>5. PICK q \in [Files -> Places] : q[f] = b /\ \A x \in Files \ {f} : q[x] = p[x]
      <3>1. p \in [Files -> Places] /\ b \in Places
        BY <1>1 DEF Entries, Places
      <3>2. [p EXCEPT ![f] = b] \in [Files -> Places]
        BY <2>2, <3>1
      <3>3. /\ [p EXCEPT ![f] = b][f] = b
            /\ \A x \in Files \ {f} : [p EXCEPT ![f] = b][x] = p[x]
        BY <2>2, <3>1
      <3> QED
        BY <3>2, <3>3
    <2>6. \A x \in Files \ {f} : q[x] = p[x] /\ c[x] = c[x]
      BY <2>5
    <2>7. c \in [Files -> Nat] /\ UNCHANGED kind /\ (Going' => Going)
      BY <1>1, <1>2, <1>3 DEF Entries
    <2>8. /\ Entries(q, c) /\ EmptyPart(q, c) /\ WholePart(q, c)'
          /\ \A a : a # q[f] /\ a # p[f] => Keep(p, c, q, c, a)
      <3>1. q[f] \notin {"ahead", "sent", "given"} /\ (q[f] = "gone" => Matches[f] = 0)
        BY <2>1, <2>4, <2>5
      <3> QED
        BY <1>1, <2>2, <2>6, <2>7, <3>1, FileMoves
    <2>9. Keep(p, c, q, c, "sent") /\ Keep(p, c, q, c, "given") /\ Keep(p, c, q, c, "failed")
      BY <2>2, <2>4, <2>5, <2>8
    <2>10. AheadPart(q)'
      <3>1. rest' = rest /\ \A i \in DOMAIN rest : f \notin rest[i]
        BY <1>1, <1>2, <2>1 DEF AheadPart
      <3>2. \A x \in Files : Ahead(x)' <=> Ahead(x) /\ x # f
        BY <2>1, <3>1 DEF Ahead
      <3>3. \A x \in Files : q[x] = "ahead" <=> Ahead(x)'
        BY <1>1, <2>2, <2>4, <2>5, <3>2 DEF AheadPart
      <3>4. \A i \in DOMAIN rest : rest[i] \cap todo' = {}
        BY <1>1, <2>1 DEF AheadPart
      <3> QED
        BY <1>1, <3>1, <3>3, <3>4 DEF AheadPart
    <2>11. HeldPart(q, c)'
      BY <1>1, <1>4, <2>1, <2>2, <2>3, <2>4, <2>5, <2>6, <2>7, HeldMoves
    <2>12. Queued(Line', q, c)
      BY <1>1, <1>3, <2>9, LineType, QueuedKept
    <2>13. FoundPart(q, c)' /\ FailedPart(q, c)'
      BY <1>1, <1>2, <2>9, FoundKept, FailedKept
    <2> QED
      BY <1>1, <1>3, <2>8, <2>10, <2>11, <2>12, <2>13 DEF Books
  <1> QED
    BY <1>5, <1>6

\* A folder that is done without a stop has no file left.
LEMMA FolderWalked ==
  ASSUME StageSteady, stage \in {"validating", "walking"}, FolderDone, ~Stop
  PROVE  todo = {}
  <1>1. CASE stage = "validating"
    BY <1>1 DEF StageSteady
  <1>2. CASE stage = "walking"
    <2>1. \E w \in Walkers : walker[w].at # "quit"
      BY <1>2, WalkersAssumption DEF StageSteady
    <2> QED
      BY <2>1 DEF FolderDone
  <1> QED
    BY <1>1, <1>2

\* Between two folders no walker holds a file.
LEMMA HeldNone ==
  ASSUME NEW p, NEW c, HeldPart(p, c), Resting, UNCHANGED kind,
         \A w \in Walkers : walker'[w].at \notin Busy
  PROVE  HeldPart(p, c)' /\ \A f \in Files : p[f] # "held"
  <1>1. \A w \in Walkers : walker[w].at \notin Busy
    BY DEF Resting, Busy
  <1>2. \A f \in Files : p[f] # "held"
    BY <1>1 DEF HeldPart, Holds
  <1> QED
    BY <1>2 DEF HeldPart, Holds

LEMMA LedgerNextFolder ==
  ASSUME TypeOK, Typed, StageSteady, NEW p, NEW c, Books(p, c), NextFolder
  PROVE  \E q, d : Books(q, d)'
  <1>1. /\ Entries(p, c) /\ EmptyPart(p, c) /\ WholePart(p, c) /\ AheadPart(p)
        /\ HeldPart(p, c) /\ Queued(Line, p, c) /\ FoundPart(p, c) /\ FailedPart(p, c)
        /\ Total(c) = Passed
    BY DEF Books
  <1>2. UNCHANGED <<query, kind, results, limitHit, failed, batch, queue, found>>
    BY DEF NextFolder, query, drainVars
  <1>3. Line' = Line /\ Passed' = Passed /\ (Going' => Going)
    <2>1. stage # "failed"
      BY DEF NextFolder
    <2> QED
      BY <1>2, <2>1, PassedSame DEF Line, Going
  <1>4. WholePart(p, c)'
    BY <1>1, <1>2, <1>3 DEF WholePart, Expected
  <1>5. FoundPart(p, c)' /\ FailedPart(p, c)'
    BY <1>1, <1>2 DEF FoundPart, FailedPart, Unread
  <1>6. HeldPart(p, c)'
    <2>1. Resting /\ \A w \in Walkers : walker'[w].at \notin Busy
      BY Shapes DEF NextFolder, FolderDone, Busy
    <2> QED
      BY <1>1, <1>2, <2>1, HeldNone
  <1>7. AheadPart(p)'
    <2>1. todo = {}
      BY FolderWalked DEF NextFolder
    <2>2. PICK n \in Nat : Len(rest) = n + 1
      <3>1. rest # <<>> /\ rest \in Seq(SUBSET Files)
        BY DEF NextFolder, Typed
      <3>2. Len(rest) \in Nat /\ Len(rest) # 0
        BY <3>1
      <3>3. Len(rest) - 1 \in Nat /\ Len(rest) = (Len(rest) - 1) + 1
        BY <3>2
      <3> QED
        BY <3>3
    <2>3. /\ DOMAIN rest = 1..(n + 1) /\ todo' = rest[1]
          /\ DOMAIN rest' = 1..n /\ \A i \in 1..n : rest'[i] = rest[i + 1]
      <3>1. rest # <<>> /\ rest \in Seq(SUBSET Files) /\ todo' = Head(rest) /\ rest' = Tail(rest)
        BY DEF NextFolder, Typed
      <3> QED
        BY <2>2, <3>1
    <2>4. /\ 1 \in 1..(n + 1)
          /\ \A i \in 1..n : i + 1 \in 1..(n + 1) /\ i + 1 # 1
          /\ \A i, j \in 1..n : i + 1 = j + 1 => i = j
      OBVIOUS
    <2>5. \A k \in 1..(n + 1) : k = 1 \/ \E i \in 1..n : k = i + 1
      <3>1. \A k \in 1..(n + 1) : k = 1 \/ (k - 1 \in 1..n /\ k = (k - 1) + 1)
        OBVIOUS
      <3> QED
        BY <3>1
    <2>6. ASSUME NEW f \in Files PROVE p[f] = "ahead" <=> Ahead(f)'
      <3>1. Ahead(f) <=> \E k \in 1..(n + 1) : f \in rest[k]
        BY <2>1, <2>3 DEF Ahead
      <3>2. Ahead(f)' <=> f \in rest[1] \/ \E i \in 1..n : f \in rest'[i]
        BY <2>3 DEF Ahead
      <3>3. ASSUME Ahead(f) PROVE Ahead(f)'
        <4>1. PICK k \in 1..(n + 1) : f \in rest[k]
          BY <3>1, <3>3
        <4>2. CASE k = 1
          BY <3>2, <4>1, <4>2
        <4>3. CASE k # 1
          <5>1. PICK i \in 1..n : k = i + 1
            BY <2>5, <4>3
          <5>2. f \in rest'[i]
            BY <2>3, <4>1, <5>1
          <5> QED
            BY <3>2, <5>2
        <4> QED
          BY <4>2, <4>3
      <3>4. ASSUME Ahead(f)' PROVE Ahead(f)
        <4>1. CASE f \in rest[1]
          BY <2>4, <3>1, <4>1
        <4>2. CASE f \notin rest[1]
          <5>1. PICK i \in 1..n : f \in rest'[i]
            BY <3>2, <3>4, <4>2
          <5>2. f \in rest[i + 1] /\ i + 1 \in 1..(n + 1)
            BY <2>3, <2>4, <5>1
          <5> QED
            BY <3>1, <5>2
        <4> QED
          BY <4>1, <4>2
      <3> QED
        BY <1>1, <3>3, <3>4 DEF AheadPart
    <2>7. \A i, j \in 1..(n + 1) : i # j => rest[i] \cap rest[j] = {}
      BY <1>1, <2>3 DEF AheadPart
    <2>8. ASSUME NEW i \in 1..n PROVE rest'[i] \cap todo' = {}
      <3>1. i + 1 \in 1..(n + 1) /\ i + 1 # 1 /\ 1 \in 1..(n + 1)
        BY <2>4
      <3>2. rest[i + 1] \cap rest[1] = {}
        BY <2>7, <3>1
      <3> QED
        BY <2>3, <3>2
    <2>9. ASSUME NEW i \in 1..n, NEW j \in 1..n, i # j PROVE rest'[i] \cap rest'[j] = {}
      <3>1. i + 1 \in 1..(n + 1) /\ j + 1 \in 1..(n + 1) /\ i + 1 # j + 1
        BY <2>4, <2>9
      <3>2. rest[i + 1] \cap rest[j + 1] = {}
        BY <2>7, <3>1
      <3> QED
        BY <2>3, <3>2
    <2> QED
      BY <2>3, <2>6, <2>8, <2>9 DEF AheadPart
  <1> QED
    BY <1>1, <1>3, <1>4, <1>5, <1>6, <1>7 DEF Books

\* What no walker has reached at the end of the walk is never searched.
LEMMA LedgerWalkEnds ==
  ASSUME TypeOK, Typed, StageSteady, ~cancelled, NEW p, NEW c, Books(p, c), WalkEnds
  PROVE  \E q, d : Books(q, d)'
  <1>1. /\ Entries(p, c) /\ EmptyPart(p, c) /\ WholePart(p, c) /\ AheadPart(p)
        /\ HeldPart(p, c) /\ Queued(Line, p, c) /\ FoundPart(p, c) /\ FailedPart(p, c)
        /\ Total(c) = Passed
    BY DEF Books
  <1>2. UNCHANGED <<query, kind, results, limitHit, failed, batch, queue, found>>
    BY DEF WalkEnds, query, drainVars
  <1>3. todo' = {} /\ rest' = <<>> /\ \A w \in Walkers : walker'[w].at \notin Busy
    BY Shapes DEF WalkEnds, Busy
  <1>4. Line' = Line /\ Passed' = Passed
    BY <1>2, PassedSame DEF Line
  <1>5. PICK q \in [Files -> Places] :
          \A f \in Files : q[f] = IF p[f] = "ahead" THEN "gone" ELSE p[f]
    <2>1. [f \in Files |-> IF p[f] = "ahead" THEN "gone" ELSE p[f]] \in [Files -> Places]
      BY <1>1 DEF Entries, Places
    <2> QED
      BY <2>1
  <1>6. /\ Keep(p, c, q, c, "held") /\ Keep(p, c, q, c, "sent")
        /\ Keep(p, c, q, c, "given") /\ Keep(p, c, q, c, "failed")
    BY <1>5 DEF Keep
  <1>7. Entries(q, c) /\ EmptyPart(q, c)
    BY <1>1, <1>5 DEF Entries, EmptyPart
  <1>8. WholePart(q, c)'
    <2>1. ASSUME Going' PROVE Going /\ \A f \in Files : p[f] # "ahead"
      <3>1. stage \in {"validating", "walking"} /\ stage' # "failed" /\ ~limitHit
        BY <1>2, <2>1 DEF WalkEnds, Going
      <3>2. ~Stop /\ FolderDone /\ rest = <<>>
        BY <3>1 DEF WalkEnds, Stop
      <3>3. todo = {}
        BY <3>1, <3>2, FolderWalked
      <3> QED
        BY <1>1, <3>1, <3>2, <3>3 DEF Going, AheadPart, Ahead
    <2>2. \A f \in Files : Expected(f)' = Expected(f)
      BY <1>2 DEF Expected
    <2> QED
      BY <1>1, <1>5, <2>1, <2>2 DEF WholePart
  <1>9. AheadPart(q)'
    BY <1>3, <1>5 DEF AheadPart, Ahead
  <1>10. HeldPart(q, c)'
    <2>1. \A f \in Files : p[f] # "held"
      BY <1>1, <1>2, <1>3, HeldNone DEF WalkEnds, FolderDone
    <2> QED
      BY <1>3, <1>5, <2>1 DEF HeldPart, Holds
  <1>11. Queued(Line', q, c)
    BY <1>1, <1>4, <1>6, LineType, QueuedKept
  <1>12. FoundPart(q, c)' /\ FailedPart(q, c)'
    BY <1>1, <1>2, <1>6, FoundKept, FailedKept
  <1> QED
    BY <1>1, <1>4, <1>7, <1>8, <1>9, <1>10, <1>11, <1>12 DEF Books

\* A flush gives the client the first items of the line.
LEMMA LedgerFlush ==
  ASSUME TypeOK, Typed, NEW p, NEW c, Books(p, c), UNCHANGED <<query, walkVars>>,
         client = "listening", active, ~cancelled, Going' => Going,
         NEW items \in Seq(Item), NEW later \in Seq(Item), Line = items \o later,
         Line' = later, Flushed(items)
  PROVE  \E q : Books(q, c)'
  <1>1. /\ Entries(p, c) /\ EmptyPart(p, c) /\ WholePart(p, c) /\ AheadPart(p)
        /\ HeldPart(p, c) /\ Queued(Line, p, c) /\ FoundPart(p, c) /\ FailedPart(p, c)
        /\ Total(c) = Passed
    BY DEF Books
  <1>2. UNCHANGED <<kind, todo, rest, walker, results, limitHit, failed>> /\ Passed' = Passed
    BY PassedSame DEF query, walkVars
  <1>3. PICK q \in [Files -> Places] :
          \A f \in Files : q[f] = IF \E i \in DOMAIN items : items[i].file = f
                                  THEN "given" ELSE p[f]
    <2>1. [f \in Files |-> IF \E i \in DOMAIN items : items[i].file = f THEN "given" ELSE p[f]]
            \in [Files -> Places]
      BY <1>1 DEF Entries, Places
    <2> QED
      BY <2>1
  <1>4. /\ Queued(later, q, c)
        /\ \A f \in Files :
             \/ q[f] = "given" /\ p[f] = "sent" /\ SizeIn(items, f) = c[f] /\ c[f] # 0
             \/ q[f] = p[f] /\ SizeIn(items, f) = 0
    BY <1>1, <1>3, QueuedLess
  <1>5. /\ Keep(p, c, q, c, "ahead") /\ Keep(p, c, q, c, "held")
        /\ Keep(p, c, q, c, "failed") /\ Keep(p, c, q, c, "gone")
    BY <1>4 DEF Keep
  <1>6. Entries(q, c) /\ EmptyPart(q, c)
    BY <1>1, <1>4, <1>5 DEF Entries, EmptyPart, Keep
  <1>7. WholePart(q, c)'
    <2>1. \A f \in Files : Expected(f)' = Expected(f)
      BY <1>2 DEF Expected
    <2> QED
      BY <1>1, <1>4, <2>1 DEF WholePart
  <1>8. AheadPart(q)' /\ HeldPart(q, c)'
    BY <1>1, <1>2, <1>5, AheadKept, HeldKept
  <1>9. FailedPart(q, c)'
    BY <1>1, <1>2, <1>5, FailedKept
  <1>10. FoundPart(q, c)'
    <2>1. found' = [f \in Files |-> found[f] + SizeIn(items, f)]
      BY DEF Flushed
    <2>2. ASSUME NEW f \in Files
          PROVE  (q[f] = "given" <=> found'[f] # 0) /\ (q[f] = "given" => c[f] = found'[f])
      <3>1. found'[f] = found[f] + SizeIn(items, f) /\ found[f] \in Nat /\ c[f] \in Nat
        BY <1>1, <2>1 DEF TypeOK, Entries
      <3>2. (p[f] = "given" <=> found[f] # 0) /\ (p[f] = "given" => c[f] = found[f])
        BY <1>1 DEF FoundPart
      <3>3. CASE q[f] = "given" /\ p[f] = "sent" /\ SizeIn(items, f) = c[f] /\ c[f] # 0
        BY <3>1, <3>2, <3>3
      <3>4. CASE q[f] = p[f] /\ SizeIn(items, f) = 0
        BY <3>1, <3>2, <3>4
      <3> QED
        BY <1>4, <3>3, <3>4
    <2> QED
      BY <2>2 DEF FoundPart
  <1>11. Books(q, c)'
    BY <1>1, <1>2, <1>4, <1>6, <1>7, <1>8, <1>9, <1>10 DEF Books
  <1> QED
    BY <1>11

(***************************************************************************)
(* The end of a search: what the client has been given is what was counted *)
(* and neither withheld nor lost with a file.                              *)
(***************************************************************************)
LEMMA FailedSplit ==
  ASSUME failed \subseteq Item, NEW g \in [Files -> Nat], NEW c \in [Files -> Nat],
         \A e \in failed : g[e.file] = 0 /\ c[e.file] = e.size,
         \A f \in Files : ~Unread(f) => g[f] = c[f]
  PROVE  Total(g) + Failed = Total(c)
  <1>1. PICK sizes \in [failed -> Nat] : sizes = [e \in failed |-> e.size]
    BY DEF Item
  <1>2. /\ \A e \in failed : e.file \in Files /\ sizes[e] = e.size
        /\ \A e1, e2 \in failed : e1.file = e2.file => e1 = e2
    BY <1>1 DEF Item
  <1>3. \A f \in Files : (\A e \in failed : e.file # f) => g[f] = c[f]
    BY DEF Unread
  <1>4. IsFiniteSet(Files)
    BY FilesAssumption
  <1>5. Total(g) + Total(sizes) = Total(c)
    BY <1>2, <1>3, <1>4, TotalSplit
  <1> QED
    BY <1>1, <1>5 DEF Failed

LEMMA CompletesWhole ==
  ASSUME TypeOK, Typed, Bounded, ClientSteady, StageSteady, LimitSteady,
         NEW p, NEW c, Books(p, c), Complete, client = "listening",
         client' \in {"success", "limited"}
  PROVE  SuccessIsWhole'
  <1>1. active /\ ~cancelled
    BY DEF ClientSteady
  <1>2. /\ stage = "closed" /\ stage' = "ended"
        /\ client' = IF limitHit THEN "limited" ELSE "success"
    BY <1>1 DEF Complete, Settle, Result
  <1>3. UNCHANGED <<query, walkVars, kind, max, todo, rest, walker, results, limitHit, failed>>
    BY DEF Complete, CollectorLeaves, query, walkVars
  <1>4. batch \in Seq(Item) /\ queue = <<>> /\ batch' = <<>> /\ queue' = <<>> /\ Flushed(batch)
    BY LineType DEF Complete, Flushed
  <1>5. PICK items \in Seq(Item), later \in Seq(Item) :
          /\ items = batch /\ later = <<>>
          /\ Line = items \o later /\ Line' = later /\ Flushed(items)
    <2>1. <<>> \in Seq(Item)
      OBVIOUS
    <2>2. Line = batch \o <<>> /\ Line' = <<>> \o <<>>
      BY <1>4 DEF Line
    <2>3. <<>> \o <<>> = <<>>
      OBVIOUS
    <2> QED
      BY <1>4, <2>1, <2>2, <2>3
  <1>6. Going' <=> ~limitHit
    BY <1>2, <1>3 DEF Going
  <1>7. Going' => Going
    BY <1>2, <1>6 DEF Going
  <1>8. PICK q : Books(q, c)'
    BY <1>1, <1>3, <1>5, <1>7, LedgerFlush
  <1>9. /\ q \in [Files -> Places] /\ c \in [Files -> Nat] /\ EmptyPart(q, c) /\ WholePart(q, c)'
        /\ AheadPart(q)' /\ HeldPart(q, c)' /\ Queued(later, q, c)
        /\ FoundPart(q, c)' /\ FailedPart(q, c)' /\ Total(c) = Passed'
    BY <1>5, <1>8 DEF Books, Entries
  <1>10. \A f \in Files : q[f] \in {"given", "failed", "gone"}
    <2>1. todo' = {} /\ rest' = <<>> /\ \A w \in Walkers : walker'[w].at \notin Busy
      BY <1>2, <1>3 DEF StageSteady, Busy
    <2>2. ASSUME NEW f \in Files PROVE q[f] # "ahead" /\ q[f] # "held"
      BY <1>9, <2>1 DEF AheadPart, Ahead, HeldPart, Holds
    <2>3. ASSUME NEW f \in Files PROVE q[f] # "sent"
      BY <1>5, <1>9 DEF Queued
    <2> QED
      BY <1>9, <2>2, <2>3 DEF Places
  <1>11. PICK g \in [Files -> Nat] : g = found'
    <2>1. found' \in [Files -> Nat]
      BY <1>4, FlushedTypes
    <2> QED
      BY <2>1
  <1>12. ASSUME NEW f \in Files
         PROVE  /\ g[f] = IF Unread(f) THEN 0 ELSE c[f]
                /\ q[f] = "failed" <=> Unread(f)
                /\ q[f] = "gone" => c[f] = 0
    <2>1. (q[f] = "given" <=> g[f] # 0) /\ (q[f] = "given" => c[f] = g[f])
      BY <1>9, <1>11 DEF FoundPart
    <2>2. q[f] = "failed" <=> Unread(f)
      BY <1>3, <1>9 DEF FailedPart, Unread
    <2>3. q[f] = "gone" => c[f] = 0
      BY <1>9 DEF EmptyPart
    <2> QED
      BY <1>10, <2>1, <2>2, <2>3
  <1>13. Total(g) + Failed = Total(c)
    <2>1. failed \subseteq Item
      BY DEF TypeOK
    <2>2. ASSUME NEW e \in failed PROVE g[e.file] = 0 /\ c[e.file] = e.size
      <3>1. e.file \in Files /\ Unread(e.file)
        BY <2>1 DEF Item, Unread
      <3> QED
        BY <1>3, <1>9, <1>12, <3>1 DEF FailedPart
    <2>3. \A f \in Files : ~Unread(f) => g[f] = c[f]
      BY <1>12
    <2> QED
      BY <1>9, <2>1, <2>2, <2>3, FailedSplit
  <1>14. /\ Given' = Total(g) /\ Failed' = Failed /\ Passed' = Passed
         /\ \A f \in Files : Unread(f)' = Unread(f) /\ Expected(f)' = Expected(f)
    BY <1>3, <1>11, PassedSame DEF Given, Failed, Unread, Expected
  <1>15. Given' + Failed' = Passed
    BY <1>9, <1>13, <1>14
  <1>16. results \in Nat /\ Allowed \in Nat /\ max \in Nat
    BY AllowedType DEF Typed
  <1>17. CASE limitHit
    <2>1. client' = "limited" /\ AtLimit(results)
      BY <1>2, <1>17 DEF LimitSteady
    <2>2. CASE kind = "text"
      <3>1. Passed = results /\ results >= max
        BY <2>1, <2>2 DEF Passed, AtLimit
      <3> QED
        BY <1>3, <1>15, <2>1, <2>2, <3>1 DEF SuccessIsWhole
    <2>3. CASE kind # "text"
      <3>1. Failed' = 0
        <4>1. failed = {}
          BY <1>3, <1>9, <2>3 DEF FailedPart
        <4>2. [e \in failed |-> e.size] \in [{} -> Nat]
          BY <4>1
        <4>3. Total([e \in failed |-> e.size]) = 0
          BY <4>2, TotalEmpty
        <4> QED
          BY <1>14, <4>3 DEF Failed
      <3>2. Given' = Passed
        <4>1. Given' \in Nat
          BY <1>11, <1>14, TotalType, FilesAssumption
        <4> QED
          BY <1>15, <3>1, <4>1
      <3>3. CASE kind = "file"
        <4>1. Passed = max
          BY <1>16, <2>1, <3>3 DEF Passed, AtLimit, Allowed
        <4> QED
          BY <1>3, <2>1, <3>2, <3>3, <4>1 DEF SuccessIsWhole
      <3>4. CASE kind = "exists"
        <4>1. Passed = 0
          BY <1>16, <3>4 DEF Passed, Allowed
        <4> QED
          BY <1>3, <2>1, <3>2, <3>4, <4>1 DEF SuccessIsWhole
      <3> QED
        BY <2>3, <3>3, <3>4 DEF Typed, Kinds
    <2> QED
      BY <2>2, <2>3
  <1>18. CASE ~limitHit
    <2>1. client' = "success"
      BY <1>2, <1>18
    <2>2. Passed = results
      <3>1. Where("mark") = {}
        BY <1>2 DEF StageSteady, Where
      <3>2. At("mark") = 0
        BY <3>1, FS_EmptySet DEF At
      <3>3. results <= Allowed
        BY <1>16, <1>18, <3>2 DEF Bounded
      <3> QED
        BY <3>3 DEF Passed
    <2>3. ASSUME NEW f \in Files
          PROVE  found'[f] = IF Unread(f)' THEN 0 ELSE Expected(f)'
      <3>1. Going'
        BY <1>6, <1>18
      <3>2. /\ q[f] = "given" => c[f] = Expected(f)
            /\ q[f] = "gone" => Matches[f] = 0
        BY <1>9, <1>14, <3>1 DEF WholePart
      <3>3. Matches[f] = 0 => Expected(f) = 0
        BY DEF Expected
      <3>4. ~Unread(f) => c[f] = Expected(f)
        BY <1>10, <1>12, <3>2, <3>3
      <3> QED
        BY <1>11, <1>12, <1>14, <3>4
    <2> QED
      BY <1>3, <1>15, <2>1, <2>2, <2>3 DEF SuccessIsWhole
  <1> QED
    BY <1>17, <1>18

Ledger == client = "listening" => \E p, c : Books(p, c)

LEMMA LedgerInit ==
  Init => Ledger
  <1> SUFFICES ASSUME Init PROVE \E p, c : Books(p, c)
    BY DEF Ledger
  <1>1. /\ stage = "validating" /\ todo = {} /\ rest = Folders /\ results = 0
        /\ walker = [w \in Walkers |-> Gone] /\ limitHit = FALSE /\ failed = {}
        /\ queue = <<>> /\ batch = <<>> /\ found = [f \in Files |-> 0]
    BY DEF Init
  <1>2. PICK p, c : p = [f \in Files |-> "ahead"] /\ c = [f \in Files |-> 0]
    OBVIOUS
  <1>3. /\ p \in [Files -> Places] /\ c \in [Files -> Nat]
        /\ \A f \in Files : p[f] = "ahead" /\ c[f] = 0
    BY <1>2 DEF Places
  <1>4. Entries(p, c) /\ EmptyPart(p, c) /\ WholePart(p, c)
    BY <1>3 DEF Entries, EmptyPart, WholePart
  <1>5. AheadPart(p)
    <2>1. ASSUME NEW f \in Files PROVE \E i \in DOMAIN rest : f \in rest[i]
      <3>1. PICK folder \in Range(Folders) : f \in folder
        BY DEF Files
      <3> QED
        BY <1>1, <3>1 DEF Range
    <2>2. \A i, j \in DOMAIN rest : i # j => rest[i] \cap rest[j] = {}
      BY <1>1, FilesAssumption
    <2> QED
      BY <1>1, <1>3, <2>1, <2>2 DEF AheadPart, Ahead
  <1>6. HeldPart(p, c)
    <2>1. \A w \in Walkers : walker[w].at \notin Busy
      BY <1>1, Shapes DEF Busy
    <2> QED
      BY <1>3, <2>1 DEF HeldPart, Holds
  <1>7. Queued(Line, p, c)
    <2>1. Line = <<>>
      BY <1>1 DEF Line
    <2> QED
      BY <1>3, <2>1 DEF Queued
  <1>8. FoundPart(p, c) /\ FailedPart(p, c)
    BY <1>1, <1>3 DEF FoundPart, FailedPart, Unread
  <1>9. Total(c) = Passed
    <2>1. Total(c) = 0
      BY <1>3, TotalEmpty
    <2>2. Allowed \in Nat
      BY TypedInit, AllowedType
    <2> QED
      BY <1>1, <2>1, <2>2 DEF Passed
  <1> QED
    BY <1>4, <1>5, <1>6, <1>7, <1>8, <1>9 DEF Books

LEMMA LedgerStep ==
  TypeOK /\ Typed /\ ClientSteady /\ StageSteady /\ Ledger /\ [Next]_vars => Ledger'
  <1> SUFFICES ASSUME TypeOK, Typed, ClientSteady, StageSteady, Ledger, [Next]_vars,
                      client' = "listening"
               PROVE  \E q, d : Books(q, d)'
    BY DEF Ledger
  <1>1. client = "listening"
    BY DEF Next, vars, Cancel, Unlisten, Refuse, Settle, NextFolder, WalkEnds, Drain, Timeout,
           Complete, Result, Step, Visit, Read, ReadFails, Count, Mark, WalkerLeaves
  <1>2. active /\ ~cancelled
    BY <1>1 DEF ClientSteady
  <1>3. PICK p, c : Books(p, c)
    BY <1>1 DEF Ledger
  <1>4. ~Cancel /\ ~Unlisten /\ ~Refuse
    BY <1>1, <1>2 DEF Cancel, Unlisten, Refuse, Settle
  <1>5. ~Complete
    <2> SUFFICES ASSUME Complete PROVE FALSE
      OBVIOUS
    <2>1. client' = Result /\ Result # "listening"
      BY <1>1, <1>2 DEF Complete, Settle, Result
    <2> QED
      BY <2>1
  <1>6. CASE NextFolder
    BY <1>3, <1>6, LedgerNextFolder
  <1>7. CASE WalkEnds
    BY <1>2, <1>3, <1>7, LedgerWalkEnds
  <1>8. CASE Drain
    <2>1. /\ queue # <<>> /\ queue' = Tail(queue) /\ UNCHANGED <<query, walkVars, stage>>
          /\ Added(Append(batch, Head(queue)))
      BY <1>8 DEF Drain, CollectorLeaves
    <2>2. PICK items \in Seq(Item), later \in Seq(Item) :
            items = Append(batch, Head(queue)) /\ later = Tail(queue) /\ Line = items \o later
      BY <2>1, LineType, LineShifts DEF Line
    <2>3. CASE Flushed(items)
      <3>1. Line' = later
        BY <2>1, <2>2, <2>3 DEF Line, Flushed
      <3>2. Going' => Going
        BY <2>1 DEF Going, walkVars
      <3> QED
        BY <1>1, <1>2, <1>3, <2>1, <2>2, <2>3, <3>1, <3>2, LedgerFlush
    <2>4. CASE batch' = items /\ UNCHANGED found
      <3>1. Line' = Line
        BY <2>1, <2>2, <2>4 DEF Line
      <3> QED
        BY <1>3, <2>1, <2>4, <3>1, LedgerStays
    <2> QED
      BY <2>1, <2>2, <2>3, <2>4 DEF Added
  <1>9. CASE Timeout
    <2>1. Flushed(batch) /\ UNCHANGED <<query, walkVars, stage, queue>>
      BY <1>9 DEF Timeout, CollectorLeaves
    <2>2. PICK items \in Seq(Item), later \in Seq(Item) : items = batch /\ later = queue
      BY LineType
    <2>3. Line = items \o later /\ Line' = later /\ Flushed(items)
      BY <2>1, <2>2 DEF Line, Flushed
    <2>4. Going' => Going
      BY <2>1 DEF Going, walkVars
    <2> QED
      BY <1>1, <1>2, <1>3, <2>1, <2>3, <2>4, LedgerFlush
  <1>10. ASSUME NEW w \in Walkers, Step(w) PROVE \E q, d : Books(q, d)'
    BY <1>2, <1>3, <1>10, LedgerVisit, LedgerRead, LedgerReadFails, LedgerCount, LedgerMark
       DEF Step
  <1>11. CASE UNCHANGED vars
    <2>1. Line' = Line /\ UNCHANGED <<query, stage, walkVars, found>>
      BY <1>11 DEF vars, Line, drainVars
    <2> QED
      BY <1>3, <2>1, LedgerStays
  <1> QED
    BY <1>4, <1>5, <1>6, <1>7, <1>8, <1>9, <1>10, <1>11 DEF Next

LEMMA WholeStep ==
  /\ TypeOK /\ Typed /\ Bounded /\ ClientSteady /\ StageSteady /\ LimitSteady
  /\ Ledger /\ SuccessIsWhole /\ [Next]_vars
  => SuccessIsWhole'
  <1> SUFFICES ASSUME TypeOK, Typed, Bounded, ClientSteady, StageSteady, LimitSteady,
                      Ledger, SuccessIsWhole, [Next]_vars
               PROVE  SuccessIsWhole'
    OBVIOUS
  <1>1. CASE client' \notin {"success", "limited"}
    BY <1>1 DEF SuccessIsWhole
  <1>2. CASE client' \in {"success", "limited"} /\ client # client'
    <2>1. Complete /\ client = "listening"
      BY <1>2 DEF Next, vars, Cancel, Unlisten, Refuse, Settle, NextFolder, WalkEnds, Drain,
         Timeout, Complete, Step, Visit, Read, ReadFails, Count, Mark, WalkerLeaves
    <2>2. PICK p, c : Books(p, c)
      BY <2>1 DEF Ledger
    <2> QED
      BY <1>2, <2>1, <2>2, CompletesWhole
  <1>3. CASE client' \in {"success", "limited"} /\ client = client'
    <2>1. /\ stage = "ended" /\ batch = <<>> /\ queue = <<>> /\ ~timer
          /\ \A w \in Walkers : walker[w].at = "quit"
      BY <1>3 DEF ClientSteady, StageSteady, TypeOK
    <2>2. Unlisten \/ UNCHANGED vars
      BY <1>3, <2>1 DEF Next, Cancel, Refuse, NextFolder, WalkEnds, Drain,
         Timeout, Complete, Step, Visit, Read, ReadFails, Count, Mark
    <2>3. UNCHANGED <<kind, max, results, failed, found, client>>
      BY <2>2 DEF Unlisten, vars, query, walkVars
    <2> QED
      BY <2>3 DEF SuccessIsWhole, Given, Failed, Unread, Expected
  <1> QED
    BY <1>1, <1>2, <1>3

\* A search that ends well has given its client all it counted: however its
\* walkers, its batches and the end of the walk interleave, a success gives
\* every result of every file that could be read, and a search stopped at its
\* limit gives what the limit promises (Counters and drive, engine.rs).
THEOREM SearchGivesTheWhole ==
  Spec => []SuccessIsWhole
  <1> DEFINE Whole == /\ TypeOK /\ Typed /\ Bounded
                      /\ ClientSteady /\ StageSteady /\ LimitSteady
                      /\ Ledger /\ SuccessIsWhole
  <1>1. Init => Whole
    <2>1. Init => SuccessIsWhole
      BY DEF Init, SuccessIsWhole
    <2> QED
      BY <2>1, TypesInit, BoundedInit, SteadyInit, LedgerInit
  <1>2. Whole /\ [Next]_vars => Whole'
    BY TypesStep, BoundedStep, ClientSteadyStep, StageSteadyStep, LimitSteadyStep, LedgerStep,
       WholeStep
  <1> QED
    BY <1>1, <1>2, PTL DEF Spec

=============================================================================
