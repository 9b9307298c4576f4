------------------------------ MODULE UiProofs ------------------------------
(***************************************************************************)
(* Proofs about module Ui, for any number of projects, tasks, actions,     *)
(* schedules, requests and troubles: the types, the cursor on a line that  *)
(* can be selected, the window that shows it, the life of a message.       *)
(*                                                                         *)
(* BuildLines numbers the lines by their place in a total order.           *)
(* Numbering says that the places of a finite total order are 0..n-1, and  *)
(* KeysOrdered that Above is one, so that Built can say which lines there  *)
(* are; SomeSelectable then finds one among them, and SkipSelects ends at  *)
(* it.  Folding and unfolding what the cursor is on leaves that line where *)
(* it was (StaysInPlace), for all it touches is drawn further down.  The   *)
(* invariant Inv adds what is in flight (FlightOK), what the notes know    *)
(* (NotesOK) and that the lines are those of the rows loaded (LinesBuilt). *)
(***************************************************************************)
EXTENDS Ui, FiniteSetTheorems, TLAPS

-----------------------------------------------------------------------------
(* Numbers and orders.                                                     *)

\* A set of natural numbers has a least one.
LEMMA Least ==
    ASSUME NEW S \in SUBSET Nat, S # {}
    PROVE  \E x \in S : \A y \in S : x <= y
<1>1. PICK x \in S : \A y \in S : ~ (<<y, x>> \in OpToRel(<, Nat))
  BY NatLessThanWellFounded, WFMin
<1>2. \A y \in S : ~ (y < x)
  BY <1>1 DEF OpToRel
<1>. QED
  BY <1>2

\* Min and Max are elements of a set that is bounded.
LEMMA MinMax ==
    ASSUME NEW n \in Nat, NEW S \in SUBSET (0..n), S # {}
    PROVE  /\ Min(S) \in S /\ \A y \in S : Min(S) <= y
           /\ Max(S) \in S /\ \A y \in S : y <= Max(S)
<1>1. \E x \in S : \A y \in S : x <= y
  BY Least
<1>2. \E x \in S : \A y \in S : x >= y
  <2>. DEFINE T == {n - x : x \in S}
  <2>1. T \in SUBSET Nat /\ T # {}
    <3>1. \A x \in S : n - x \in Nat
      OBVIOUS
    <3>. QED
      BY <3>1
  <2>2. PICK z \in T : \A y \in T : z <= y
    BY <2>1, Least
  <2>3. PICK x \in S : z = n - x
    OBVIOUS
  <2>4. \A y \in S : n - x <= n - y
    BY <2>2, <2>3
  <2>. QED
    BY <2>4
<1>. QED
  BY <1>1, <1>2 DEF Min, Max

\* R orders the set S.
Orders(R, S) ==
    /\ \A x \in S : <<x, x>> \notin R
    /\ \A x, y, z \in S : <<x, y>> \in R /\ <<y, z>> \in R => <<x, z>> \in R
    /\ \A x, y \in S : x # y => <<x, y>> \in R \/ <<y, x>> \in R

Below(R, S, x) == {y \in S : <<y, x>> \in R}

\* Counting what is below, each element of a finite set has a number of its own,
\* and none is left out.
LEMMA Numbering ==
    ASSUME NEW S, IsFiniteSet(S), NEW R, Orders(R, S)
    PROVE  /\ \A x \in S : Cardinality(Below(R, S, x)) \in 0..(Cardinality(S) - 1)
           /\ \A x, y \in S : Cardinality(Below(R, S, x)) = Cardinality(Below(R, S, y)) => x = y
           /\ \A i \in 0..(Cardinality(S) - 1) : \E x \in S : Cardinality(Below(R, S, x)) = i
<1>. DEFINE n == Cardinality(S)
            f == [x \in S |-> Cardinality(Below(R, S, x))]
<1>0. n \in Nat
  BY FS_CardinalityType
<1>1. ASSUME NEW x \in S
      PROVE  /\ IsFiniteSet(Below(R, S, x)) /\ Cardinality(Below(R, S, x)) \in 0..(n - 1)
  <2>1. Below(R, S, x) \in SUBSET S /\ Below(R, S, x) # S
    BY DEF Below, Orders
  <2>2. IsFiniteSet(Below(R, S, x)) /\ Cardinality(Below(R, S, x)) <= n
        /\ Cardinality(Below(R, S, x)) # n
    BY <2>1, FS_Subset
  <2>3. Cardinality(Below(R, S, x)) \in Nat
    BY <2>2, FS_CardinalityType
  <2>. QED
    BY <1>0, <2>2, <2>3
<1>2. ASSUME NEW x \in S, NEW y \in S, <<x, y>> \in R
      PROVE  Cardinality(Below(R, S, x)) # Cardinality(Below(R, S, y))
  <2>1. /\ Below(R, S, x) \in SUBSET Below(R, S, y)
        /\ x \in Below(R, S, y) /\ x \notin Below(R, S, x)
    BY <1>2 DEF Below, Orders
  <2>. QED
    BY <1>1, <2>1, FS_Subset
<1>3. \A x, y \in S : Cardinality(Below(R, S, x)) = Cardinality(Below(R, S, y)) => x = y
  BY <1>2 DEF Orders
<1>4. f \in Injection(S, 0..(n - 1))
  BY <1>1, <1>3 DEF Injection, IsInjective
<1>5. IsFiniteSet(0..(n - 1)) /\ Cardinality(0..(n - 1)) = n
  BY <1>0, FS_Interval
<1>6. f \in Surjection(S, 0..(n - 1))
  BY <1>4, <1>5, FS_Injection
<1>7. \A i \in 0..(n - 1) : \E x \in S : f[x] = i
  BY <1>6 DEF Surjection
<1>. QED
  BY <1>1, <1>3, <1>7

\* Keys of seven numbers are compared at the first that differs.
LEMMA FirstDifference ==
    ASSUME NEW x, NEW y
    PROVE  Before(x, y) <=>
              \/ x[1] < y[1]
              \/ /\ x[1] = y[1]
                 /\ \/ x[2] < y[2]
                    \/ /\ x[2] = y[2]
                       /\ \/ x[3] < y[3]
                          \/ /\ x[3] = y[3]
                             /\ \/ x[4] < y[4]
                                \/ /\ x[4] = y[4]
                                   /\ \/ x[5] < y[5]
                                      \/ /\ x[5] = y[5]
                                         /\ \/ x[6] < y[6]
                                            \/ x[6] = y[6] /\ x[7] < y[7]
<1>1. 1..7 = {1, 2, 3, 4, 5, 6, 7} /\ 1..(1 - 1) = {} /\ 1..(2 - 1) = {1}
      /\ 1..(3 - 1) = {1, 2} /\ 1..(4 - 1) = {1, 2, 3} /\ 1..(5 - 1) = {1, 2, 3, 4}
      /\ 1..(6 - 1) = {1, 2, 3, 4, 5} /\ 1..(7 - 1) = {1, 2, 3, 4, 5, 6}
  OBVIOUS
<1>. QED
  BY <1>1 DEF Before

Keys == [1..7 -> Int]

\* That is an order of the keys.
LEMMA KeysOrdered ==
    ASSUME NEW x \in Keys, NEW y \in Keys, NEW z \in Keys
    PROVE  /\ ~Before(x, x)
           /\ Before(x, y) /\ Before(y, z) => Before(x, z)
           /\ Before(x, y) \/ Before(y, x) \/ \A k \in 1..7 : x[k] = y[k]
<1>1. /\ x[1] \in Int /\ x[2] \in Int /\ x[3] \in Int /\ x[4] \in Int /\ x[5] \in Int
      /\ x[6] \in Int /\ x[7] \in Int
  BY DEF Keys
<1>2. /\ y[1] \in Int /\ y[2] \in Int /\ y[3] \in Int /\ y[4] \in Int /\ y[5] \in Int
      /\ y[6] \in Int /\ y[7] \in Int
  BY DEF Keys
<1>3. /\ z[1] \in Int /\ z[2] \in Int /\ z[3] \in Int /\ z[4] \in Int /\ z[5] \in Int
      /\ z[6] \in Int /\ z[7] \in Int
  BY DEF Keys
<1>4. ~Before(x, x)
  BY <1>1, FirstDifference
<1>5. Before(x, y) /\ Before(y, z) => Before(x, z)
  BY <1>1, <1>2, <1>3, FirstDifference
<1>6. Before(x, y) \/ Before(y, x) \/ \A k \in 1..7 : x[k] = y[k]
  <2>1. 1..7 = {1, 2, 3, 4, 5, 6, 7}
    OBVIOUS
  <2>. QED
    BY <1>1, <1>2, <2>1, FirstDifference
<1>. QED
  BY <1>4, <1>5, <1>6

-----------------------------------------------------------------------------
(* The lines and their order.                                              *)

Types == {"top", "project", "bottom", "separator", "task", "action"}

Folding == [project : [Projects -> Folds], task : [Tasks -> Folds]]

\* What line is shown on what grounds.
LEMMA ShownKinds ==
    ASSUME NEW v \in Board, NEW e \in Folding, NEW l
    PROVE  l \in ShownLines(v, e) <=>
              \/ /\ \E p \in Projects, x \in {"top", "project", "bottom"} :
                       l = Line(x, p) /\ v.project[p] # "gone"
              \/ /\ \E t \in Tasks, x \in {"separator", "task"} :
                       /\ l = Line(x, t) /\ TaskShows(v, t)
                       /\ v.project[ProjectOf[t]] # "gone" /\ e.project[ProjectOf[t]] = "open"
              \/ /\ \E a \in Actions :
                       /\ l = Line("action", a) /\ v.action[a] # "gone"
                       /\ TaskShows(v, TaskOf[a]) /\ e.task[TaskOf[a]] = "open"
                       /\ v.project[ProjectOf[TaskOf[a]]] # "gone"
                       /\ e.project[ProjectOf[TaskOf[a]]] = "open"
BY IdsAssumption DEF ShownLines

\* A line has the fields it has been made of.
LEMMA LineFields == \A x, i : Line(x, i).type = x /\ Line(x, i).id = i
BY DEF Line

\* The row a line is about exists and is to be seen.
LEMMA ShownRows ==
    ASSUME NEW v \in Board, NEW e \in Folding, NEW l \in ShownLines(v, e)
    PROVE  /\ l.type \in Types /\ l = Line(l.type, l.id) /\ l.id \in Nat
           /\ l.type \in {"top", "project", "bottom"} => l.id \in Projects
           /\ l.type \in {"separator", "task"} => l.id \in Tasks /\ v.task[l.id] \in {"open", "done", "old"}
           /\ l.type = "action" => /\ l.id \in Actions /\ TaskOf[l.id] \in Tasks
                                   /\ v.task[TaskOf[l.id]] \in {"open", "done", "old"}
                                   /\ v.action[l.id] \in {"pending", "running", "done"}
<1>1. CASE \E p \in Projects, x \in {"top", "project", "bottom"} : l = Line(x, p)
  BY <1>1, LineFields, IdsAssumption DEF Types
<1>2. CASE \E t \in Tasks, x \in {"separator", "task"} : l = Line(x, t) /\ TaskShows(v, t)
  BY <1>2, LineFields, IdsAssumption DEF Types, TaskShows
<1>3. CASE \E a \in Actions : /\ l = Line("action", a) /\ v.action[a] # "gone"
                              /\ TaskShows(v, TaskOf[a])
  <2>1. PICK a \in Actions : l = Line("action", a) /\ v.action[a] # "gone" /\ TaskShows(v, TaskOf[a])
    BY <1>3
  <2>2. v.action[a] \in ActionStatus
    BY DEF Board
  <2>. QED
    BY <2>1, <2>2, LineFields, IdsAssumption DEF Types, TaskShows, ActionStatus
<1>. QED
  BY <1>1, <1>2, <1>3, ShownKinds

\* The place of a line, number by number.
PlacedAt(k, a, b, c, d, f, g, h) ==
    /\ k \in Keys
    /\ k[1] = a /\ k[2] = b /\ k[3] = c /\ k[4] = d /\ k[5] = f /\ k[6] = g /\ k[7] = h

\* Seven numbers are a key.
LEMMA SevenNumbers ==
    ASSUME NEW a \in Int, NEW b \in Int, NEW c \in Int, NEW d \in Int, NEW f \in Int,
           NEW g \in Int, NEW h \in Int
    PROVE  PlacedAt(<<a, b, c, d, f, g, h>>, a, b, c, d, f, g, h)
BY DEF PlacedAt, Keys

\* Every status that is shown has a rank.
LEMMA Ranked ==
    \A s \in {"done", "old", "open", "running", "pending"} : Rank(s) \in Int
BY DEF Rank

\* The places of the lines.
LEMMA Places ==
    ASSUME NEW v \in Board, NEW e \in Folding, NEW l \in ShownLines(v, e)
    PROVE  /\ l.type = "top" => PlacedAt(Place(v, l), l.id, 1, 0, 0, 0, 0, 0)
           /\ l.type = "project" => PlacedAt(Place(v, l), l.id, 2, 0, 0, 0, 0, 0)
           /\ l.type = "bottom" => PlacedAt(Place(v, l), l.id, 4, 0, 0, 0, 0, 0)
           /\ l.type = "separator" =>
                 PlacedAt(Place(v, l), ProjectOf[l.id], 3, Rank(v.task[l.id]), -l.id, 1, 0, 0)
           /\ l.type = "task" =>
                 PlacedAt(Place(v, l), ProjectOf[l.id], 3, Rank(v.task[l.id]), -l.id, 2, 0, 0)
           /\ l.type = "action" =>
                 PlacedAt(Place(v, l), ProjectOf[TaskOf[l.id]], 3, Rank(v.task[TaskOf[l.id]]),
                          -TaskOf[l.id], 3, Rank(v.action[l.id]), -l.id)
<1>1. l.id \in Int
  BY ShownRows
<1>2. ASSUME l.type = "top" PROVE PlacedAt(Place(v, l), l.id, 1, 0, 0, 0, 0, 0)
  BY <1>1, <1>2, SevenNumbers DEF Place
<1>3. ASSUME l.type = "project" PROVE PlacedAt(Place(v, l), l.id, 2, 0, 0, 0, 0, 0)
  BY <1>1, <1>3, SevenNumbers DEF Place
<1>4. ASSUME l.type = "bottom" PROVE PlacedAt(Place(v, l), l.id, 4, 0, 0, 0, 0, 0)
  <2>1. Place(v, l) = <<l.id, 4, 0, 0, 0, 0, 0>>
    BY <1>4 DEF Place
  <2>. QED
    BY <1>1, <2>1, SevenNumbers
<1>5. ASSUME l.type \in {"separator", "task"}
      PROVE  ProjectOf[l.id] \in Int /\ Rank(v.task[l.id]) \in Int /\ -l.id \in Int
  BY <1>1, <1>5, ShownRows, Ranked, IdsAssumption
<1>6. ASSUME l.type = "separator"
      PROVE  PlacedAt(Place(v, l), ProjectOf[l.id], 3, Rank(v.task[l.id]), -l.id, 1, 0, 0)
  <2>1. Place(v, l) = <<ProjectOf[l.id], 3, Rank(v.task[l.id]), -l.id, 1, 0, 0>>
    BY <1>6 DEF Place
  <2>. QED
    BY <1>5, <1>6, <2>1, SevenNumbers
<1>7. ASSUME l.type = "task"
      PROVE  PlacedAt(Place(v, l), ProjectOf[l.id], 3, Rank(v.task[l.id]), -l.id, 2, 0, 0)
  <2>1. Place(v, l) = <<ProjectOf[l.id], 3, Rank(v.task[l.id]), -l.id, 2, 0, 0>>
    BY <1>7 DEF Place
  <2>. QED
    BY <1>5, <1>7, <2>1, SevenNumbers
<1>8. ASSUME l.type = "action"
      PROVE  PlacedAt(Place(v, l), ProjectOf[TaskOf[l.id]], 3, Rank(v.task[TaskOf[l.id]]),
                      -TaskOf[l.id], 3, Rank(v.action[l.id]), -l.id)
  <2>1. /\ ProjectOf[TaskOf[l.id]] \in Int /\ Rank(v.task[TaskOf[l.id]]) \in Int
        /\ -TaskOf[l.id] \in Int /\ Rank(v.action[l.id]) \in Int /\ -l.id \in Int
    BY <1>1, <1>8, ShownRows, Ranked, IdsAssumption
  <2>2. Place(v, l) = <<ProjectOf[TaskOf[l.id]], 3, Rank(v.task[TaskOf[l.id]]), -TaskOf[l.id],
                        3, Rank(v.action[l.id]), -l.id>>
    BY <1>8 DEF Place
  <2>. QED
    BY <2>1, <2>2, SevenNumbers
<1>. QED
  BY <1>2, <1>3, <1>4, <1>6, <1>7, <1>8

\* No two lines have the same place.
LEMMA PlacesDiffer ==
    ASSUME NEW v \in Board, NEW e \in Folding, NEW l \in ShownLines(v, e),
           NEW m \in ShownLines(v, e), \A k \in 1..7 : Place(v, l)[k] = Place(v, m)[k]
    PROVE  l = m
<1>1. /\ l.type \in Types /\ l = Line(l.type, l.id) /\ l.id \in Nat
      /\ m.type \in Types /\ m = Line(m.type, m.id) /\ m.id \in Nat
  BY ShownRows
<1>2. l.type = "action" => TaskOf[l.id] \in Nat
  BY ShownRows, IdsAssumption
<1>3. m.type = "action" => TaskOf[m.id] \in Nat
  BY ShownRows, IdsAssumption
<1>. DEFINE x == Place(v, l)
            y == Place(v, m)
<1>4. x[1] = y[1] /\ x[2] = y[2] /\ x[4] = y[4] /\ x[5] = y[5] /\ x[7] = y[7]
  OBVIOUS
<1>5. l.type = m.type
  BY <1>1, <1>4, Places DEF Types, PlacedAt
<1>6. l.id = m.id
  BY <1>1, <1>4, <1>5, Places DEF Types, PlacedAt
<1>. QED
  BY <1>1, <1>5, <1>6

\* The order of the lines.
Order(v, e) == {x \in ShownLines(v, e) \X ShownLines(v, e) : Before(Place(v, x[1]), Place(v, x[2]))}

\* It is one.
LEMMA LinesOrdered ==
    ASSUME NEW v \in Board, NEW e \in Folding
    PROVE  Orders(Order(v, e), ShownLines(v, e))
<1>1. \A l \in ShownLines(v, e) : Place(v, l) \in Keys
  BY Places, ShownRows DEF Types, PlacedAt
<1>2. ASSUME NEW l \in ShownLines(v, e) PROVE ~Before(Place(v, l), Place(v, l))
  BY <1>1, KeysOrdered
<1>3. ASSUME NEW l \in ShownLines(v, e), NEW m \in ShownLines(v, e), NEW n \in ShownLines(v, e),
             Before(Place(v, l), Place(v, m)), Before(Place(v, m), Place(v, n))
      PROVE  Before(Place(v, l), Place(v, n))
  BY <1>1, <1>3, KeysOrdered
<1>4. ASSUME NEW l \in ShownLines(v, e), NEW m \in ShownLines(v, e), l # m
      PROVE  Before(Place(v, l), Place(v, m)) \/ Before(Place(v, m), Place(v, l))
  BY <1>1, <1>4, KeysOrdered, PlacesDiffer
<1>. QED
  BY <1>2, <1>3, <1>4 DEF Orders, Order

\* There are finitely many lines.
LEMMA LinesFinite ==
    ASSUME NEW v \in Board, NEW e \in Folding
    PROVE  IsFiniteSet(ShownLines(v, e))
<1>. DEFINE Ids == Projects \cup Tasks \cup Actions
            name == <<"top", "project", "bottom", "separator", "task", "action">>
            all == {Line(name[x[1]], x[2]) : x \in (1..6) \X Ids}
            f == [x \in (1..6) \X Ids |-> Line(name[x[1]], x[2])]
<1>1. IsFiniteSet(Ids)
  BY FS_Union, IdsAssumption
<1>2. IsFiniteSet((1..6) \X Ids)
  <2>1. IsFiniteSet(1..6)
    <3>1. 1 \in Int /\ 6 \in Int
      OBVIOUS
    <3>. QED
      BY <3>1, FS_Interval, Zenon
  <2>. QED
    BY <1>1, <2>1, FS_Product
<1>3. f \in Surjection((1..6) \X Ids, all)
  BY DEF Surjection
<1>4. IsFiniteSet(all)
  BY <1>2, <1>3, FS_Surjection
<1>5. ShownLines(v, e) \subseteq all
  <2>. SUFFICES ASSUME NEW l \in ShownLines(v, e) PROVE l \in all
    OBVIOUS
  <2>1. l.id \in Ids /\ l.type \in Types /\ l = Line(l.type, l.id)
    BY ShownRows DEF Types
  <2>2. PICK i \in 1..6 : l.type = name[i]
    BY <2>1 DEF Types
  <2>3. <<i, l.id>> \in (1..6) \X Ids /\ l = Line(name[<<i, l.id>>[1]], <<i, l.id>>[2])
    BY <2>1, <2>2
  <2>. HIDE DEF name, Ids
  <2>. QED
    BY <2>3
<1>. QED
  BY <1>4, <1>5, FS_Subset

-----------------------------------------------------------------------------
(* What buildLines makes of them.                                          *)

Number(v, e, l) == Cardinality(Above(v, ShownLines(v, e), l))

\* The line shown at i is the one with i - 1 lines above it, so each line is
\* shown once.
LEMMA Built ==
    ASSUME NEW v \in Board, NEW e \in Folding
    PROVE  LET n == Cardinality(ShownLines(v, e))
               ls == BuildLines(v, e)
           IN  /\ n \in Nat /\ ls \in [1..n -> ShownLines(v, e)] /\ Len(ls) = n
               /\ \A i \in 1..n : Number(v, e, ls[i]) = i - 1
               /\ \A l \in ShownLines(v, e) :
                     Number(v, e, l) \in 0..(n - 1) /\ ls[Number(v, e, l) + 1] = l
<1>. DEFINE S == ShownLines(v, e)
            n == Cardinality(S)
            ls == BuildLines(v, e)
            seats == {<<Number(v, e, l), l>> : l \in S}
<1>1. \A l \in S : Below(Order(v, e), S, l) = Above(v, S, l)
  BY DEF Below, Order, Above
<1>2. n \in Nat
  BY LinesFinite, FS_CardinalityType
<1>3. /\ \A l \in S : Number(v, e, l) \in 0..(n - 1)
      /\ \A l, m \in S : Number(v, e, l) = Number(v, e, m) => l = m
      /\ \A i \in 0..(n - 1) : \E l \in S : Number(v, e, l) = i
  BY <1>1, LinesFinite, LinesOrdered, Numbering DEF Number
<1>4. ls = [i \in 1..n |-> (CHOOSE x \in seats : x[1] = i - 1)[2]]
  BY DEF BuildLines, Number
<1>5. ASSUME NEW i \in 1..n
      PROVE  ls[i] \in S /\ Number(v, e, ls[i]) = i - 1
  <2>1. PICK l \in S : Number(v, e, l) = i - 1
    BY <1>2, <1>3
  <2>2. <<Number(v, e, l), l>> \in seats
    OBVIOUS
  <2>3. \E x \in seats : x[1] = i - 1
    BY <2>1, <2>2
  <2>. DEFINE c == CHOOSE x \in seats : x[1] = i - 1
  <2>4. c \in seats /\ c[1] = i - 1
    BY <2>3
  <2>5. PICK m \in S : c = <<Number(v, e, m), m>>
    BY <2>4
  <2>6. ls[i] = c[2]
    BY <1>4
  <2>. HIDE DEF c, ls, S
  <2>. QED
    BY <2>4, <2>5, <2>6
<1>6. ls \in [1..n -> S] /\ Len(ls) = n
  BY <1>2, <1>4, <1>5
<1>7. ASSUME NEW l \in S
      PROVE  Number(v, e, l) \in 0..(n - 1) /\ ls[Number(v, e, l) + 1] = l
  <2>1. Number(v, e, l) + 1 \in 1..n
    BY <1>2, <1>3
  <2>2. Number(v, e, ls[Number(v, e, l) + 1]) = Number(v, e, l)
    BY <1>2, <1>3, <1>5, <2>1
  <2>. QED
    BY <1>3, <1>5, <2>1, <2>2
<1>. QED
  BY <1>2, <1>5, <1>6, <1>7

\* A line below l that comes or goes leaves l where it is.
LEMMA StaysInPlace ==
    ASSUME NEW v \in Board, NEW e \in Folding, NEW f \in Folding,
           NEW i \in 1..Len(BuildLines(v, e)), BuildLines(v, e)[i] \in ShownLines(v, f),
           \A m \in (ShownLines(v, e) \ ShownLines(v, f)) \cup (ShownLines(v, f) \ ShownLines(v, e)) :
              ~Before(Place(v, m), Place(v, BuildLines(v, e)[i]))
    PROVE  i \in 1..Len(BuildLines(v, f)) /\ BuildLines(v, f)[i] = BuildLines(v, e)[i]
<1>. DEFINE l == BuildLines(v, e)[i]
<1>1. Above(v, ShownLines(v, e), l) = Above(v, ShownLines(v, f), l)
  BY DEF Above
<1>2. Number(v, f, l) = i - 1
  BY <1>1, Built DEF Number
<1>3. /\ Len(BuildLines(v, f)) \in Nat
      /\ Number(v, f, l) \in 0..(Len(BuildLines(v, f)) - 1)
      /\ BuildLines(v, f)[Number(v, f, l) + 1] = l
  BY Built
<1>. QED
  BY <1>2, <1>3

\* Folding a project or a task changes only what is below its line.
LEMMA FoldedBelow ==
    ASSUME NEW v \in Board, NEW e \in Folding, NEW l \in ShownLines(v, e), NEW f \in Folding,
           \/ l.type = "project" /\ f.task = e.task
              /\ \A p \in Projects \ {l.id} : f.project[p] = e.project[p]
           \/ l.type = "task" /\ f.project = e.project
              /\ \A t \in Tasks \ {l.id} : f.task[t] = e.task[t]
    PROVE  /\ l \in ShownLines(v, f)
           /\ \A m \in (ShownLines(v, e) \ ShownLines(v, f)) \cup (ShownLines(v, f) \ ShownLines(v, e)) :
                 ~Before(Place(v, m), Place(v, l))
<1>1. CASE l.type = "project" /\ f.task = e.task /\ \A p \in Projects \ {l.id} : f.project[p] = e.project[p]
  <2>1. l \in ShownLines(v, f)
    BY <1>1, ShownKinds, LineFields
  <2>2. ASSUME NEW m \in (ShownLines(v, e) \ ShownLines(v, f)) \cup (ShownLines(v, f) \ ShownLines(v, e))
        PROVE  ~Before(Place(v, m), Place(v, l))
    <3>1. \/ m.type \in {"separator", "task"} /\ ProjectOf[m.id] = l.id
          \/ m.type = "action" /\ ProjectOf[TaskOf[m.id]] = l.id
      BY <1>1, ShownKinds, LineFields, IdsAssumption
    <3>2. Place(v, m)[1] = l.id /\ Place(v, m)[2] = 3 /\ Place(v, l)[1] = l.id /\ Place(v, l)[2] = 2
          /\ l.id \in Nat
      BY <1>1, <3>1, Places, ShownRows DEF PlacedAt
    <3>. QED
      BY <3>2, FirstDifference
  <2>. QED
    BY <2>1, <2>2
<1>2. CASE l.type = "task" /\ f.project = e.project /\ \A t \in Tasks \ {l.id} : f.task[t] = e.task[t]
  <2>1. l \in ShownLines(v, f)
    BY <1>2, ShownKinds, LineFields
  <2>2. ASSUME NEW m \in (ShownLines(v, e) \ ShownLines(v, f)) \cup (ShownLines(v, f) \ ShownLines(v, e))
        PROVE  ~Before(Place(v, m), Place(v, l))
    <3>1. m.type = "action" /\ TaskOf[m.id] = l.id
      BY <1>2, ShownKinds, LineFields, IdsAssumption
    <3>2. /\ Place(v, m)[1] = Place(v, l)[1] /\ Place(v, m)[2] = Place(v, l)[2]
          /\ Place(v, m)[3] = Place(v, l)[3] /\ Place(v, m)[4] = Place(v, l)[4]
          /\ Place(v, m)[5] = 3 /\ Place(v, l)[5] = 2
      BY <1>2, <3>1, Places DEF PlacedAt
    <3>3. Place(v, m) \in Keys /\ Place(v, l) \in Keys
      BY <1>2, <3>1, Places DEF PlacedAt
    <3>4. /\ Place(v, l)[1] \in Int /\ Place(v, l)[2] \in Int /\ Place(v, l)[3] \in Int
          /\ Place(v, l)[4] \in Int
      BY <3>3 DEF Keys
    <3>. QED
      BY <3>2, <3>4, FirstDifference
  <2>. QED
    BY <2>1, <2>2
<1>. QED
  BY <1>1, <1>2

\* Where there is a line, one can be selected: that of a project.
LEMMA SomeSelectable ==
    ASSUME NEW v \in Board, NEW e \in Folding, BuildLines(v, e) # <<>>
    PROVE  Selectable(BuildLines(v, e)) # {}
<1>. DEFINE ls == BuildLines(v, e)
            n == Cardinality(ShownLines(v, e))
<1>1. n \in Nat /\ ls \in [1..n -> ShownLines(v, e)] /\ Len(ls) = n
  BY Built
<1>2. n # 0
  BY <1>1
<1>3. PICK l \in ShownLines(v, e) : TRUE
  BY <1>1, <1>2
<1>4. PICK p \in Projects : v.project[p] # "gone"
  BY <1>3, ShownKinds, IdsAssumption
<1>5. Line("project", p) \in ShownLines(v, e)
  BY <1>4, ShownKinds
<1>6. PICK i \in 0..(n - 1) : ls[i + 1] = Line("project", p)
  BY <1>5, Built
<1>7. i \in Selectable(ls)
  BY <1>1, <1>6, LineFields DEF Selectable, Border
<1>. QED
  BY <1>7

-----------------------------------------------------------------------------
(* Where the cursor goes.                                                  *)

\* The larger of two numbers.
LEMMA MaxOfTwo ==
    ASSUME NEW a \in Int, NEW b \in Int
    PROVE  Max({a, b}) = IF a >= b THEN a ELSE b
BY DEF Max

\* A clamped cursor is within its list.
LEMMA ClampBounds ==
    ASSUME NEW c \in Nat, NEW n \in Nat
    PROVE  Clamp(c, n) \in Nat /\ Clamp(c, n) \in 0..Max({0, n - 1})
BY MaxOfTwo DEF Clamp

\* In a list of lines some of which can be selected, Skip ends at one of them.
LEMMA SkipSelects ==
    ASSUME NEW ls, Len(ls) \in Nat, ls # <<>> => Selectable(ls) # {},
           NEW c \in Int, NEW dir \in {-1, 1}
    PROVE  /\ Skip(ls, c, dir) \in Nat
           /\ ls # <<>> => Skip(ls, c, dir) \in Selectable(ls)
<1>1. CASE ls = <<>>
  BY <1>1 DEF Skip
<1>2. CASE ls # <<>>
  <2>. DEFINE S == Selectable(ls)
              ahead == {i \in S : (i - c) * dir >= 0}
  <2>1. S \in SUBSET (0..Len(ls)) /\ S \subseteq Nat
    BY DEF Selectable
  <2>2. \A T \in SUBSET S, d \in {-1, 1} : T # {} => First(T, d) \in T
    BY <2>1, MinMax DEF First
  <2>3. S # {}
    BY <1>2
  <2>4. Skip(ls, c, dir) = IF ahead # {} THEN First(ahead, dir) ELSE First(S, -dir)
    BY <1>2, <2>3 DEF Skip
  <2>5. -dir \in {-1, 1} /\ ahead \in SUBSET S
    OBVIOUS
  <2>. HIDE DEF ahead, S
  <2>6. Skip(ls, c, dir) \in S
    BY <2>2, <2>3, <2>4, <2>5
  <2>. QED
    BY <2>1, <2>6 DEF S
<1>. QED
  BY <1>1, <1>2

\* Any window shows the row it is calculated for.
LEMMA WindowHolds ==
    ASSUME NEW n \in Nat, NEW c \in 0..(n - 1), NEW height \in Int, NEW header \in Nat
    PROVE  c \in Visible(c, n, height, header)
<1>. DEFINE rows  == IF height <= header THEN 20 ELSE height - header
            start == Max({c - rows \div 2, 0})
            first == IF start + rows > n THEN n - rows ELSE start
<1>1. rows \in Nat /\ rows >= 1
  OBVIOUS
<1>. HIDE DEF rows
<1>2. rows \div 2 \in Nat /\ rows \div 2 <= rows - 1
  BY <1>1
<1>3. start = IF c - rows \div 2 >= 0 THEN c - rows \div 2 ELSE 0
  BY <1>2, MaxOfTwo
<1>. HIDE DEF start
<1>4. start \in Nat /\ start <= c /\ c <= start + rows - 1
  BY <1>1, <1>2, <1>3
<1>5. n > rows => first <= c /\ c <= first + rows - 1 /\ first \in Int
  BY <1>1, <1>4
<1>. HIDE DEF first
<1>6. Visible(c, n, height, header) = IF n <= rows THEN 0..(n - 1) ELSE first..(first + rows - 1)
  BY DEF Visible, rows, start, first
<1>. QED
  BY <1>1, <1>5, <1>6

-----------------------------------------------------------------------------
(* The invariant: the types, what the fields of a command say together,    *)
(* that the lines are those of what is loaded, where the cursors are, and  *)
(* that the generation of a message numbers it.                            *)

Targets == {"", "partial", "focused", "unfocused"}
Commands == [do : Kinds, on : Projects \cup Tasks \cup Actions \cup {None}, to : Targets,
             stage : Stages, err : BOOLEAN, got : Board]

CommandOK(c) ==
    /\ c \in Commands
    /\ c.do = "toggle focus" => c.on \in Projects /\ c.to \in {"focused", "unfocused"}
    /\ c.do = "task detail" => c.on \in Tasks
    /\ c.do \in {"attach", "resume", "dispatch"} => c.on \in Actions

DataOK   == db \in Board /\ view \in Board /\ schedules \in [Schedules -> ScheduleStatus]
FoldsOK  == expanded \in Folding
SwitchOK == /\ watched \in Tabs /\ tab \in Tabs /\ quitting \in BOOLEAN /\ ticking \in BOOLEAN
            /\ mode \in {"list", "action", "task"} /\ smode \in {"list", "detail"}
BoundsOK == requests \in 0..MaxRequests /\ troubles \in 0..MaxTroubles
FlightOK == \A c \in BagToSet(flight) : CommandOK(c)

Notes  == [text : {"", "info", "error"}, gen : Nat, nth : Nat]
Timers == [on : Tabs, gen : Nat, nth : Nat]
NotesOK ==
    /\ message \in [Tabs -> Notes] /\ timers \subseteq Timers
    /\ \A f \in Tabs : message[f].gen = message[f].nth
    /\ \A t \in timers : t.gen = t.nth

LinesBuilt == lines = BuildLines(view, expanded)
CursorOK   == cursor \in Nat /\ (lines # <<>> => cursor \in Selectable(lines))
ScursorOK  == /\ scursor \in Nat /\ detailIdx \in Nat
              /\ scursor \in 0..Max({0, Cardinality(Listed(schedules)) - 1})

Inv == /\ DataOK /\ FoldsOK /\ SwitchOK /\ BoundsOK /\ FlightOK /\ NotesOK
       /\ LinesBuilt /\ CursorOK /\ ScursorOK

\* An empty board is one.
LEMMA NothingShown ==
    /\ Nothing \in Board
    /\ \A e \in Folding : BuildLines(Nothing, e) = <<>>
<1>1. Nothing \in Board
  BY DEF Nothing, Board, ProjectStatus, TaskStatus, ActionStatus, ScheduleStatus
<1>2. ASSUME NEW e \in Folding PROVE BuildLines(Nothing, e) = <<>>
  <2>1. \A p \in Projects : Nothing.project[p] = "gone"
    BY DEF Nothing
  <2>2. ShownLines(Nothing, e) = {}
    BY <1>1, <2>1, ShownKinds, IdsAssumption
  <2>3. BuildLines(Nothing, e) \in [1..0 -> {}] /\ Len(BuildLines(Nothing, e)) = 0
    BY <1>1, <2>2, Built, FS_EmptySet
  <2>. QED
    BY <2>3
<1>. QED
  BY <1>1, <1>2

\* Commands as they are started.
LEMMA Started ==
    /\ CommandOK(LoadTasks) /\ CommandOK(LoadSchedules) /\ CommandOK(Reload)
    /\ \A t \in Tasks : CommandOK(Command("task detail", t, ""))
    /\ \A a \in Actions, k \in {"attach", "resume", "dispatch"} : CommandOK(Command(k, a, ""))
    /\ \A p \in Projects, x \in {"focused", "unfocused"} : CommandOK(Command("toggle focus", p, x))
BY NothingShown DEF CommandOK, Commands, Command, LoadTasks, LoadSchedules, Reload, Kinds, Stages,
   Targets

\* The start.
LEMMA InitInv == Init => Inv
<1>. SUFFICES ASSUME Init PROVE Inv
  OBVIOUS
<1>1. DataOK
  BY NothingShown, IdsAssumption DEF Init, DataOK, Board
<1>2. FoldsOK
  BY DEF Init, FoldsOK, Folding, Folds
<1>3. SwitchOK /\ BoundsOK
  <2>1. SwitchOK
    BY DEF Init, SwitchOK, Tabs
  <2>2. BoundsOK
    <3>1. requests = 0 /\ troubles = 0
      BY DEF Init
    <3>. QED
      BY <3>1, BoundsAssumption DEF BoundsOK
  <2>. QED
    BY <2>1, <2>2
<1>4. FlightOK
  BY Started DEF Init, FlightOK, SetToBag, BagToSet
<1>5. NotesOK
  BY DEF Init, NotesOK, Notes, Timers
<1>6. LinesBuilt
  BY <1>2, NothingShown DEF Init, LinesBuilt, FoldsOK
<1>7. CursorOK
  BY DEF Init, CursorOK
<1>8. ScursorOK
  <2>1. Listed(schedules) = {}
    BY DEF Init, Listed, Nothing
  <2>2. 0 - 1 \in Int /\ 0 \in Int
    OBVIOUS
  <2>3. 0 \in 0..Max({0, 0 - 1})
    BY <2>2, MaxOfTwo
  <2>. QED
    BY <2>1, <2>3, FS_EmptySet DEF Init, ScursorOK
<1>. QED
  BY <1>1, <1>2, <1>3, <1>4, <1>5, <1>6, <1>7, <1>8 DEF Inv

-----------------------------------------------------------------------------
(* Messages.                                                               *)

Telling == \E f \in Tabs, text \in {"info", "error"} : Tell(f, text)

\* What happens to messages and their timers: a new message, the end of a timer,
\* the end of the program, or nothing.
LEMMA NotesMove ==
    ASSUME Inv, Next
    PROVE  \/ Telling
           \/ \E t \in timers : ClearMessage(t) /\ timers' = timers \ {t}
           \/ UNCHANGED message /\ timers' \subseteq timers
<1>1. CASE Tick \/ SwitchTab \/ Others
  BY <1>1 DEF Tick, SwitchTab, Others, noteVars
<1>2. CASE Expire
  BY <1>2 DEF Expire
<1>3. CASE Quit
  BY <1>3 DEF Quit
<1>4. CASE TasksKey
  <2>1. CASE Request
    BY <2>1 DEF Request, Quiet, noteVars, Telling, Tabs
  <2>2. CASE Move \/ Fold \/ OpenAction \/ Back
    BY <2>2 DEF Move, Fold, OpenAction, Back, noteVars
  <2>. QED
    BY <1>4, <2>1, <2>2 DEF TasksKey
<1>5. CASE SchedulesKey
  <2>1. CASE ToggleSchedule \/ DeleteSchedule
    BY <2>1 DEF ToggleSchedule, DeleteSchedule, Telling, Tabs
  <2>2. CASE MoveSchedule \/ OpenSchedule \/ CloseSchedule
    BY <2>2 DEF MoveSchedule, OpenSchedule, CloseSchedule, noteVars
  <2>. QED
    BY <1>5, <2>1, <2>2 DEF SchedulesKey
<1>6. CASE Progress
  <2>1. PICK c \in BagToSet(flight) : Run(c) \/ Arrive(c)
    BY <1>6 DEF Progress
  <2>2. CASE Run(c)
    <3>1. \E next : Goes(c, next)
      BY <2>2 DEF Run, ReadProjects, ReadTasks, ReadActions, ReadSchedules, ReadDetail, WriteFocus,
         Resume, Dispatch, Attach
    <3>. QED
      BY <3>1 DEF Goes, noteVars
  <2>3. CASE Arrive(c)
    BY <2>3 DEF Arrive, TasksLoaded, SchedulesLoaded, Attached, Finished, FocusToggled, DetailLoaded,
       Ignored, Quiet, noteVars, Telling, Tabs
  <2>. QED
    BY <2>1, <2>2, <2>3
<1>. QED
  BY <1>1, <1>2, <1>3, <1>4, <1>5, <1>6 DEF Next

\* A message is typed, and numbered by its generation.
LEMMA NotesStep ==
    ASSUME Inv, Next
    PROVE  NotesOK'
<1>. USE DEF Inv
<1>1. CASE Telling
  <2>1. PICK f \in Tabs, text \in {"info", "error"} : Tell(f, text)
    BY <1>1 DEF Telling
  <2>. DEFINE new == [text |-> text, gen |-> message[f].gen + 1, nth |-> message[f].nth + 1]
              timer == [on |-> f, gen |-> new.gen, nth |-> new.nth]
  <2>2. message' = [message EXCEPT ![f] = new] /\ timers' = timers \cup {timer}
    BY <2>1 DEF Tell
  <2>3. message[f] \in Notes /\ message[f].gen = message[f].nth
    BY DEF NotesOK
  <2>4. new \in Notes /\ new.gen = new.nth
    <3>1. message[f].gen \in Nat /\ message[f].nth \in Nat
      BY <2>3 DEF Notes
    <3>2. message[f].gen + 1 \in Nat /\ message[f].nth + 1 \in Nat
      BY <3>1
    <3>3. text \in {"", "info", "error"}
      BY <2>1
    <3>4. new \in Notes
      BY <3>2, <3>3, Zenon DEF Notes
    <3>5. new.gen = message[f].gen + 1 /\ new.nth = message[f].nth + 1
      OBVIOUS
    <3>. QED
      BY <2>3, <3>5, <3>4
  <2>5. timer \in Timers /\ timer.gen = timer.nth
    BY <2>4 DEF Timers, Notes
  <2>. HIDE DEF new, timer
  <2>. QED
    BY <2>2, <2>4, <2>5 DEF NotesOK
<1>2. ASSUME NEW t \in timers, ClearMessage(t), timers' = timers \ {t}
      PROVE  NotesOK'
  <2>1. t.on \in Tabs
    BY <1>2 DEF NotesOK, Timers
  <2>2. PICK x \in {"", message[t.on].text} : message' = [message EXCEPT ![t.on].text = x]
    BY <1>2 DEF ClearMessage
  <2>3. \A f \in Tabs : message'[f] \in Notes /\ message'[f].gen = message[f].gen
                        /\ message'[f].nth = message[f].nth
    BY <2>1, <2>2 DEF NotesOK, Notes
  <2>4. message' \in [Tabs -> Notes]
    BY <2>2, <2>3 DEF NotesOK
  <2>. QED
    BY <1>2, <2>3, <2>4 DEF NotesOK
<1>3. CASE UNCHANGED message /\ timers' \subseteq timers
  BY <1>3 DEF NotesOK
<1>. QED
  BY <1>1, <1>2, <1>3, NotesMove

\* A message is cleared by the timer set for it.
LEMMA ClearedByItsTimer ==
    ASSUME Inv, [Next]_vars, NEW f \in Tabs, message[f].text # "", message'[f].text = ""
    PROVE  \E t \in timers \ timers' : t.on = f /\ t.nth = message[f].nth
<1>. USE DEF Inv
<1>1. CASE UNCHANGED message
  BY <1>1
<1>2. CASE Telling
  <2>1. PICK g \in Tabs, text \in {"info", "error"} : Tell(g, text)
    BY <1>2 DEF Telling
  <2>2. message'[f].text \in {text, message[f].text}
    BY <2>1 DEF Tell, NotesOK
  <2>. QED
    BY <2>2
<1>3. ASSUME NEW t \in timers, ClearMessage(t), timers' = timers \ {t}
      PROVE  \E u \in timers \ timers' : u.on = f /\ u.nth = message[f].nth
  <2>1. t.on \in Tabs /\ t.gen = t.nth /\ message[f].gen = message[f].nth
    BY <1>3 DEF NotesOK, Timers
  <2>2. message' = [message EXCEPT ![t.on].text = IF t.gen = message[t.on].gen THEN ""
                                                  ELSE message[t.on].text]
    BY <1>3 DEF ClearMessage
  <2>3. message \in [Tabs -> Notes]
    BY DEF NotesOK
  <2>4. t.on = f
    BY <2>1, <2>2, <2>3
  <2>5. t.gen = message[f].gen
    BY <2>1, <2>2, <2>3, <2>4 DEF Notes
  <2>. QED
    BY <1>3, <2>1, <2>4, <2>5
<1>4. CASE UNCHANGED vars
  BY <1>4, <1>1 DEF vars, noteVars
<1>. QED
  BY <1>1, <1>2, <1>3, <1>4, NotesMove

-----------------------------------------------------------------------------
(* Commands in flight.                                                     *)

\* What a step does to the set of commands in flight.
LEMMA FlightSets ==
    /\ \A c, cs : Took(c, cs) => BagToSet(flight') \subseteq BagToSet(flight) \cup cs
    /\ \A c, next : Goes(c, next) => BagToSet(flight') \subseteq BagToSet(flight) \cup {next}
    /\ \A cs : flight' = flight (+) SetToBag(cs) =>
          BagToSet(flight') \subseteq BagToSet(flight) \cup cs
BY DEF Took, Goes, BagToSet, SetToBag, (+), (-)

\* A command that goes on stays the command it is.
LEMMA GoesOnAs ==
    ASSUME NEW c, CommandOK(c), NEW stage \in Stages, NEW err \in BOOLEAN
    PROVE  /\ CommandOK([c EXCEPT !.stage = stage]) /\ CommandOK([c EXCEPT !.stage = stage, !.err = err])
           /\ c.do \notin {"toggle focus"} =>
                 CommandOK([c EXCEPT !.to = "partial"])
           /\ \A x \in [Projects -> ProjectStatus] :
                 CommandOK([c EXCEPT !.stage = stage, !.got.project = x])
           /\ \A x \in [Tasks -> TaskStatus] : CommandOK([c EXCEPT !.stage = stage, !.got.task = x])
           /\ \A x \in [Actions -> ActionStatus] : CommandOK([c EXCEPT !.got.action = x])
           /\ \A x \in [Schedules -> ScheduleStatus] : CommandOK([c EXCEPT !.got.schedule = x])
           /\ CommandOK(Answer(c, err))
<1>1. c \in Commands /\ c.got \in Board
  BY DEF CommandOK, Commands
<1>2. /\ CommandOK([c EXCEPT !.stage = stage]) /\ CommandOK([c EXCEPT !.stage = stage, !.err = err])
      /\ c.do \notin {"toggle focus"} => CommandOK([c EXCEPT !.to = "partial"])
  BY <1>1 DEF CommandOK, Commands, Targets
<1>3. ASSUME NEW b \in Board
      PROVE  CommandOK([c EXCEPT !.stage = stage, !.got = b]) /\ CommandOK([c EXCEPT !.got = b])
  BY <1>1 DEF CommandOK, Commands
<1>4. /\ \A x \in [Projects -> ProjectStatus] : [c.got EXCEPT !.project = x] \in Board
      /\ \A x \in [Tasks -> TaskStatus] : [c.got EXCEPT !.task = x] \in Board
      /\ \A x \in [Actions -> ActionStatus] : [c.got EXCEPT !.action = x] \in Board
      /\ \A x \in [Schedules -> ScheduleStatus] : [c.got EXCEPT !.schedule = x] \in Board
  BY <1>1 DEF Board
<1>5. CommandOK(Answer(c, err))
  <2>1. (c.err \/ err) \in BOOLEAN
    BY <1>1 DEF Commands
  <2>2. "answer" \in Stages
    BY DEF Stages
  <2>. QED
    BY <1>1, <2>1, <2>2 DEF Answer, CommandOK, Commands
<1>. QED
  BY <1>1, <1>2, <1>3, <1>4, <1>5

\* A command that runs leaves one of its kind, typed.
LEMMA RunTyped ==
    ASSUME Inv, NEW c \in BagToSet(flight), Run(c)
    PROVE  \E next : Goes(c, next) /\ CommandOK(next)
<1>1. CommandOK(c) /\ c.got \in Board /\ db \in Board
  BY DEF Inv, FlightOK, DataOK, CommandOK, Commands
<1>2. \A err \in BOOLEAN : CommandOK(Answer(c, err))
  BY <1>1, GoesOnAs DEF Stages
<1>3. CASE ReadProjects(c)
  <2>1. CommandOK([c EXCEPT !.stage = "tasks", !.got.project = db.project])
    BY <1>1, GoesOnAs DEF Stages, Board
  <2>. QED
    BY <1>2, <1>3, <2>1 DEF ReadProjects
<1>4. CASE ReadTasks(c)
  <2>. DEFINE x == [t \in Tasks |->
                       IF c.got.project[ProjectOf[t]] = "gone" THEN "gone" ELSE db.task[t]]
  <2>1. x \in [Tasks -> TaskStatus]
    BY <1>1 DEF Board, TaskStatus
  <2>. HIDE DEF x
  <2>2. CommandOK([c EXCEPT !.stage = "actions", !.got.task = x])
        /\ CommandOK([c EXCEPT !.stage = "actions", !.err = TRUE])
    BY <1>1, <2>1, GoesOnAs DEF Stages
  <2>. QED
    BY <1>4, <2>2 DEF ReadTasks, x
<1>5. CASE ReadActions(c)
  <2>. DEFINE x == [a \in Actions |-> IF c.got.task[TaskOf[a]] = "gone" THEN "gone" ELSE db.action[a]]
              read == [c EXCEPT !.got.action = x]
  <2>1. x \in [Actions -> ActionStatus]
    BY <1>1 DEF Board, ActionStatus
  <2>. HIDE DEF x
  <2>2. CommandOK(read)
    BY <1>1, <2>1, GoesOnAs DEF Stages
  <2>. HIDE DEF read
  <2>3. \A err \in BOOLEAN : CommandOK(Answer(read, err))
    BY <2>2, GoesOnAs DEF Stages
  <2>. QED
    BY <1>2, <1>5, <2>3 DEF ReadActions, x, read
<1>6. CASE ReadSchedules(c)
  <2>. DEFINE read == [c EXCEPT !.got.schedule = db.schedule]
  <2>1. CommandOK(read)
    BY <1>1, GoesOnAs DEF Stages, Board
  <2>. HIDE DEF read
  <2>2. CommandOK(Answer(read, FALSE))
    BY <2>1, GoesOnAs DEF Stages
  <2>. QED
    BY <1>2, <1>6, <2>2 DEF ReadSchedules, read
<1>7. CASE ReadDetail(c)
  <2>. DEFINE part == [c EXCEPT !.to = "partial"]
  <2>1. CommandOK(part)
    BY <1>1, <1>7, GoesOnAs DEF Stages, ReadDetail
  <2>. HIDE DEF part
  <2>2. CommandOK(Answer(part, FALSE))
    BY <2>1, GoesOnAs DEF Stages
  <2>3. (db.task[c.on] = "gone") \in BOOLEAN
    OBVIOUS
  <2>4. CommandOK(Answer(c, db.task[c.on] = "gone"))
    BY <1>2, <2>3, Zenon
  <2>. QED
    BY <1>2, <1>7, <2>2, <2>4 DEF ReadDetail, part
<1>8. CASE WriteFocus(c) \/ Resume(c) \/ Dispatch(c) \/ Attach(c)
  BY <1>2, <1>8 DEF WriteFocus, Resume, Dispatch, Attach
<1>. QED
  BY <1>3, <1>4, <1>5, <1>6, <1>7, <1>8 DEF Run

\* What the cursor is on is a line of what is loaded.
LEMMA OnARow ==
    ASSUME Inv, NEW l \in Range(lines), On(l)
    PROVE  /\ l \in ShownLines(view, expanded) /\ cursor \in Selectable(lines)
           /\ l = lines[cursor + 1] /\ cursor + 1 \in 1..Len(lines)
           /\ l.type = "project" => l.id \in Projects
           /\ l.type = "task" => l.id \in Tasks
           /\ l.type = "action" => l.id \in Actions
<1>1. view \in Board /\ expanded \in Folding /\ lines = BuildLines(view, expanded)
  BY DEF Inv, DataOK, FoldsOK, LinesBuilt
<1>2. /\ Len(lines) \in Nat
      /\ lines \in [1..Len(lines) -> ShownLines(view, expanded)]
  BY <1>1, Built
<1>3. lines # <<>> /\ cursor \in Selectable(lines)
  BY <1>2 DEF Inv, CursorOK, On
<1>4. cursor + 1 \in 1..Len(lines) /\ l = lines[cursor + 1]
  BY <1>2, <1>3 DEF Selectable, On
<1>. QED
  BY <1>1, <1>2, <1>3, <1>4, ShownRows

\* Every command in flight stays typed.
LEMMA FlightStep ==
    ASSUME Inv, Next
    PROVE  FlightOK'
<1>1. \A c \in BagToSet(flight) : CommandOK(c)
  BY DEF Inv, FlightOK
<1>2. ASSUME NEW c, CommandOK(c), BagToSet(flight') \subseteq BagToSet(flight) \cup {c}
      PROVE  FlightOK'
  BY <1>1, <1>2 DEF FlightOK
<1>3. \/ UNCHANGED flight
      \/ \E c : CommandOK(c) /\ BagToSet(flight') \subseteq BagToSet(flight) \cup {c}
  <2>1. CASE Tick
    <3>1. flight' = flight (+) SetToBag({Reload})
      BY <2>1 DEF Tick, TickArrives
    <3>2. BagToSet(flight') \subseteq BagToSet(flight) \cup {Reload}
      BY <3>1, FlightSets
    <3>. QED
      BY <3>2, Started
  <2>2. CASE Expire \/ SwitchTab \/ Others
    BY <2>2 DEF Expire, SwitchTab, Others
  <2>3. CASE Quit
    <3>1. BagToSet(flight') = {}
      BY <2>3 DEF Quit, EmptyBag, SetToBag, BagToSet
    <3>. QED
      BY <3>1, Started
  <2>4. CASE TasksKey
    <3>1. CASE Request
      <4>1. PICK l \in Range(lines) :
               /\ On(l)
               /\ \E c : /\ \/ l.type = "task" /\ c = Command("task detail", l.id, "")
                            \/ /\ l.type = "action"
                               /\ \E k \in {"attach", "resume", "dispatch"} : c = Command(k, l.id, "")
                            \/ /\ l.type = "project"
                               /\ \E x \in {"focused", "unfocused"} :
                                     c = Command("toggle focus", l.id, x)
                         /\ Start({c})
        BY <3>1 DEF Request
      <4>2. PICK c : CommandOK(c) /\ Start({c})
        BY <4>1, OnARow, Started
      <4>3. BagToSet(flight') \subseteq BagToSet(flight) \cup {c}
        BY <4>2, FlightSets DEF Start
      <4>. QED
        BY <4>2, <4>3
    <3>2. CASE Move \/ Fold \/ OpenAction \/ Back
      BY <3>2 DEF Move, Fold, OpenAction, Back
    <3>. QED
      BY <2>4, <3>1, <3>2 DEF TasksKey
  <2>5. CASE SchedulesKey
    <3>1. CASE ToggleSchedule \/ DeleteSchedule
      <4>1. flight' = flight (+) SetToBag({LoadSchedules})
        BY <3>1 DEF ToggleSchedule, DeleteSchedule, Start
      <4>2. BagToSet(flight') \subseteq BagToSet(flight) \cup {LoadSchedules}
        BY <4>1, FlightSets
      <4>. QED
        BY <4>2, Started
    <3>2. CASE MoveSchedule \/ OpenSchedule \/ CloseSchedule
      BY <3>2 DEF MoveSchedule, OpenSchedule, CloseSchedule
    <3>. QED
      BY <2>5, <3>1, <3>2 DEF SchedulesKey
  <2>6. CASE Progress
    <3>1. PICK c \in BagToSet(flight) : Run(c) \/ Arrive(c)
      BY <2>6 DEF Progress
    <3>2. CASE Run(c)
      <4>1. PICK next : Goes(c, next) /\ CommandOK(next)
        BY <3>2, RunTyped
      <4>2. BagToSet(flight') \subseteq BagToSet(flight) \cup {next}
        BY <4>1, FlightSets
      <4>. QED
        BY <4>1, <4>2
    <3>3. CASE Arrive(c)
      <4>1. Took(c, {}) \/ Took(c, {LoadTasks})
        BY <3>3 DEF Arrive, TasksLoaded, SchedulesLoaded, Attached, Finished, FocusToggled,
           DetailLoaded, Ignored
      <4>2. BagToSet(flight') \subseteq BagToSet(flight) \cup {LoadTasks}
        BY <4>1, FlightSets
      <4>. QED
        BY <4>2, Started
    <3>. QED
      BY <3>1, <3>2, <3>3
  <2>. QED
    BY <2>1, <2>2, <2>3, <2>4, <2>5, <2>6 DEF Next
<1>. QED
  BY <1>1, <1>2, <1>3 DEF FlightOK

-----------------------------------------------------------------------------
(* The rest of the invariant.                                              *)

\* Written rows are rows.
LEMMA DataStep ==
    ASSUME Inv, Next
    PROVE  DataOK'
<1>1. /\ db \in Board /\ view \in Board /\ schedules \in [Schedules -> ScheduleStatus]
      /\ \A c \in BagToSet(flight) : CommandOK(c)
  BY DEF Inv, DataOK, FlightOK
<1>2. \A b \in Board :
         /\ \A p \in Projects, x \in ProjectStatus : [b EXCEPT !.project[p] = x] \in Board
         /\ \A t \in Tasks, x \in TaskStatus : [b EXCEPT !.task[t] = x] \in Board
         /\ \A a \in Actions, x \in ActionStatus : [b EXCEPT !.action[a] = x] \in Board
         /\ \A s \in Schedules, x \in ScheduleStatus : [b EXCEPT !.schedule[s] = x] \in Board
  BY DEF Board
<1>3. ASSUME NEW b \in Board PROVE Cascade(b) \in Board
  <2>. DEFINE tasks == [t \in Tasks |-> IF b.project[ProjectOf[t]] = "gone" THEN "gone" ELSE b.task[t]]
              actions == [a \in Actions |-> IF tasks[TaskOf[a]] = "gone" THEN "gone" ELSE b.action[a]]
  <2>1. tasks \in [Tasks -> TaskStatus]
    BY DEF Board, TaskStatus
  <2>. HIDE DEF tasks
  <2>2. actions \in [Actions -> ActionStatus]
    BY DEF Board, ActionStatus
  <2>. HIDE DEF actions
  <2>3. [b EXCEPT !.task = tasks, !.action = actions] \in Board
    BY <2>1, <2>2 DEF Board
  <2>. QED
    BY <2>3 DEF Cascade, tasks, actions
<1>4. CASE Tick \/ Expire \/ SwitchTab \/ Quit
  BY <1>1, <1>4 DEF Tick, Expire, SwitchTab, Quit, tasksVars, schedVars, DataOK
<1>5. CASE TasksKey
  BY <1>1, <1>5 DEF TasksKey, Move, Fold, OpenAction, Request, Back, tasksVars, schedVars, DataOK
<1>6. CASE SchedulesKey
  <2>1. UNCHANGED <<view, schedules>>
    BY <1>6 DEF SchedulesKey, MoveSchedule, OpenSchedule, CloseSchedule, ToggleSchedule,
       DeleteSchedule, tasksVars, schedVars
  <2>2. UNCHANGED db \/ \E s \in Schedules, x \in ScheduleStatus : db' = [db EXCEPT !.schedule[s] = x]
    <3>1. CASE ToggleSchedule
      <4>1. PICK s \in Schedules :
               UNCHANGED db \/ db' = [db EXCEPT !.schedule[s] =
                                         IF db.schedule[s] = "gone" THEN db.schedule[s]
                                         ELSE IF schedules[s] = "enabled" THEN "disabled" ELSE "enabled"]
        BY <3>1 DEF ToggleSchedule
      <4>2. (IF db.schedule[s] = "gone" THEN db.schedule[s]
             ELSE IF schedules[s] = "enabled" THEN "disabled" ELSE "enabled") \in ScheduleStatus
        BY DEF ScheduleStatus
      <4>. QED
        BY <4>1, <4>2
    <3>2. CASE DeleteSchedule
      BY <3>2 DEF DeleteSchedule, ScheduleStatus
    <3>3. CASE MoveSchedule \/ OpenSchedule \/ CloseSchedule
      BY <3>3 DEF MoveSchedule, OpenSchedule, CloseSchedule
    <3>. QED
      BY <1>6, <3>1, <3>2, <3>3 DEF SchedulesKey
  <2>. QED
    BY <1>1, <1>2, <2>1, <2>2 DEF DataOK
<1>7. CASE Others
  <2>1. UNCHANGED <<view, schedules>>
    BY <1>7 DEF Others, tasksVars, schedVars
  <2>2. \/ \E p \in Projects, x \in ProjectStatus : db' = Cascade([db EXCEPT !.project[p] = x])
        \/ \E t \in Tasks, x \in TaskStatus : db' = Cascade([db EXCEPT !.task[t] = x])
        \/ \E a \in Actions, x \in ActionStatus : db' = Cascade([db EXCEPT !.action[a] = x])
        \/ \E s \in Schedules, x \in ScheduleStatus : db' = [db EXCEPT !.schedule[s] = x]
    BY <1>7 DEF Others
  <2>3. \E b \in Board : db' = Cascade(b) \/ db' = b
    <3>1. CASE \E p \in Projects, x \in ProjectStatus : db' = Cascade([db EXCEPT !.project[p] = x])
      BY <1>1, <1>2, <3>1
    <3>2. CASE \E t \in Tasks, x \in TaskStatus : db' = Cascade([db EXCEPT !.task[t] = x])
      BY <1>1, <1>2, <3>2
    <3>3. CASE \E a \in Actions, x \in ActionStatus : db' = Cascade([db EXCEPT !.action[a] = x])
      BY <1>1, <1>2, <3>3
    <3>4. CASE \E s \in Schedules, x \in ScheduleStatus : db' = [db EXCEPT !.schedule[s] = x]
      BY <1>1, <1>2, <3>4
    <3>. QED
      BY <2>2, <3>1, <3>2, <3>3, <3>4
  <2>4. db' \in Board
    BY <1>3, <2>3
  <2>. QED
    BY <1>1, <2>1, <2>4 DEF DataOK
<1>8. CASE Progress
  <2>1. PICK c \in BagToSet(flight) : Run(c) \/ Arrive(c)
    BY <1>8 DEF Progress
  <2>2. c \in Commands /\ CommandOK(c)
    BY <1>1 DEF CommandOK
  <2>3. CASE Run(c)
    <3>1. UNCHANGED <<view, schedules>>
      BY <2>3, RunTyped DEF Goes, tasksVars, schedVars
    <3>2. CASE WriteFocus(c)
      <4>1. c.on \in Projects /\ c.to \in ProjectStatus
        BY <2>2, <3>2 DEF WriteFocus, CommandOK, ProjectStatus
      <4>2. UNCHANGED db \/ db' = [db EXCEPT !.project[c.on] = c.to]
        BY <3>2 DEF WriteFocus
      <4>3. [db EXCEPT !.project[c.on] = c.to] \in Board
        BY <1>1, <1>2, <4>1
      <4>. QED
        BY <1>1, <3>1, <4>2, <4>3 DEF DataOK
    <3>3. CASE Resume(c)
      BY <1>1, <1>2, <3>1, <3>3 DEF Resume, Resumes, ActionStatus, DataOK
    <3>4. CASE Dispatch(c)
      <4>1. c.on \in Actions
        BY <2>2, <3>4 DEF Dispatch, CommandOK
      <4>. QED
        BY <1>1, <1>2, <3>1, <3>4, <4>1 DEF Dispatch, ActionStatus, DataOK
    <3>5. CASE UNCHANGED db
      BY <1>1, <3>1, <3>5 DEF DataOK
    <3>. QED
      BY <2>3, <3>2, <3>3, <3>4, <3>5 DEF Run, ReadProjects, ReadTasks, ReadActions, ReadSchedules,
         ReadDetail, Attach
  <2>4. CASE Arrive(c)
    <3>1. c.got \in Board /\ c.got.schedule \in [Schedules -> ScheduleStatus]
      BY <2>2 DEF Commands, Board
    <3>2. UNCHANGED db /\ view' \in {view, c.got} /\ schedules' \in {schedules, c.got.schedule}
      BY <2>4 DEF Arrive, TasksLoaded, SchedulesLoaded, Attached, Finished, FocusToggled, DetailLoaded,
         Ignored, tasksVars, schedVars
    <3>. QED
      BY <1>1, <3>1, <3>2 DEF DataOK
  <2>. QED
    BY <2>1, <2>3, <2>4
<1>. QED
  BY <1>4, <1>5, <1>6, <1>7, <1>8 DEF Next

\* Tabs, modes and bounds stay what they are.
LEMMA SwitchStep ==
    ASSUME Inv, Next
    PROVE  SwitchOK' /\ BoundsOK'
<1>1. SwitchOK /\ BoundsOK
  BY DEF Inv
<1>2. CASE Tick \/ Expire \/ Others
  <2>1. UNCHANGED <<watched, tab, quitting, mode, smode, requests>>
    BY <1>2 DEF Tick, Expire, Others, tasksVars, schedVars
  <2>2. ticking' \in BOOLEAN
    BY <1>1, <1>2 DEF Tick, TickArrives, Expire, Others, SwitchOK
  <2>3. UNCHANGED troubles \/ Trouble
    BY <1>2 DEF Tick, Expire, Others
  <2>4. SwitchOK'
    BY <1>1, <2>1, <2>2 DEF SwitchOK
  <2>5. BoundsOK'
    BY <1>1, <2>1, <2>3, BoundsAssumption DEF BoundsOK, Trouble
  <2>. QED
    BY <2>4, <2>5
<1>3. CASE SwitchTab \/ Quit
  BY <1>1, <1>3 DEF SwitchTab, Quit, tasksVars, schedVars, SwitchOK, BoundsOK, Tabs
<1>4. CASE TasksKey
  <2>1. UNCHANGED <<watched, tab, quitting, smode, ticking, troubles>>
        /\ mode' \in {mode, "action", "list"}
        /\ (UNCHANGED requests \/ Asks)
    BY <1>4 DEF TasksKey, Move, Fold, OpenAction, Request, Back, tasksVars, schedVars
  <2>. QED
    BY <1>1, <2>1, BoundsAssumption DEF SwitchOK, BoundsOK, Asks
<1>5. CASE SchedulesKey
  <2>1. UNCHANGED <<watched, tab, quitting, mode, ticking, troubles>>
        /\ smode' \in {smode, "detail", "list"}
        /\ (UNCHANGED requests \/ Asks)
    BY <1>5 DEF SchedulesKey, MoveSchedule, OpenSchedule, CloseSchedule, ToggleSchedule, DeleteSchedule,
       NoTrouble, tasksVars, schedVars
  <2>. QED
    BY <1>1, <2>1, BoundsAssumption DEF SwitchOK, BoundsOK, Asks
<1>6. CASE Progress
  <2>1. PICK c \in BagToSet(flight) : Run(c) \/ Arrive(c)
    BY <1>6 DEF Progress
  <2>2. CASE Run(c)
    <3>1. UNCHANGED <<watched, tab, quitting, mode, smode, ticking, requests>>
      BY <2>2, RunTyped DEF Goes, tasksVars, schedVars
    <3>2. UNCHANGED troubles \/ Trouble
      BY <2>2 DEF Run, ReadProjects, ReadTasks, ReadActions, ReadSchedules, ReadDetail, WriteFocus,
         Resume, Dispatch, Attach, NoTrouble
    <3>. QED
      BY <1>1, <3>1, <3>2, BoundsAssumption DEF SwitchOK, BoundsOK, Trouble
  <2>3. CASE Arrive(c)
    <3>1. UNCHANGED <<watched, tab, quitting, smode, ticking, requests, troubles>>
          /\ mode' \in {mode, "task"}
      BY <2>3 DEF Arrive, TasksLoaded, SchedulesLoaded, Attached, Finished, FocusToggled, DetailLoaded,
         Ignored, tasksVars, schedVars
    <3>. QED
      BY <1>1, <3>1 DEF SwitchOK, BoundsOK
  <2>. QED
    BY <2>1, <2>2, <2>3
<1>. QED
  BY <1>2, <1>3, <1>4, <1>5, <1>6 DEF Next

\* A key that folds leaves the line it was pressed on under the cursor.
LEMMA FoldKeepsLine ==
    ASSUME Inv, Fold
    PROVE  FoldsOK' /\ LinesBuilt' /\ CursorOK'
<1>1. PICK l \in Range(lines) :
         /\ On(l)
         /\ \/ l.type = "project" /\ expanded' = [expanded EXCEPT !.project[l.id] = Flip(expanded.project[l.id])]
            \/ l.type = "task" /\ expanded' = [expanded EXCEPT !.task[l.id] = Flip(expanded.task[l.id])]
  BY DEF Fold
<1>2. /\ l \in ShownLines(view, expanded) /\ cursor \in Selectable(lines)
      /\ l = lines[cursor + 1] /\ cursor + 1 \in 1..Len(lines)
      /\ l.type = "project" => l.id \in Projects
      /\ l.type = "task" => l.id \in Tasks
  BY <1>1, OnARow
<1>3. view \in Board /\ expanded \in Folding /\ lines = BuildLines(view, expanded) /\ cursor \in Nat
  BY DEF Inv, DataOK, FoldsOK, LinesBuilt, CursorOK
<1>4. UNCHANGED <<view, cursor>> /\ lines' = BuildLines(view, expanded')
  BY DEF Fold
<1>5. /\ expanded' \in Folding
      /\ \/ l.type = "project" /\ expanded'.task = expanded.task
            /\ \A p \in Projects \ {l.id} : expanded'.project[p] = expanded.project[p]
         \/ l.type = "task" /\ expanded'.project = expanded.project
            /\ \A t \in Tasks \ {l.id} : expanded'.task[t] = expanded.task[t]
  <2>1. \A f : Flip(f) \in Folds
    BY DEF Flip, Folds
  <2>2. CASE l.type = "project" /\ expanded' = [expanded EXCEPT !.project[l.id] = Flip(expanded.project[l.id])]
    BY <1>2, <1>3, <2>1, <2>2 DEF Folding
  <2>3. CASE l.type = "task" /\ expanded' = [expanded EXCEPT !.task[l.id] = Flip(expanded.task[l.id])]
    BY <1>2, <1>3, <2>1, <2>3 DEF Folding
  <2>. QED
    BY <1>1, <2>2, <2>3
<1>6. cursor + 1 \in 1..Len(lines') /\ lines'[cursor + 1] = l
  BY <1>2, <1>3, <1>4, <1>5, FoldedBelow, StaysInPlace
<1>7. cursor \in Selectable(lines')
  BY <1>2, <1>3, <1>6 DEF Selectable
<1>. QED
  BY <1>3, <1>4, <1>5, <1>7 DEF FoldsOK, LinesBuilt, CursorOK

\* The lines are those of what is loaded, and the cursor on one to select.
LEMMA LinesStep ==
    ASSUME Inv, Next
    PROVE  FoldsOK' /\ LinesBuilt' /\ CursorOK'
<1>1. /\ view \in Board /\ expanded \in Folding /\ lines = BuildLines(view, expanded) /\ cursor \in Nat
      /\ FoldsOK /\ LinesBuilt /\ CursorOK
  BY DEF Inv, DataOK, FoldsOK, LinesBuilt, CursorOK
<1>2. CASE UNCHANGED <<view, lines, expanded, cursor>>
  BY <1>1, <1>2 DEF FoldsOK, LinesBuilt, CursorOK
<1>3. CASE Move
  <2>1. Len(lines) \in Nat /\ (lines # <<>> => Selectable(lines) # {})
    BY <1>1, Built, SomeSelectable
  <2>2. cursor + 1 \in Int /\ cursor - 1 \in Int
    BY <1>1
  <2>3. cursor' \in Nat /\ (lines # <<>> => cursor' \in Selectable(lines))
    BY <1>3, <2>1, <2>2, SkipSelects DEF Move
  <2>. QED
    BY <1>1, <1>3, <2>3 DEF Move, FoldsOK, LinesBuilt, CursorOK
<1>4. CASE \E c \in BagToSet(flight) : TasksLoaded(c)
  <2>1. PICK c \in BagToSet(flight) : TasksLoaded(c)
    BY <1>4
  <2>2. c.got \in Board
    BY DEF Inv, FlightOK, CommandOK, Commands
  <2>3. /\ view' = c.got /\ expanded' = Unfold(expanded, c.got)
        /\ lines' = BuildLines(view', expanded')
        /\ cursor' = Skip(lines', Clamp(cursor, Len(lines')), 1)
    BY <2>1 DEF TasksLoaded
  <2>4. expanded' \in Folding
    BY <1>1, <2>3 DEF Unfold, Folding, Folds
  <2>5. Len(lines') \in Nat /\ (lines' # <<>> => Selectable(lines') # {})
    BY <2>2, <2>3, <2>4, Built, SomeSelectable
  <2>6. Clamp(cursor, Len(lines')) \in Int
    <3>1. \A i, n \in Nat : Clamp(i, n) \in Nat
      BY ClampBounds
    <3>2. Clamp(cursor, Len(lines')) \in Nat
      BY <1>1, <2>5, <3>1, Zenon
    <3>. QED
      BY <3>2
  <2>7. cursor' \in Nat /\ (lines' # <<>> => cursor' \in Selectable(lines'))
    BY <2>3, <2>5, <2>6, SkipSelects
  <2>. QED
    BY <2>3, <2>4, <2>7 DEF FoldsOK, LinesBuilt, CursorOK
<1>5. \/ UNCHANGED <<view, lines, expanded, cursor>> \/ Move \/ Fold
      \/ \E c \in BagToSet(flight) : TasksLoaded(c)
  <2>1. CASE Tick \/ Expire \/ SwitchTab \/ Quit \/ Others
    BY <2>1 DEF Tick, Expire, SwitchTab, Quit, Others, tasksVars
  <2>2. CASE TasksKey
    BY <2>2 DEF TasksKey, OpenAction, Request, Back, tasksVars
  <2>3. CASE SchedulesKey
    BY <2>3 DEF SchedulesKey, tasksVars
  <2>4. CASE Progress
    <3>1. PICK c \in BagToSet(flight) : Run(c) \/ Arrive(c)
      BY <2>4 DEF Progress
    <3>2. CASE Run(c)
      BY <3>2, RunTyped DEF Goes, tasksVars
    <3>3. CASE Arrive(c)
      BY <3>3 DEF Arrive, SchedulesLoaded, Attached, Finished, FocusToggled, DetailLoaded, Ignored,
         tasksVars
    <3>. QED
      BY <3>1, <3>2, <3>3
  <2>. QED
    BY <2>1, <2>2, <2>3, <2>4 DEF Next
<1>. QED
  BY <1>2, <1>3, <1>4, <1>5, FoldKeepsLine

\* The cursor of the schedules tab is on a schedule, or at the top of none.
LEMMA ScursorStep ==
    ASSUME Inv, Next
    PROVE  ScursorOK'
<1>. DEFINE n(ss) == Cardinality(Listed(ss))
<1>1. \A ss : n(ss) \in Nat
  <2>1. \A ss : Listed(ss) \in SUBSET Schedules
    BY DEF Listed
  <2>. QED
    BY <2>1, FS_Subset, FS_CardinalityType, IdsAssumption
<1>2. scursor \in Nat /\ detailIdx \in Nat /\ scursor \in 0..Max({0, n(schedules) - 1})
  BY DEF Inv, ScursorOK
<1>3. CASE UNCHANGED <<schedules, scursor, detailIdx>>
  BY <1>2, <1>3 DEF ScursorOK
<1>4. CASE MoveSchedule
  <2>1. UNCHANGED <<schedules, detailIdx>> /\ scursor' \in 0..Max({0, n(schedules) - 1})
    <3>1. n(schedules) - 1 \in Int /\ 0 \in Int
      BY <1>1
    <3>2. Max({0, n(schedules) - 1}) = IF 0 >= n(schedules) - 1 THEN 0 ELSE n(schedules) - 1
      BY <3>1, MaxOfTwo
    <3>. QED
      BY <1>1, <1>2, <1>4, <3>2 DEF MoveSchedule
  <2>. QED
    BY <1>2, <2>1 DEF ScursorOK
<1>5. CASE OpenSchedule
  BY <1>2, <1>5 DEF OpenSchedule, ScursorOK
<1>6. CASE \E c \in BagToSet(flight) : SchedulesLoaded(c)
  <2>1. PICK c \in BagToSet(flight) : SchedulesLoaded(c)
    BY <1>6
  <2>2. scursor' = Clamp(scursor, n(schedules')) /\ UNCHANGED detailIdx
    BY <2>1 DEF SchedulesLoaded
  <2>3. scursor' \in Nat /\ scursor' \in 0..Max({0, n(schedules') - 1})
    BY <1>1, <1>2, <2>2, ClampBounds
  <2>. QED
    BY <1>2, <2>2, <2>3 DEF ScursorOK
<1>7. \/ UNCHANGED <<schedules, scursor, detailIdx>> \/ MoveSchedule \/ OpenSchedule
      \/ \E c \in BagToSet(flight) : SchedulesLoaded(c)
  <2>1. CASE Tick \/ Expire \/ SwitchTab \/ Quit \/ Others
    BY <2>1 DEF Tick, Expire, SwitchTab, Quit, Others, schedVars
  <2>2. CASE TasksKey
    BY <2>2 DEF TasksKey, schedVars
  <2>3. CASE SchedulesKey
    BY <2>3 DEF SchedulesKey, CloseSchedule, ToggleSchedule, DeleteSchedule, schedVars
  <2>4. CASE Progress
    <3>1. PICK c \in BagToSet(flight) : Run(c) \/ Arrive(c)
      BY <2>4 DEF Progress
    <3>2. CASE Run(c)
      BY <3>2, RunTyped DEF Goes, schedVars
    <3>3. CASE Arrive(c)
      BY <3>3 DEF Arrive, TasksLoaded, Attached, Finished, FocusToggled, DetailLoaded, Ignored,
         schedVars
    <3>. QED
      BY <3>1, <3>2, <3>3
  <2>. QED
    BY <2>1, <2>2, <2>3, <2>4 DEF Next
<1>. QED
  BY <1>3, <1>4, <1>5, <1>6, <1>7

\* Every step keeps the invariant.
LEMMA InvStep == Inv /\ [Next]_vars => Inv'
<1>1. Inv /\ Next => Inv'
  BY DataStep, SwitchStep, FlightStep, NotesStep, LinesStep, ScursorStep DEF Inv
<1>2. Inv /\ UNCHANGED vars => Inv'
  BY DEF vars, tasksVars, schedVars, noteVars, Inv, DataOK, FoldsOK, SwitchOK, BoundsOK, FlightOK,
     NotesOK, LinesBuilt, CursorOK, ScursorOK
<1>. QED
  BY <1>1, <1>2

\* It holds in all behaviours.
LEMMA InvAlways == Spec => []Inv
BY InitInv, InvStep, PTL DEF Spec

-----------------------------------------------------------------------------
(* Theorems.                                                               *)

\* Whatever loads, keys and other processes do in whatever order, rows, commands
\* and messages are what they should be, and a cursor is never negative
\* (tui/app.go, tasks.go, schedules.go).
THEOREM TypeCorrect == Spec => []TypeOK
<1>1. Inv => TypeOK
  BY DEF Inv, DataOK, FoldsOK, Folding, SwitchOK, BoundsOK, FlightOK, CommandOK, Commands, NotesOK,
     Notes, Timers, CursorOK, ScursorOK, TypeOK
<1>. QED
  BY <1>1, InvAlways, PTL

\* The cursor never comes to rest on a border of a card while there is a line to
\* select, nor past the end, although folding does not move it and reloads, late
\* or failed ones among them, replace the lines under it (tui/tasks.go:410-412).
THEOREM CursorOnALine == Spec => []CursorSelectable
<1>1. Inv => CursorSelectable
  <2>1. Selectable(<<>>) = {}
    BY DEF Selectable
  <2>. QED
    BY <2>1 DEF Inv, CursorOK, ScursorOK, CursorSelectable
<1>. QED
  BY <1>1, InvAlways, PTL

\* What the cursor is on is drawn, whatever the height of the window and
\* however many lines there are (tui/help.go:37).
THEOREM CursorIsDrawn == Spec => []CursorVisible
<1>1. Inv => CursorVisible
  <2>. SUFFICES ASSUME Inv, NEW h \in Heights
                PROVE  /\ lines # <<>> => cursor \in Visible(cursor, Len(lines), h, 0)
                       /\ Listed(schedules) # {} =>
                             scursor \in Visible(scursor, Cardinality(Listed(schedules)), h, 4)
    BY DEF CursorVisible
  <2>1. h \in Int
    BY IdsAssumption
  <2>2. ASSUME lines # <<>>
        PROVE  cursor \in Visible(cursor, Len(lines), h, 0)
    <3>1. Len(lines) \in Nat
      BY Built DEF Inv, DataOK, FoldsOK, LinesBuilt
    <3>2. cursor \in 0..(Len(lines) - 1)
      BY <2>2 DEF Inv, CursorOK, Selectable
    <3>. QED
      BY <2>1, <3>1, <3>2, WindowHolds
  <2>3. ASSUME Listed(schedules) # {}
        PROVE  scursor \in Visible(scursor, Cardinality(Listed(schedules)), h, 4)
    <3>. DEFINE n == Cardinality(Listed(schedules))
    <3>1. n \in Nat /\ n # 0
      <4>1. Listed(schedules) \in SUBSET Schedules
        BY DEF Listed
      <4>2. IsFiniteSet(Listed(schedules))
        BY <4>1, FS_Subset, IdsAssumption
      <4>. QED
        BY <2>3, <4>2, FS_CardinalityType, FS_EmptySet
    <3>2. n - 1 \in Int /\ 0 \in Int
      BY <3>1
    <3>3. Max({0, n - 1}) = IF 0 >= n - 1 THEN 0 ELSE n - 1
      BY <3>2, MaxOfTwo
    <3>4. scursor \in 0..Max({0, n - 1})
      BY DEF Inv, ScursorOK
    <3>5. scursor \in 0..(n - 1)
      BY <3>1, <3>3, <3>4
    <3>. HIDE DEF n
    <3>. QED
      BY <2>1, <3>1, <3>5, WindowHolds DEF n
  <2>. QED
    BY <2>2, <2>3
<1>. QED
  BY <1>1, InvAlways, PTL

\* A message is only cleared by the timer that was set for it: however many are
\* set in a row, none takes away one that came after (tui/tasks.go:243-246).
THEOREM MessagesAreKept == Spec => MessageKept
<1>1. Inv /\ [Next]_vars =>
         [\A f \in Tabs :
             message[f].text # "" /\ message'[f].text = "" =>
                \E t \in timers \ timers' : t.on = f /\ t.nth = message[f].nth]_vars
  BY ClearedByItsTimer
<1>. QED
  BY <1>1, InvAlways, PTL DEF Spec, MessageKept
=============================================================================
