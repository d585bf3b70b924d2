-------------------------- MODULE ManagerDataProofs --------------------------
(***************************************************************************)
(* The data of the manager, for every width of its integers: the arrays of *)
(* users are sorted and searched as if they were sets, since uid_cmp is    *)
(* the order of the numbers among uids less than 2^31 apart; and           *)
(* uresourced.conf is read as its comments say, as long as the amounts     *)
(* fit.                                                                    *)
(***************************************************************************)
EXTENDS ManagerData, RManagerProofs, WellFoundedInduction

(* uid_cmp of utils.c orders the uids of any range of 2^31. *)
THEOREM UidCmpOrders ==
  ASSUME NEW k \in Uids, NEW a \in InRange(k), NEW b \in InRange(k)
  PROVE  /\ uid_cmp(a, b) \in Int
         /\ uid_cmp(a, b) < 0 <=> a < b
         /\ uid_cmp(a, b) = 0 <=> a = b
         /\ uid_cmp(a, b) > 0 <=> a > b
BY HalfAssumption DEF Uids, Word, uid_cmp, InRange

(* No two users are taken for one, however far apart. *)
THEOREM UidCmpTellsApart ==
  ASSUME NEW a \in Uids, NEW b \in Uids
  PROVE  uid_cmp(a, b) = 0 <=> a = b
BY HalfAssumption DEF Uids, Word, uid_cmp

(* Beyond that range the order is the wrong way round. *)
THEOREM UidCmpTurnsRound ==
  ASSUME NEW a \in Uids, NEW b \in Uids, b - a > Half
  PROVE  uid_cmp(a, b) > 0
BY HalfAssumption DEF Uids, Word, uid_cmp

-----------------------------------------------------------------------------
(***************************************************************************)
(* g_array_sort.  Lists says that an array holds some users, each once, in *)
(* the order of their uids: there is one such array, and the fold that     *)
(* inserts one user after the other makes it.                              *)
(***************************************************************************)
LessThan == {p \in Nat \X Nat : p[1] < p[2]}

(* Numbers have a least one: the least case that is wrong is the induction. *)
LEMMA SmallestOf ==
  ASSUME NEW T \in SUBSET Nat, T # {}
  PROVE  \E x \in T : \A y \in T : x <= y
<1>1. IsWellFoundedOn(LessThan, Nat)
  BY NatLessThanWellFounded, Zenon DEF OpToRel, LessThan
<1>2. PICK x \in T : \A y \in T : <<y, x>> \notin LessThan
  BY <1>1, WFMin
<1>3. \A y \in T : ~(y < x)
  BY <1>2 DEF LessThan
<1>4. \A y \in T : x <= y
  BY <1>3
<1>5. QED
  BY <1>4

Increasing(array) == \A i, j \in 1..Len(array) : i < j => array[i] < array[j]

Lists(array, S) ==
  /\ array \in Seq(S)
  /\ Increasing(array)
  /\ \A u \in S : \E i \in 1..Len(array) : array[i] = u

(* There are finitely many uids. *)
LEMMA RangeFinite ==
  ASSUME NEW k \in Uids, NEW S \in SUBSET InRange(k)
  PROVE  IsFiniteSet(S) /\ S \in SUBSET Nat
<1>1. IsFiniteSet(0..(Word - 1))
  BY HalfAssumption, FS_Interval DEF Word
<1>2. S \subseteq 0..(Word - 1)
  BY DEF InRange, Uids
<1>3. IsFiniteSet(S)
  BY <1>1, <1>2, FS_Subset
<1>4. S \subseteq Nat
  BY <1>2
<1>5. QED
  BY <1>3, <1>4

(* What a list of users holds. *)
LEMMA ListElements ==
  ASSUME NEW S \in SUBSET Nat, NEW array, Lists(array, S)
  PROVE  /\ array \in Seq(S) /\ Len(array) \in Nat
         /\ \A i \in 1..Len(array) : array[i] \in S /\ array[i] \in Nat
         /\ \A i, j \in 1..Len(array) : i < j => array[i] < array[j]
<1>1. array \in Seq(S)
  BY DEF Lists
<1>2. \A i \in 1..Len(array) : array[i] \in S
  BY <1>1
<1>3. \A i, j \in 1..Len(array) : i < j => array[i] < array[j]
  BY DEF Lists, Increasing
<1>4. Len(array) \in Nat
  BY <1>1
<1>5. QED
  BY <1>1, <1>2, <1>3, <1>4

(* A user that is not listed is put where he belongs. *)
LEMMA InsertLists ==
  ASSUME NEW k \in Uids, NEW S \in SUBSET InRange(k), NEW u \in InRange(k), u \notin S,
         NEW array, Lists(array, S)
  PROVE  Lists(Insert(u, array), S \cup {u})
<1> DEFINE N == Len(array)
           before == {i \in 1..N : uid_cmp(array[i], u) < 0}
           Places == {i \in 1..(N + 1) : i <= N => u < array[i]}
<1>1. /\ array \in Seq(S) /\ N \in Nat
      /\ \A i \in 1..N : array[i] \in S /\ array[i] \in InRange(k)
                         /\ array[i] \in Nat /\ array[i] # u
  <2>1. S \in SUBSET Nat
    BY RangeFinite
  <2>2. QED
    BY <2>1, ListElements
<1>2. u \in Nat
  BY DEF InRange, Uids
<1>3. PICK p \in Places : \A i \in Places : p <= i
  <2>1. Places \in SUBSET Nat /\ N + 1 \in Places
    BY <1>1
  <2> HIDE DEF Places
  <2>2. QED
    BY <2>1, SmallestOf
<1>4. p \in 1..(N + 1) /\ p - 1 \in 0..N
  BY <1>1, <1>3
<1>5. \A i \in 1..N : array[i] < u <=> i < p
  <2>1. \A i \in 1..N : i < p => array[i] < u
    BY <1>1, <1>2, <1>3, <1>4
  <2>2. ASSUME NEW i \in 1..N, ~(i < p) PROVE ~(array[i] < u)
    <3>1. p \in 1..N /\ u < array[p]
      BY <1>1, <1>3, <2>2
    <3>2. p = i \/ array[p] < array[i]
      BY <1>4, <2>2, <3>1 DEF Lists, Increasing
    <3>3. QED
      BY <1>1, <1>2, <3>1, <3>2
  <2>3. QED
    BY <2>1, <2>2
<1>6. Cardinality(before) = p - 1
  <2>1. \A i \in 1..N : uid_cmp(array[i], u) < 0 <=> i < p
    BY <1>1, <1>5, UidCmpOrders
  <2>2. before = 1..(p - 1)
    BY <1>1, <1>4, <2>1
  <2>3. Cardinality(1..(p - 1)) = p - 1
    BY <1>4, FS_Interval
  <2>4. QED
    BY <2>2, <2>3
<1> DEFINE front == SubSeq(array, 1, p - 1)
           back == SubSeq(array, p, N)
           head == front \o <<u>>
           longer == head \o back
<1>7. Insert(u, array) = longer
  <2> HIDE DEF before
  <2>1. Insert(u, array) = SubSeq(array, 1, Cardinality(before)) \o <<u>>
                             \o SubSeq(array, Cardinality(before) + 1, N)
    BY DEF Insert, before
  <2>2. p - 1 + 1 = p
    BY <1>4
  <2>3. QED
    BY <1>6, <2>1, <2>2
<1>8. /\ front \in Seq(S) /\ Len(front) = p - 1
      /\ \A i \in 1..(p - 1) : front[i] = array[i]
  BY <1>1, <1>4
<1>9. /\ back \in Seq(S) /\ Len(back) = N - p + 1
      /\ \A i \in 1..(N - p + 1) : back[i] = array[p + i - 1]
  BY <1>1, <1>4
<1> HIDE DEF front, back, Places, before
<1>10. /\ longer \in Seq(S \cup {u})
       /\ Len(longer) = N + 1
       /\ \A i \in 1..(N + 1) :
            longer[i] = IF i < p THEN array[i] ELSE IF i = p THEN u ELSE array[i - 1]
  <2>1. /\ head \in Seq(S \cup {u})
        /\ Len(head) = p
        /\ \A i \in 1..p : head[i] = IF i < p THEN array[i] ELSE u
    BY <1>4, <1>8
  <2>2. back \in Seq(S \cup {u})
    BY <1>9
  <2> HIDE DEF head
  <2>3. longer \in Seq(S \cup {u}) /\ Len(longer) = Len(head) + Len(back)
    BY <2>1, <2>2
  <2>4. Len(longer) = N + 1
    BY <1>1, <1>4, <1>9, <2>1, <2>3
  <2>5. ASSUME NEW i \in 1..(N + 1)
        PROVE  longer[i] = IF i < p THEN array[i] ELSE IF i = p THEN u ELSE array[i - 1]
    <3>1. CASE i <= p
      <4>1. i \in 1..Len(head) /\ i \in 1..p
        BY <1>4, <2>1, <3>1
      <4>2. longer[i] = head[i]
        BY <2>1, <2>2, <4>1
      <4>3. QED
        BY <1>4, <2>1, <3>1, <4>1, <4>2
    <3>2. CASE i > p
      <4>1. i - p \in 1..(N - p + 1) /\ p + (i - p) - 1 = i - 1 /\ Len(head) = p
        BY <1>1, <1>4, <2>1, <3>2
      <4>2. longer[i] = back[i - p]
        BY <1>1, <1>4, <1>9, <2>1, <2>2, <3>2
      <4>3. back[i - p] = array[i - 1]
        BY <1>9, <4>1
      <4>4. QED
        BY <1>4, <3>2, <4>2, <4>3
    <3> HIDE DEF longer
    <3>3. QED
      BY <1>4, <3>1, <3>2
  <2>6. QED
    BY <2>3, <2>4, <2>5
<1> HIDE DEF longer
<1>11. Increasing(longer)
  <2> SUFFICES ASSUME NEW i \in 1..(N + 1), NEW j \in 1..(N + 1), i < j
               PROVE  longer[i] < longer[j]
    BY <1>10 DEF Increasing
  <2>1. \A m \in 1..N : m >= p => u < array[m]
    BY <1>1, <1>2, <1>4, <1>5
  <2>2. \A m, n \in 1..N : m < n => array[m] < array[n]
    BY DEF Lists, Increasing
  <2>3. CASE j < p
    BY <1>4, <1>10, <2>2, <2>3
  <2>4. CASE j = p
    <3>1. i \in 1..N /\ i < p
      BY <1>4, <2>4
    <3>2. longer[i] = array[i] /\ longer[j] = u
      BY <1>4, <1>10, <2>4, <3>1
    <3>3. QED
      BY <1>5, <3>1, <3>2
  <2>5. CASE j > p
    <3>1. longer[j] = array[j - 1] /\ j - 1 \in 1..N /\ j - 1 >= p
      BY <1>1, <1>4, <1>10, <2>5
    <3>2. CASE i < p
      <4>1. longer[i] = array[i] /\ i \in 1..N /\ i < j - 1
        BY <1>1, <1>4, <1>10, <3>1, <3>2
      <4>2. QED
        BY <2>2, <3>1, <4>1
    <3>3. CASE i = p
      BY <1>4, <1>10, <2>1, <3>1, <3>3
    <3>4. CASE i > p
      <4>1. longer[i] = array[i - 1] /\ i - 1 \in 1..N /\ i - 1 < j - 1
        BY <1>1, <1>4, <1>10, <3>1, <3>4
      <4>2. QED
        BY <2>2, <3>1, <4>1
    <3>5. QED
      BY <1>4, <3>2, <3>3, <3>4
  <2>6. QED
    BY <1>4, <2>3, <2>4, <2>5
<1>12. ASSUME NEW v \in S \cup {u} PROVE \E i \in 1..(N + 1) : longer[i] = v
  <2>1. CASE v = u
    BY <1>4, <1>10, <2>1
  <2>2. CASE v \in S
    <3>1. PICK i \in 1..N : array[i] = v
      BY <2>2 DEF Lists
    <3>2. CASE i < p
      BY <1>1, <1>4, <1>10, <3>1, <3>2
    <3>3. CASE ~(i < p)
      <4>1. i + 1 \in 1..(N + 1) /\ longer[i + 1] = array[i + 1 - 1] /\ i + 1 - 1 = i
        BY <1>1, <1>4, <1>10, <3>3
      <4>2. QED
        BY <3>1, <4>1
    <3>4. QED
      BY <3>2, <3>3
  <2>3. QED
    BY <2>1, <2>2
<1>13. QED
  BY <1>7, <1>10, <1>11, <1>12 DEF Lists

(* There is one sorted array of some users. *)
LEMMA OneList ==
  ASSUME NEW S \in SUBSET Nat, NEW a, NEW b, Lists(a, S), Lists(b, S)
  PROVE  a = b
<1> DEFINE Differs == {i \in Nat : i > 0 /\ ~(/\ i <= Len(a) <=> i <= Len(b)
                                              /\ i <= Len(a) => a[i] = b[i])}
<1>1. ASSUME NEW x, NEW y, Lists(x, S), Lists(y, S), NEW i \in 1..Len(x),
             \A j \in 1..(i - 1) : j <= Len(x) /\ j <= Len(y) /\ x[j] = y[j],
             i <= Len(y) => x[i] < y[i]
      PROVE  FALSE
  <2>1. PICK j \in 1..Len(y) : y[j] = x[i]
    <3>1. x[i] \in S
      BY <1>1, ListElements
    <3>2. QED
      BY <1>1, <3>1 DEF Lists
  <2>2. /\ Len(x) \in Nat /\ Len(y) \in Nat
        /\ \A m \in 1..Len(x) : x[m] \in Nat
        /\ \A m \in 1..Len(y) : y[m] \in Nat
        /\ \A m, n \in 1..Len(x) : m < n => x[m] < x[n]
        /\ \A m, n \in 1..Len(y) : m < n => y[m] < y[n]
    BY <1>1, ListElements
  <2>3. ~(j < i)
    <3>1. SUFFICES ASSUME j < i PROVE FALSE
      OBVIOUS
    <3>2. j \in 1..(i - 1) /\ j \in 1..Len(x)
      BY <2>2, <3>1
    <3>3. x[j] = y[j] /\ x[j] < x[i]
      BY <1>1, <2>2, <3>1, <3>2
    <3>4. QED
      BY <2>1, <2>2, <3>2, <3>3
  <2>4. i <= Len(y) /\ (j = i \/ y[i] < y[j])
    BY <2>2, <2>3
  <2>5. QED
    BY <1>1, <2>1, <2>2, <2>4
<1>2. /\ Len(a) \in Nat /\ Len(b) \in Nat /\ a \in Seq(S) /\ b \in Seq(S)
      /\ \A m \in 1..Len(a) : a[m] \in Nat
      /\ \A m \in 1..Len(b) : b[m] \in Nat
  BY ListElements
<1>3. Differs = {}
  <2>1. SUFFICES ASSUME Differs # {} PROVE FALSE
    OBVIOUS
  <2>2. PICK i \in Differs : \A j \in Differs : i <= j
    <3>1. Differs \in SUBSET Nat
      OBVIOUS
    <3> HIDE DEF Differs
    <3>2. QED
      BY <2>1, <3>1, SmallestOf
  <2>3. i \in Nat /\ i > 0
    OBVIOUS
  <2>4. \A j \in 1..(i - 1) : (j <= Len(a) <=> j <= Len(b)) /\ (j <= Len(a) => a[j] = b[j])
    BY <2>2, <2>3
  <2>5. i <= Len(a) \/ i <= Len(b)
    OBVIOUS
  <2>6. \A j \in 1..(i - 1) : j <= Len(a) /\ j <= Len(b)
    BY <1>2, <2>3, <2>4, <2>5
  <2>7. \/ i <= Len(a) /\ (i <= Len(b) => a[i] < b[i])
        \/ i <= Len(b) /\ (i <= Len(a) => b[i] < a[i])
    <3>1. i <= Len(a) /\ i <= Len(b) => a[i] # b[i]
      OBVIOUS
    <3> HIDE DEF Differs
    <3>2. QED
      BY <1>2, <2>3, <2>5, <3>1
  <2> HIDE DEF Differs
  <2>8. CASE i <= Len(a) /\ (i <= Len(b) => a[i] < b[i])
    <3>1. i \in 1..Len(a)
      BY <1>2, <2>3, <2>8
    <3>2. \A j \in 1..(i - 1) : j <= Len(a) /\ j <= Len(b) /\ a[j] = b[j]
      BY <2>4, <2>6
    <3>3. QED
      BY <1>1, <2>8, <3>1, <3>2
  <2>9. CASE i <= Len(b) /\ (i <= Len(a) => b[i] < a[i])
    <3>1. i \in 1..Len(b)
      BY <1>2, <2>3, <2>9
    <3>2. \A j \in 1..(i - 1) : j <= Len(b) /\ j <= Len(a) /\ b[j] = a[j]
      BY <2>4, <2>6
    <3>3. QED
      BY <1>1, <2>9, <3>1, <3>2
  <2>10. QED
    BY <2>7, <2>8, <2>9
<1>4. \A i \in Nat : i > 0 => (i <= Len(a) <=> i <= Len(b)) /\ (i <= Len(a) => a[i] = b[i])
  BY <1>3
<1>5. Len(a) = Len(b)
  <2>1. Len(a) > 0 => Len(a) <= Len(b)
    BY <1>2, <1>4
  <2>2. Len(b) > 0 => Len(b) <= Len(a)
    BY <1>2, <1>4
  <2>3. QED
    BY <1>2, <2>1, <2>2
<1>6. \A i \in 1..Len(a) : a[i] = b[i]
  BY <1>2, <1>4
<1>7. QED
  BY <1>2, <1>5, <1>6
(* The fold over the users lists them. *)
LEMMA SortedLists ==
  ASSUME NEW k \in Uids, NEW S \in SUBSET InRange(k)
  PROVE  Lists(Sorted(S), S)
<1> DEFINE Step(f, T) == IF T = {} THEN <<>>
                         ELSE LET x == CHOOSE x \in T : TRUE IN Insert(x, f[T \ {x}])
           sort == CHOOSE f : f = [T \in SUBSET S |-> Step(f, T)]
           sorted == [T \in SUBSET S |-> CHOOSE array : Lists(array, T)]
<1>1. Sorted(S) = sort[S]
  BY Zenon DEF Sorted, FoldSet, MapThenFoldSet
<1>2. IsFiniteSet(S) /\ S \in SUBSET Nat
  BY RangeFinite
(* What holds of a set when it holds without one of its elements. *)
<1>3. ASSUME NEW Good, {} \in Good,
             \A T \in SUBSET S : T # {} /\ T \ {CHOOSE x \in T : TRUE} \in Good => T \in Good
      PROVE  SUBSET S \subseteq Good
  <2> DEFINE Sizes == {Cardinality(T) : T \in {U \in SUBSET S : U \notin Good}}
  <2>1. \A T \in SUBSET S : IsFiniteSet(T) /\ Cardinality(T) \in Nat
    BY <1>2, FS_Subset, FS_CardinalityType
  <2>2. SUFFICES ASSUME Sizes # {} PROVE FALSE
    OBVIOUS
  <2>3. PICK n \in Sizes : \A m \in Sizes : n <= m
    <3>1. Sizes \in SUBSET Nat
      BY <2>1
    <3> HIDE DEF Sizes
    <3>2. QED
      BY <2>2, <3>1, SmallestOf
  <2>4. PICK T \in SUBSET S : T \notin Good /\ n = Cardinality(T)
    OBVIOUS
  <2> DEFINE x == CHOOSE x \in T : TRUE
  <2>5. T # {} /\ x \in T
    <3>1. T # {}
      BY <1>3, <2>4
    <3>2. QED
      BY <3>1, Zenon
  <2>6. T \ {x} \notin Good /\ T \ {x} \in SUBSET S
    BY <1>3, <2>4, <2>5
  <2>7. Cardinality(T \ {x}) \in Sizes
    BY <2>6
  <2>8. Cardinality(T \ {x}) = n - 1 /\ n \in Nat
    BY <2>1, <2>4, <2>5, FS_RemoveElement
  <2> HIDE DEF Sizes
  <2>9. QED
    BY <2>3, <2>7, <2>8
<1>4. Lists(<<>>, {})
  BY DEF Lists, Increasing
<1>5. ASSUME NEW T \in SUBSET S, T # {}, NEW array,
             Lists(array, T \ {CHOOSE x \in T : TRUE})
      PROVE  Lists(Insert(CHOOSE x \in T : TRUE, array), T)
  <2> DEFINE x == CHOOSE x \in T : TRUE
  <2>1. x \in T
    BY <1>5
  <2>2. T \ {x} \in SUBSET InRange(k) /\ x \in InRange(k) /\ x \notin T \ {x}
        /\ (T \ {x}) \cup {x} = T /\ Lists(array, T \ {x})
    BY <1>5, <2>1
  <2> HIDE DEF x
  <2>3. Lists(Insert(x, array), (T \ {x}) \cup {x})
    BY <2>2, InsertLists
  <2>4. Lists(Insert(x, array), T)
    BY <2>2, <2>3
  <2>5. QED
    BY <2>4 DEF x
<1> HIDE DEF sort
(* Every set of them can be listed, in one way: that solves the recursion. *)
<1>6. \A T \in SUBSET S : Lists(sorted[T], T)
  <2> DEFINE Good == {T \in SUBSET S : \E array : Lists(array, T)}
  <2>1. {} \in Good
    BY <1>4
  <2>2. ASSUME NEW T \in SUBSET S, T # {}, T \ {CHOOSE x \in T : TRUE} \in Good
        PROVE  T \in Good
    <3>1. PICK array : Lists(array, T \ {CHOOSE x \in T : TRUE})
      BY <2>2
    <3>2. QED
      BY <1>5, <2>2, <3>1
  <2> HIDE DEF Good
  <2>3. SUBSET S \subseteq Good
    BY <1>3, <2>1, <2>2
  <2>4. ASSUME NEW T \in SUBSET S PROVE Lists(sorted[T], T)
    <3>1. \E array : Lists(array, T)
      BY <2>3 DEF Good
    <3>2. QED
      BY <3>1, Zenon
  <2>5. QED
    BY <2>4
<1>7. sorted = [T \in SUBSET S |-> Step(sorted, T)]
  <2>1. ASSUME NEW T \in SUBSET S PROVE sorted[T] = Step(sorted, T)
    <3> DEFINE rest == T \ {CHOOSE x \in T : TRUE}
    <3> HIDE DEF sorted
    <3>1. Lists(sorted[T], T) /\ T \in SUBSET Nat
      BY <1>2, <1>6
    <3>2. Lists(Step(sorted, T), T)
      <4>1. CASE T = {}
        BY <1>4, <4>1
      <4>2. CASE T # {}
        <5>1. rest \in SUBSET S
          OBVIOUS
        <5>2. Lists(sorted[rest], rest)
          BY <1>6, <5>1
        <5>3. Lists(Insert(CHOOSE x \in T : TRUE, sorted[rest]), T)
          BY <1>5, <4>2, <5>2
        <5>4. QED
          BY <4>2, <5>3
      <4>3. QED
        BY <4>1, <4>2
    <3> HIDE DEF Step
    <3>3. QED
      BY <3>1, <3>2, OneList
  <2> HIDE DEF Step
  <2>2. QED
    BY <2>1, Zenon
<1>8. sort = [T \in SUBSET S |-> Step(sort, T)]
  <2> HIDE DEF sorted, Step
  <2>1. QED
    BY <1>7, Zenon DEF sort
<1>9. \A T \in SUBSET S : Lists(sort[T], T)
  <2> DEFINE Good == {T \in SUBSET S : Lists(sort[T], T)}
  <2>1. ASSUME NEW T \in SUBSET S PROVE sort[T] = Step(sort, T)
    <3> HIDE DEF Step
    <3>1. QED
      BY <1>8
  <2>2. {} \in Good
    BY <1>4, <2>1
  <2>3. ASSUME NEW T \in SUBSET S, T # {}, T \ {CHOOSE x \in T : TRUE} \in Good
        PROVE  T \in Good
    <3>1. sort[T] = Insert(CHOOSE x \in T : TRUE, sort[T \ {CHOOSE x \in T : TRUE}])
      BY <2>1, <2>3
    <3>2. QED
      BY <1>5, <2>3, <3>1
  <2> HIDE DEF Good
  <2>4. SUBSET S \subseteq Good
    BY <1>3, <2>2, <2>3
  <2>5. QED
    BY <2>4 DEF Good
<1>10. QED
  BY <1>1, <1>9
-----------------------------------------------------------------------------
(* g_array_binary_search finds a uid in a sorted array just if it is there. *)
THEOREM SearchFinds ==
  ASSUME NEW k \in Uids, NEW array \in Seq(InRange(k)), NEW target \in InRange(k),
         \A i, j \in 1..Len(array) : i < j => array[i] < array[j]
  PROVE  BinarySearch(array, target) <=> \E i \in 1..Len(array) : array[i] = target
<1> DEFINE N == Len(array)
           Span == (1..(N + 1)) \X (0..N)
           Round(f, l, r) ==
             LET middle == l + (r - l) \div 2
                 val == uid_cmp(array[middle], target)
             IN /\ l <= r
                /\ \/ val = 0
                   \/ val < 0 /\ f[<<middle + 1, r>>]
                   \/ val > 0 /\ f[<<l, middle - 1>>]
           find == CHOOSE f : f = [half \in Span |-> Round(f, half[1], half[2])]
           Has(l, r) == \E i \in l..r : array[i] = target
           found == [half \in Span |-> Has(half[1], half[2])]
<1>1. BinarySearch(array, target) = find[<<1, N>>]
  BY DEF BinarySearch
<1>2. N \in Nat /\ \A i \in 1..N : array[i] \in InRange(k) /\ array[i] \in Int
  <2>1. \A i \in 1..N : array[i] \in InRange(k)
    OBVIOUS
  <2>2. \A u \in InRange(k) : u \in Int
    BY DEF InRange, Uids
  <2>3. QED
    BY <2>1, <2>2
<1>3. target \in Int
  BY DEF InRange, Uids
(* One round of the loop leaves the half where the target may be. *)
<1>4. ASSUME NEW l \in 1..(N + 1), NEW r \in 0..N, l <= r, NEW m, m = l + (r - l) \div 2
      PROVE  /\ m \in l..r /\ m \in 1..N /\ <<m + 1, r>> \in Span /\ <<l, m - 1>> \in Span
             /\ uid_cmp(array[m], target) \in Int
             /\ uid_cmp(array[m], target) = 0 => Has(l, r)
             /\ uid_cmp(array[m], target) < 0 => (Has(l, r) <=> Has(m + 1, r))
             /\ uid_cmp(array[m], target) > 0 => (Has(l, r) <=> Has(l, m - 1))
  <2>1. m \in l..r /\ m \in 1..N /\ m + 1 \in 1..(N + 1) /\ m - 1 \in 0..N
    BY <1>2, <1>4
  <2>2. /\ uid_cmp(array[m], target) \in Int
        /\ uid_cmp(array[m], target) < 0 <=> array[m] < target
        /\ uid_cmp(array[m], target) = 0 <=> array[m] = target
        /\ uid_cmp(array[m], target) > 0 <=> array[m] > target
    BY <1>2, <2>1, UidCmpOrders
  <2>3. ASSUME array[m] < target PROVE Has(l, r) <=> Has(m + 1, r)
    <3>1. ASSUME NEW i \in l..r, array[i] = target PROVE i \in (m + 1)..r
      <4>1. i \in 1..N /\ ~(i < m) /\ i # m
        BY <1>2, <1>3, <2>1, <2>3, <3>1
      <4>2. QED
        BY <2>1, <4>1
    <3>2. (m + 1)..r \subseteq l..r
      BY <2>1
    <3>3. QED
      BY <3>1, <3>2
  <2>4. ASSUME array[m] > target PROVE Has(l, r) <=> Has(l, m - 1)
    <3>1. ASSUME NEW i \in l..r, array[i] = target PROVE i \in l..(m - 1)
      <4>1. i \in 1..N /\ ~(m < i) /\ i # m
        BY <1>2, <1>3, <2>1, <2>4, <3>1
      <4>2. QED
        BY <2>1, <4>1
    <3>2. l..(m - 1) \subseteq l..r
      BY <2>1
    <3>3. QED
      BY <3>1, <3>2
  <2>5. QED
    BY <2>1, <2>2, <2>3, <2>4
<1>5. ASSUME NEW l \in 1..(N + 1), NEW r \in 0..N, NEW f,
             \A i \in 1..(N + 1), j \in 0..N : j - i < r - l => f[<<i, j>>] = Has(i, j)
      PROVE  Round(f, l, r) = Has(l, r)
  <2> DEFINE m == l + (r - l) \div 2
  <2>1. CASE l <= r
    <3>1. /\ m \in 1..N /\ m + 1 \in 1..(N + 1) /\ m - 1 \in 0..N
          /\ r - (m + 1) < r - l /\ (m - 1) - l < r - l
      BY <1>2, <2>1
    <3>2. /\ uid_cmp(array[m], target) \in Int
          /\ uid_cmp(array[m], target) = 0 => Has(l, r)
          /\ uid_cmp(array[m], target) < 0 => (Has(l, r) <=> Has(m + 1, r))
          /\ uid_cmp(array[m], target) > 0 => (Has(l, r) <=> Has(l, m - 1))
      <4> HIDE DEF Has
      <4>1. QED
        BY <1>4, <2>1, Zenon
    <3>3. /\ f[<<m + 1, r>>] = Has(m + 1, r)
          /\ f[<<l, m - 1>>] = Has(l, m - 1)
      BY <1>5, <3>1
    <3>4. Round(f, l, r) = \/ uid_cmp(array[m], target) = 0
                           \/ uid_cmp(array[m], target) < 0 /\ f[<<m + 1, r>>]
                           \/ uid_cmp(array[m], target) > 0 /\ f[<<l, m - 1>>]
      BY <2>1
    <3>5. Has(l, r) \in BOOLEAN /\ Has(m + 1, r) \in BOOLEAN /\ Has(l, m - 1) \in BOOLEAN
      OBVIOUS
    <3>6. \/ uid_cmp(array[m], target) = 0 /\ ~(uid_cmp(array[m], target) < 0)
             /\ ~(uid_cmp(array[m], target) > 0)
          \/ uid_cmp(array[m], target) # 0 /\ uid_cmp(array[m], target) < 0
             /\ ~(uid_cmp(array[m], target) > 0)
          \/ uid_cmp(array[m], target) # 0 /\ ~(uid_cmp(array[m], target) < 0)
             /\ uid_cmp(array[m], target) > 0
      <4> HIDE DEF m, Has, Round
      <4>1. QED
        BY <3>2
    <3> HIDE DEF m, Has, Round
    <3>7. Round(f, l, r) <=> Has(l, r)
      BY <3>2, <3>3, <3>4, <3>6, Zenon
    <3>8. Round(f, l, r) \in BOOLEAN
      BY <3>4, Zenon
    <3>9. QED
      BY <3>5, <3>7, <3>8
  <2>2. CASE l > r
    BY <1>2, <2>2
  <2>3. QED
    BY <2>1, <2>2
<1>6. find = [half \in Span |-> Round(find, half[1], half[2])]
  <2>1. \A i \in 1..(N + 1), j \in 0..N : found[<<i, j>>] = Has(i, j)
    OBVIOUS
  <2>2. found = [half \in Span |-> Round(found, half[1], half[2])]
    <3>1. ASSUME NEW half \in Span
          PROVE  Round(found, half[1], half[2]) = Has(half[1], half[2])
      <4> HIDE DEF Round, Has, found
      <4>1. QED
        BY <1>5, <2>1
    <3> HIDE DEF Round, Has
    <3>2. QED
      BY <3>1
  <2> HIDE DEF found, Round
  <2>3. QED
    BY <2>2
<1> HIDE DEF find
(* The shortest span that is searched wrongly would not be. *)
<1>7. \A l \in 1..(N + 1), r \in 0..N : find[<<l, r>>] = Has(l, r)
  <2> DEFINE Wrong == {n \in Nat : \E l \in 1..(N + 1), r \in 0..N :
                         n = r - l + N + 1 /\ find[<<l, r>>] # Has(l, r)}
  <2>1. Wrong = {}
    <3>1. SUFFICES ASSUME Wrong # {} PROVE FALSE
      OBVIOUS
    <3>2. PICK n \in Wrong : \A x \in Wrong : n <= x
      <4>1. Wrong \in SUBSET Nat
        OBVIOUS
      <4> HIDE DEF Wrong
      <4>2. QED
        BY <3>1, <4>1, SmallestOf
    <3>3. PICK l \in 1..(N + 1), r \in 0..N :
            n = r - l + N + 1 /\ find[<<l, r>>] # Has(l, r)
      OBVIOUS
    <3>4. ASSUME NEW i \in 1..(N + 1), NEW j \in 0..N, j - i < r - l
          PROVE  find[<<i, j>>] = Has(i, j)
      <4>1. j - i + N + 1 \in Nat /\ ~(n <= j - i + N + 1)
        BY <1>2, <3>3, <3>4
      <4>2. j - i + N + 1 \notin Wrong
        <5> HIDE DEF Wrong
        <5>1. QED
          BY <3>2, <4>1
      <4> HIDE DEF Has
      <4>3. QED
        BY <4>1, <4>2
    <3>5. Round(find, l, r) = Has(l, r)
      <4> HIDE DEF Has, Round, Wrong
      <4>1. QED
        BY <1>5, <3>4
    <3>6. find[<<l, r>>] = Round(find, l, r)
      <4> HIDE DEF Round
      <4>1. QED
        BY <1>6
    <3>7. QED
      BY <3>3, <3>5, <3>6
  <2>2. ASSUME NEW l \in 1..(N + 1), NEW r \in 0..N
        PROVE  find[<<l, r>>] = Has(l, r)
    <3>1. r - l + N + 1 \in Nat
      BY <1>2
    <3> HIDE DEF Has
    <3>2. QED
      BY <2>1, <3>1
  <2>3. QED
    BY <2>2
<1>8. QED
  <2>1. 1 \in 1..(N + 1) /\ N \in 0..N
    BY <1>2
  <2>2. QED
    BY <1>1, <1>7, <2>1
-----------------------------------------------------------------------------
(***************************************************************************)
(* What fits into the width is what it is in numbers of any size.          *)
(***************************************************************************)
LEMMA Fits ==
  ASSUME NEW x \in Nat, x < Width
  PROVE  x % Width = x
BY ConfigAssumption

LEMMA Wraps ==
  ASSUME NEW x \in Int
  PROVE  x % Width \in Nat /\ x % Width < Width
<1>1. Hundred * Ram \in Nat
  BY ConfigAssumption
<1>2. Width \in Nat /\ Width > 0
  BY <1>1, ConfigAssumption
<1>3. QED
  BY <1>2

(* The units stand for natural numbers. *)
LEMMA FactorType == \A unit \in DOMAIN Factor : Factor[unit] \in Nat
<1>1. Kilo \in Nat /\ Kilo * Kilo \in Nat
  BY ConfigAssumption
<1>2. Kilo * Kilo * Kilo \in Nat /\ Kilo * Kilo * Kilo * Kilo \in Nat
  BY <1>1
<1>3. QED
  BY <1>1, <1>2 DEF Factor

(* Percents do not wrap around. *)
LEMMA PercentMeant ==
  ASSUME NEW n \in Nat
  PROVE  Percent(n) = (Least(Hundred, n) * Ram) \div Hundred /\ Percent(n) \in Nat
<1> DEFINE p == Least(Hundred, n)
<1>1. p \in Nat /\ p <= Hundred /\ Hundred \in Nat /\ Hundred > 0 /\ Ram \in Nat
  BY ConfigAssumption DEF Least
<1> HIDE DEF p
<1>2. p * Ram \in Nat /\ p * Ram <= Hundred * Ram
  BY <1>1
<1>3. Hundred * Ram < Width
  BY ConfigAssumption
<1>4. p * Ram < Width
  BY <1>1, <1>2, <1>3, ConfigAssumption
<1>5. Percent(n) = (p * Ram) \div Hundred
  BY <1>2, <1>4, Fits DEF Percent, p
<1>6. QED
  BY <1>1, <1>2, <1>5 DEF p

(* config_get_memory reads what is meant, when it fits.                  *)
LEMMA MemoryMeant ==
  ASSUME NEW file, IsManagerFile(file), Sane(file), NEW key
  PROVE  ConfigGetMemory(file, key) = Meant(file, key) /\ Meant(file, key) \in Nat
         /\ 2 * Meant(file, key) < Width
<1>0. Width \in Nat /\ Width > 0 /\ Kilo \in Nat
  <2>1. Hundred * Ram \in Nat
    BY ConfigAssumption
  <2>2. QED
    BY <2>1, ConfigAssumption
<1>1. CASE NoMemory(file, key)
  BY <1>0, <1>1 DEF ConfigGetMemory, Meant
<1>2. CASE ~NoMemory(file, key)
  <2> DEFINE n == file[key].number
             unit == file[key].unit
  <2>1. key \in DOMAIN file /\ unit # "?"
    BY <1>2 DEF NoMemory
  <2>2. n \in Int /\ unit \in Suffixes
    BY <2>1 DEF IsManagerFile
  <2>3. n \in Nat /\ 2 * n < Width /\ 2 * Meant(file, key) < Width
    BY <2>1, <2>2 DEF Sane
  <2>4. Strtoll(n) = n
    <3>1. n < Width \div 2
      BY <1>0, <2>3, ConfigAssumption
    <3>2. n < Width /\ ~(n >= Width \div 2) /\ ~(n < -(Width \div 2))
      BY <1>0, <2>3, <3>1
    <3>3. Strtoll(n) = n % Width
      BY <3>2 DEF Strtoll
    <3>4. QED
      BY <2>3, <3>2, <3>3, Fits
  <2> HIDE DEF n, unit
  <2>5. /\ Meant(file, key) = CASE unit = "" -> n
                               [] unit = "%" -> (Least(Hundred, n) * Ram) \div Hundred
                               [] OTHER -> n * Factor[unit]
        /\ ConfigGetMemory(file, key) = CASE unit = "" -> n
                                         [] unit = "%" -> Percent(n)
                                         [] OTHER -> (n * Factor[unit]) % Width
    BY <1>2, <2>4 DEF Meant, ConfigGetMemory, n, unit
  <2>6. CASE unit = ""
    BY <2>3, <2>5, <2>6
  <2>7. CASE unit = "%"
    BY <2>3, <2>5, <2>7, PercentMeant
  <2>8. CASE unit \notin {"", "%"}
    <3>1. unit \in DOMAIN Factor
      BY <2>1, <2>2, <2>8 DEF Suffixes
    <3>2. Factor[unit] \in Nat
      BY <3>1, FactorType
    <3>3. /\ Meant(file, key) = n * Factor[unit]
          /\ ConfigGetMemory(file, key) = (n * Factor[unit]) % Width
      BY <2>5, <2>8
    <3>4. n * Factor[unit] \in Nat
      BY <2>3, <3>2
    <3>5. n * Factor[unit] < Width
      BY <1>0, <2>3, <3>3, <3>4
    <3>6. QED
      BY <2>3, <3>3, <3>4, <3>5, Fits
  <2>9. QED
    BY <2>6, <2>7, <2>8
<1>3. QED
  BY <1>1, <1>2

(* Whatever the file says, config_get_memory gives an unsigned number. *)
LEMMA MemoryType ==
  ASSUME NEW file, IsManagerFile(file), NEW key
  PROVE  ConfigGetMemory(file, key) \in Nat
<1>0. Width \in Nat /\ Width > 0
  <2>1. Hundred * Ram \in Nat
    BY ConfigAssumption
  <2>2. QED
    BY <2>1, ConfigAssumption
<1>1. CASE NoMemory(file, key)
  BY <1>1 DEF ConfigGetMemory
<1>2. CASE ~NoMemory(file, key)
  <2> DEFINE unit == file[key].unit
             res == Strtoll(file[key].number)
  <2>1. unit # "?" /\ unit \in Suffixes /\ file[key].number \in Int
    BY <1>2 DEF NoMemory, IsManagerFile
  <2>2. res \in Nat
    <3>1. -(Width \div 2) \in Int /\ Width \div 2 - 1 \in Int
      BY <1>0
    <3>2. QED
      BY <1>0, <2>1, <3>1, Wraps DEF Strtoll
  <2>3. ConfigGetMemory(file, key) = CASE unit = "" -> res
                                       [] unit = "%" -> Percent(res)
                                       [] OTHER -> (res * Factor[unit]) % Width
    BY <1>2 DEF ConfigGetMemory
  <2> HIDE DEF unit, res
  <2>4. CASE unit = ""
    BY <2>2, <2>3, <2>4
  <2>5. CASE unit = "%"
    BY <2>2, <2>3, <2>5, PercentMeant
  <2>6. CASE unit \notin {"", "%"}
    <3>1. Factor[unit] \in Nat
      BY <2>1, <2>6, FactorType DEF Suffixes
    <3>2. res * Factor[unit] \in Int
      BY <2>2, <3>1
    <3>3. QED
      BY <2>3, <2>6, <3>2, Wraps
  <2>7. QED
    BY <2>4, <2>5, <2>6
<1>3. QED
  BY <1>1, <1>2

(***************************************************************************)
(* For any file and any number of users, set_user_slice_resources asks for *)
(* min(ActiveUser.MemoryLow * active_users, MaxMemoryLow) when all of it   *)
(* fits, never for more than the maximum, and session.slice is given what  *)
(* the user is when the file does not speak of it.                         *)
(***************************************************************************)
THEOREM ReadAsDocumented ==
  ASSUME NEW file, IsManagerFile(file), NEW users \in Nat
  PROVE  AsDocumented(file, users)
<1> DEFINE config == ReadManagerConfig(file)
<1>1. /\ config.max = ConfigGetMemory(file, "MaxMemory")
      /\ config.active_user.memory = ConfigGetMemory(file, "Memory")
  BY DEF ReadManagerConfig
<1>2. /\ ConfigGetMemory(file, "MaxMemory") \in Nat
      /\ ConfigGetMemory(file, "Memory") \in Nat
  BY MemoryType
<1>3. ASSUME Sane(file), users * Meant(file, "Memory") < Width
      PROVE  UserSliceMemory(config, users)
               = Least(users * Meant(file, "Memory"), Meant(file, "MaxMemory"))
  <2>1. /\ ConfigGetMemory(file, "MaxMemory") = Meant(file, "MaxMemory")
        /\ ConfigGetMemory(file, "Memory") = Meant(file, "Memory")
    BY <1>3, MemoryMeant
  <2>2. users * Meant(file, "Memory") \in Nat
    BY <1>2, <2>1
  <2>3. (users * Meant(file, "Memory")) % Width = users * Meant(file, "Memory")
    BY <1>3, <2>2, Fits
  <2> HIDE DEF config
  <2>4. QED
    BY <1>1, <2>1, <2>3 DEF UserSliceMemory
<1>4. UserSliceMemory(config, users) <= config.max
  <2>1. (users * ConfigGetMemory(file, "Memory")) % Width \in Nat
    <3>1. users * ConfigGetMemory(file, "Memory") \in Int
      BY <1>2
    <3>2. QED
      BY <3>1, Wraps
  <2> HIDE DEF config
  <2>2. QED
    BY <1>1, <1>2, <2>1 DEF UserSliceMemory, Least
<1>5. ASSUME DOMAIN file \cap {"SessionMemory", "SessionWeight"} = {}
      PROVE  config.session_slice = config.active_user
  BY <1>5 DEF ReadManagerConfig, NoMemory, NoInteger
<1>6. QED
  BY <1>3, <1>4, <1>5 DEF AsDocumented
-----------------------------------------------------------------------------
(* The searches among uids less than 2^31 apart find the users in the array. *)
THEOREM MembersFound == FindsMembers
<1> SUFFICES ASSUME NEW k \in Uids, NEW S \in SUBSET InRange(k), NEW u \in InRange(k)
             PROVE  BinarySearch(Sorted(S), u) <=> u \in S
  BY DEF FindsMembers
<1> DEFINE array == Sorted(S)
<1>1. Lists(array, S) /\ S \in SUBSET Nat
  BY SortedLists, RangeFinite
<1> HIDE DEF array
<1>2. /\ array \in Seq(S)
      /\ \A i \in 1..Len(array) : array[i] \in S
      /\ \A i, j \in 1..Len(array) : i < j => array[i] < array[j]
  BY <1>1, ListElements
<1>3. array \in Seq(InRange(k))
  BY <1>2
<1>4. BinarySearch(array, u) <=> \E i \in 1..Len(array) : array[i] = u
  BY <1>2, <1>3, SearchFinds
<1>5. u \in S => \E i \in 1..Len(array) : array[i] = u
  BY <1>1 DEF Lists
<1>6. QED
  BY <1>2, <1>4, <1>5 DEF array

(* The searches in a list of users find those who are in it. *)
LEMMA FoundSet ==
  ASSUME NEW S \in SUBSET Users
  PROVE  Found[S] = S
<1>1. PICK k \in Uids : UidOf \in [Users -> InRange(k)]
  BY DataAssumption
<1> DEFINE uids == {UidOf[v] : v \in S}
<1>2. \A u \in Users : UidOf[u] \in uids <=> u \in S
  BY DataAssumption
<1>3. uids \in SUBSET InRange(k) /\ \A u \in Users : UidOf[u] \in InRange(k)
  BY <1>1
<1> HIDE DEF uids
<1>4. \A u \in Users : BinarySearch(Sorted(uids), UidOf[u]) <=> u \in S
  BY <1>2, <1>3, MembersFound DEF FindsMembers
<1>5. Found[S] = {u \in Users : BinarySearch(Sorted(uids), UidOf[u])}
  BY DEF Found, uids
<1>6. QED
  BY <1>4, <1>5

(* In every state updat_user_allocations finds who is in its lists. *)
THEOREM ListsSearched == Spec => []SearchIsMembership
<1>1. TypeOK => SearchIsMembership
  BY FoundSet, MembersFound DEF TypeOK, ListsTypeOK, SearchIsMembership
<1>2. QED
  BY <1>1, TypeCorrect, PTL

(* In every state user.slice is given what the comments of the file say. *)
THEOREM ShareDocumented == Spec => []ShareAsDocumented
<1>1. TypeOK => ShareAsDocumented
  <2> SUFFICES ASSUME TypeOK PROVE ShareAsDocumented
    OBVIOUS
  <2> DEFINE n == Cardinality(login_graphical)
  <2>1. n \in 0..Cardinality(Users)
    <3>1. login_graphical \in SUBSET Users
      BY DEF TypeOK, ListsTypeOK
    <3>2. IsFiniteSet(Users)
      BY ManagerAssumption
    <3>3. QED
      BY <3>1, <3>2, FS_Subset, FS_CardinalityType
  <2> HIDE DEF n
  <2>2. \A file \in Files : AsDocumented(file, n)
    BY <2>1, DataAssumption, ReadAsDocumented
  <2>3. QED
    BY <2>1, <2>2 DEF ShareAsDocumented, Documented, n
<1>2. QED
  BY <1>1, TypeCorrect, PTL
=============================================================================
