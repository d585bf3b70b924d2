------------------------ MODULE RManagerQueueProofs ------------------------
(***************************************************************************)
(* What the calls on their way to systemd add up to.                       *)
(*                                                                         *)
(* The queue is read as a plan: the values that the units of systemd have  *)
(* at first, after each group of calls, and in the end, were no call       *)
(* refused.  The plan ends with what the manager knows, and on the way it  *)
(* never leaves user.slice with less than the share of the users protected *)
(* then.  What systemd holds is the plan's first state, but for the units  *)
(* whose latest call was refused.                                          *)
(***************************************************************************)
EXTENDS RManagerProofs

Value(c) == IF c.kind = "user.slice" THEN c.memory ELSE c.alloc

(***************************************************************************)
(* A group tells user.slice, or users - of whose slices all are told the   *)
(* same.                                                                   *)
(***************************************************************************)
Uniform(g) ==
  \/ \E c \in g : g = {c}
  \/ \E alloc \in {"active", "inactive"} : \A c \in g :
       c.kind \in {"slice", "service"} /\ (c.kind = "slice" => c.alloc = alloc)

(* All calls of such a group turn the values v of the units into w. *)
Leads(g, v, w) ==
  /\ Uniform(g)
  /\ \A c \in g : w[Unit(c)] = Value(c)
  /\ \A x \in Units : (\A c \in g : Unit(c) # x) => w[x] = v[x]

(* The groups s turn v into w by states of W. *)
Plan(s, v, w, W) ==
  \E P \in [0..Len(s) -> W] :
    /\ P[0] = v /\ P[Len(s)] = w
    /\ \A i \in 1..Len(s) : Leads(s[i], P[i - 1], P[i])

LEMMA PlanEnds ==
  ASSUME NEW G, NEW s \in Seq(G), NEW v, NEW w, NEW W, Plan(s, v, w, W)
  PROVE  v \in W /\ w \in W /\ (s = <<>> => v = w)
<1>1. Len(s) \in Nat /\ (s = <<>> => Len(s) = 0)
  OBVIOUS
<1>2. QED
  BY <1>1 DEF Plan

LEMMA PlanOfNothing ==
  ASSUME NEW W, NEW v \in W
  PROVE  Plan(<<>>, v, v, W)
<1> DEFINE P == [i \in 0..0 |-> v]
<1>1. P \in [0..Len(<<>>) -> W] /\ P[0] = v /\ P[Len(<<>>)] = v
  OBVIOUS
<1>2. 1..Len(<<>>) = {}
  OBVIOUS
<1>3. QED
  BY <1>1, <1>2 DEF Plan

LEMMA PlanWider ==
  ASSUME NEW s, NEW v, NEW w, NEW W, NEW W2, W \subseteq W2, Plan(s, v, w, W)
  PROVE  Plan(s, v, w, W2)
BY DEF Plan

(* A group is added to the queue. *)
LEMMA PlanAppend ==
  ASSUME NEW G, NEW s \in Seq(G), NEW g \in G, NEW v, NEW w, NEW W, Plan(s, v, w, W),
         NEW w2 \in W, Leads(g, w, w2)
  PROVE  Plan(Append(s, g), v, w2, W)
<1>1. PICK P \in [0..Len(s) -> W] :
         /\ P[0] = v /\ P[Len(s)] = w
         /\ \A i \in 1..Len(s) : Leads(s[i], P[i - 1], P[i])
  BY DEF Plan
<1> DEFINE n == Len(s)
           t == Append(s, g)
           Q == [i \in 0..(n + 1) |-> IF i = n + 1 THEN w2 ELSE P[i]]
<1>2. /\ n \in Nat /\ Len(t) = n + 1 /\ t[n + 1] = g
      /\ \A i \in 1..n : t[i] = s[i]
  OBVIOUS
<1> HIDE DEF n, t
<1>3. Q \in [0..(n + 1) -> W]
  BY <1>2 DEF n
<1>4. Q[0] = v /\ Q[n + 1] = w2 /\ Q[n] = w
  BY <1>1, <1>2 DEF n
<1>5. ASSUME NEW i \in 1..(n + 1)
      PROVE  Leads(t[i], Q[i - 1], Q[i])
  <2>1. CASE i = n + 1
    <3>1. i - 1 = n /\ t[i] = g
      BY <1>2, <2>1
    <3>2. QED
      BY <1>4, <2>1, <3>1
  <2>2. CASE i # n + 1
    <3>1. i \in 1..n /\ i - 1 \in 0..n /\ i \in 0..n /\ i - 1 # n + 1
      BY <1>2, <2>2
    <3>2. Q[i - 1] = P[i - 1] /\ Q[i] = P[i] /\ t[i] = s[i]
      BY <1>2, <2>2, <3>1
    <3>3. QED
      BY <1>1, <3>1, <3>2 DEF n
  <2>3. QED
    BY <2>1, <2>2
<1> HIDE DEF Q
<1>6. QED
  BY <1>2, <1>3, <1>4, <1>5 DEF Plan, t

(* A crash leaves the first k groups. *)
LEMMA PlanCut ==
  ASSUME NEW G, NEW s \in Seq(G), NEW v, NEW w, NEW W, Plan(s, v, w, W),
         NEW k \in 0..Len(s)
  PROVE  \E w2 : Plan(SubSeq(s, 1, k), v, w2, W)
<1>1. PICK P \in [0..Len(s) -> W] :
         /\ P[0] = v
         /\ \A i \in 1..Len(s) : Leads(s[i], P[i - 1], P[i])
  BY DEF Plan
<1> DEFINE t == SubSeq(s, 1, k)
           Q == [i \in 0..k |-> P[i]]
<1>2. Len(s) \in Nat /\ k \in Nat /\ Len(t) = k /\ \A i \in 1..k : t[i] = s[i]
  OBVIOUS
<1> HIDE DEF t
<1>3. Q \in [0..Len(t) -> W] /\ Q[0] = v
  BY <1>1, <1>2
<1>4. \A i \in 1..Len(t) : Leads(t[i], Q[i - 1], Q[i])
  BY <1>1, <1>2
<1> HIDE DEF Q
<1>5. Plan(t, v, Q[k], W)
  BY <1>2, <1>3, <1>4 DEF Plan
<1>6. QED
  BY <1>5 DEF t

(* The first group, and what comes after it. *)
LEMMA PlanFirst ==
  ASSUME NEW G, NEW s \in Seq(G), s # <<>>, NEW v, NEW w, NEW W, Plan(s, v, w, W)
  PROVE  \E v2 \in W : Leads(Head(s), v, v2) /\ Plan(Tail(s), v2, w, W)
<1>1. PICK P \in [0..Len(s) -> W] :
         /\ P[0] = v /\ P[Len(s)] = w
         /\ \A i \in 1..Len(s) : Leads(s[i], P[i - 1], P[i])
  BY DEF Plan
<1> DEFINE n == Len(s) - 1
           t == Tail(s)
           Q == [i \in 0..n |-> P[i + 1]]
<1>2. /\ n \in Nat /\ Len(s) = n + 1 /\ Len(t) = n /\ Head(s) = s[1]
      /\ \A i \in 1..n : t[i] = s[i + 1]
  OBVIOUS
<1> HIDE DEF n, t
<1>3. Q \in [0..Len(t) -> W] /\ Q[Len(t)] = w /\ Q[0] = P[1]
  BY <1>1, <1>2
<1>4. ASSUME NEW i \in 1..Len(t)
      PROVE  Leads(t[i], Q[i - 1], Q[i])
  <2>1. /\ Q[i - 1] = P[i] /\ Q[i] = P[i + 1] /\ t[i] = s[i + 1]
        /\ i + 1 \in 1..Len(s) /\ (i + 1) - 1 = i
    BY <1>2
  <2>2. QED
    BY <1>1, <2>1
<1>5. P[1] \in W /\ Leads(Head(s), v, P[1])
  BY <1>1, <1>2
<1> HIDE DEF Q
<1>6. Plan(t, P[1], w, W)
  BY <1>3, <1>4 DEF Plan
<1>7. QED
  BY <1>5, <1>6 DEF t

LEMMA PlanChangedFirst ==
  ASSUME NEW G, NEW s \in Seq(G), s # <<>>, NEW g \in G, NEW W, NEW v \in W, NEW v2, NEW w,
         Leads(g, v, v2), Plan(Tail(s), v2, w, W)
  PROVE  Plan([s EXCEPT ![1] = g], v, w, W)
<1>1. PICK P \in [0..Len(Tail(s)) -> W] :
         /\ P[0] = v2 /\ P[Len(Tail(s))] = w
         /\ \A i \in 1..Len(Tail(s)) : Leads(Tail(s)[i], P[i - 1], P[i])
  BY DEF Plan
<1> DEFINE n == Len(Tail(s))
           r == Tail(s)
           t == [s EXCEPT ![1] = g]
           Q == [i \in 0..(n + 1) |-> IF i = 0 THEN v ELSE P[i - 1]]
<1>2. /\ n \in Nat /\ Len(s) = n + 1 /\ Len(t) = n + 1 /\ t[1] = g
      /\ \A i \in 1..n : r[i] = t[i + 1]
  OBVIOUS
<1> HIDE DEF n, r, t
<1>3. Q \in [0..Len(t) -> W] /\ Q[Len(t)] = w /\ Q[0] = v /\ Q[1] = v2
  BY <1>1, <1>2 DEF n
<1>4. ASSUME NEW i \in 1..Len(t)
      PROVE  Leads(t[i], Q[i - 1], Q[i])
  <2>1. CASE i = 1
    BY <1>2, <1>3, <2>1
  <2>2. CASE i # 1
    <3>1. /\ i - 1 \in 1..n /\ Q[i - 1] = P[(i - 1) - 1] /\ Q[i] = P[i - 1]
          /\ t[i] = r[i - 1]
      BY <1>2, <2>2
    <3>2. QED
      BY <1>1, <3>1 DEF n, r
  <2>3. QED
    BY <2>1, <2>2
<1> HIDE DEF Q
<1>5. QED
  BY <1>3, <1>4 DEF Plan, t

-----------------------------------------------------------------------------
(* The units of systemd and what it holds of them. *)
SliceUnit(u)   == <<"slice", u>>
ServiceUnit(u) == <<"service", u>>
UserSlice      == <<"user.slice">>

Values == Allocation \cup Nat
States == {v \in [Units -> Values] : v[UserSlice] \in Nat}

HeldAs(inSlice, inService, memory) ==
  [x \in Units |-> IF x = UserSlice THEN memory
                   ELSE IF x[1] = "slice" THEN inSlice[x[2]] ELSE inService[x[2]]]

Held == HeldAs(slice, service, userSlice)

LEMMA UnitFacts ==
  /\ UserSlice \in Units
  /\ \A u \in Users : /\ SliceUnit(u) \in Units /\ ServiceUnit(u) \in Units
                      /\ SliceUnit(u) # UserSlice /\ ServiceUnit(u) # UserSlice
  /\ \A u, t \in Users : /\ SliceUnit(u) # ServiceUnit(t)
                         /\ SliceUnit(u) = SliceUnit(t) => u = t
                         /\ ServiceUnit(u) = ServiceUnit(t) => u = t
  /\ \A x \in Units : x = UserSlice \/ \E u \in Users : x \in {SliceUnit(u), ServiceUnit(u)}
BY DEF Units, SliceUnit, ServiceUnit, UserSlice

LEMMA CallFacts ==
  ASSUME NEW c \in Call
  PROVE  /\ Unit(c) \in Units /\ Value(c) \in Values
         /\ \/ /\ c.kind = "user.slice" /\ Unit(c) = UserSlice
               /\ Value(c) = c.memory /\ c.memory \in Nat
            \/ /\ c.kind = "slice" /\ c.uid \in Users /\ Unit(c) = SliceUnit(c.uid)
               /\ Value(c) = c.alloc
            \/ /\ c.kind = "service" /\ c.uid \in Users /\ Unit(c) = ServiceUnit(c.uid)
               /\ Value(c) = c.alloc
<1>1. CASE c \in SliceCall
  BY <1>1 DEF SliceCall, Unit, Value, Values, Units, UserSlice
<1>2. CASE c \in UserCall
  <2>1. c.kind \in {"slice", "service"} /\ c.uid \in Users /\ c.alloc \in Allocation
    BY <1>2 DEF UserCall
  <2>2. Unit(c) = <<c.kind, c.uid>> /\ Value(c) = c.alloc
    BY <2>1 DEF Unit, Value
  <2>3. QED
    BY <2>1, <2>2 DEF Values, Units, SliceUnit, ServiceUnit
<1>3. QED
  BY <1>1, <1>2 DEF Call

LEMMA HeldFacts ==
  ASSUME NEW inSlice \in [Users -> Allocation], NEW inService \in [Users -> Allocation],
         NEW memory \in Nat
  PROVE  LET v == HeldAs(inSlice, inService, memory) IN
         /\ v \in States /\ v[UserSlice] = memory
         /\ \A u \in Users : v[SliceUnit(u)] = inSlice[u] /\ v[ServiceUnit(u)] = inService[u]
<1> DEFINE v == HeldAs(inSlice, inService, memory)
<1>1. v[UserSlice] = memory
  BY UnitFacts DEF HeldAs
<1>2. ASSUME NEW u \in Users
      PROVE  v[SliceUnit(u)] = inSlice[u] /\ v[ServiceUnit(u)] = inService[u]
  <2>1. SliceUnit(u)[1] = "slice" /\ SliceUnit(u)[2] = u
    BY DEF SliceUnit
  <2>2. ServiceUnit(u)[1] = "service" /\ ServiceUnit(u)[2] = u
    BY DEF ServiceUnit
  <2>3. QED
    BY <2>1, <2>2, UnitFacts DEF HeldAs
<1>3. ASSUME NEW x \in Units
      PROVE  v[x] \in Values
  BY <1>1, <1>2, UnitFacts DEF Values
<1>4. v \in [Units -> Values]
  BY <1>3 DEF HeldAs
<1>5. QED
  BY <1>1, <1>2, <1>4 DEF States

Set(v, c) == [v EXCEPT ![Unit(c)] = Value(c)]

LEMMA SetType ==
  ASSUME NEW v \in States, NEW c \in Call
  PROVE  /\ Set(v, c) \in States
         /\ Set(v, c)[Unit(c)] = Value(c)
         /\ \A x \in Units \ {Unit(c)} : Set(v, c)[x] = v[x]
<1>1. v \in [Units -> Values] /\ Unit(c) \in Units /\ Value(c) \in Values
  BY CallFacts DEF States
<1>2. /\ Set(v, c) \in [Units -> Values]
      /\ Set(v, c)[Unit(c)] = Value(c)
      /\ \A x \in Units \ {Unit(c)} : Set(v, c)[x] = v[x]
  BY <1>1 DEF Set
<1>3. Set(v, c)[UserSlice] \in Nat
  BY <1>2, CallFacts, UnitFacts DEF States
<1>4. QED
  BY <1>2, <1>3 DEF States

(* systemd sets what the call says and nothing else. *)
LEMMA ServedHeld ==
  ASSUME SystemdTypeOK, SystemdTypeOK', NEW c \in Call, SetUnitProperties(c)
  PROVE  Held' = Set(Held, c)
<1>1. /\ Held \in States /\ Held[UserSlice] = userSlice
      /\ \A u \in Users : Held[SliceUnit(u)] = slice[u] /\ Held[ServiceUnit(u)] = service[u]
  BY HeldFacts DEF SystemdTypeOK, Held
<1>2. /\ Held' \in States /\ Held'[UserSlice] = userSlice'
      /\ \A u \in Users : Held'[SliceUnit(u)] = slice'[u] /\ Held'[ServiceUnit(u)] = service'[u]
  BY HeldFacts DEF SystemdTypeOK, Held
<1>3. Set(Held, c) \in States
  BY <1>1, SetType
<1>4. ASSUME NEW u \in Users
      PROVE  /\ SliceUnit(u) = Unit(c) <=> (c.kind = "slice" /\ c.uid = u)
             /\ ServiceUnit(u) = Unit(c) <=> (c.kind = "service" /\ c.uid = u)
  <2>1. CASE c.kind = "user.slice"
    <3>1. Unit(c) = UserSlice
      BY <2>1, CallFacts
    <3>2. QED
      BY <2>1, <3>1, UnitFacts
  <2>2. CASE c.kind = "slice"
    <3>1. Unit(c) = SliceUnit(c.uid) /\ c.uid \in Users
      BY <2>2, CallFacts
    <3>2. ServiceUnit(u) # Unit(c)
      BY <3>1 DEF SliceUnit, ServiceUnit
    <3>3. SliceUnit(u) = Unit(c) <=> c.uid = u
      BY <3>1 DEF SliceUnit, ServiceUnit
    <3>4. QED
      BY <2>2, <3>2, <3>3
  <2>3. CASE c.kind = "service"
    <3>1. Unit(c) = ServiceUnit(c.uid) /\ c.uid \in Users
      BY <2>3, CallFacts
    <3>2. SliceUnit(u) # Unit(c)
      BY <3>1 DEF SliceUnit, ServiceUnit
    <3>3. ServiceUnit(u) = Unit(c) <=> c.uid = u
      BY <3>1 DEF SliceUnit, ServiceUnit
    <3>4. QED
      BY <2>3, <3>2, <3>3
  <2>4. QED
    BY <2>1, <2>2, <2>3, CallFacts
<1>5. ASSUME NEW x \in Units
      PROVE  Held'[x] = Set(Held, c)[x]
  <2>1. Set(Held, c)[x] = IF x = Unit(c) THEN Value(c) ELSE Held[x]
    BY <1>1, SetType
  <2>2. CASE x = UserSlice
    BY <1>1, <1>2, <2>1, <2>2, CallFacts, UnitFacts DEF SetUnitProperties
  <2>3. ASSUME NEW u \in Users, x = SliceUnit(u)
        PROVE  Held'[x] = Set(Held, c)[x]
    <3>1. slice'[u] = IF c.kind = "slice" /\ c.uid = u THEN c.alloc ELSE slice[u]
      BY DEF SetUnitProperties, SystemdTypeOK
    <3>2. x = Unit(c) <=> c.kind = "slice" /\ c.uid = u
      BY <1>4, <2>3
    <3>3. QED
      BY <1>1, <1>2, <2>1, <2>3, <3>1, <3>2, CallFacts
  <2>4. ASSUME NEW u \in Users, x = ServiceUnit(u)
        PROVE  Held'[x] = Set(Held, c)[x]
    <3>1. service'[u] = IF c.kind = "service" /\ c.uid = u THEN c.alloc ELSE service[u]
      BY DEF SetUnitProperties, SystemdTypeOK
    <3>2. x = Unit(c) <=> c.kind = "service" /\ c.uid = u
      BY <1>4, <2>4
    <3>3. QED
      BY <1>1, <1>2, <2>1, <2>4, <3>1, <3>2, CallFacts
  <2>5. QED
    BY <2>2, <2>3, <2>4, UnitFacts
<1>6. QED
  BY <1>2, <1>3, <1>5 DEF States

LEMMA LeadsPartly ==
  ASSUME NEW g \in SUBSET Call, NEW c \in g, NEW v \in States, NEW w \in States,
         Leads(g, v, w)
  PROVE  Leads(g \ {c}, Set(v, c), w)
<1>1. /\ Set(v, c)[Unit(c)] = Value(c)
      /\ \A x \in Units \ {Unit(c)} : Set(v, c)[x] = v[x]
  BY SetType
<1>2. w[Unit(c)] = Value(c)
  BY DEF Leads
<1>3. Uniform(g \ {c})
  BY DEF Leads, Uniform
<1>4. QED
  BY <1>1, <1>2, <1>3 DEF Leads

LEMMA LeadsWhole ==
  ASSUME NEW c \in Call, NEW v \in States, NEW w \in States, Leads({c}, v, w)
  PROVE  Set(v, c) = w
<1>1. Set(v, c) \in [Units -> Values] /\ w \in [Units -> Values]
  BY SetType DEF States
<1>2. \A x \in Units : Set(v, c)[x] = w[x]
  BY SetType DEF Leads
<1>3. QED
  BY <1>1, <1>2

(* A call of the oldest group is done with: served or refused. *)
LEMMA PlanServe ==
  ASSUME NEW s \in Seq(SUBSET Call), s # <<>>, NEW c \in Head(s), NEW W, W \subseteq States,
         NEW v, NEW w, Plan(s, v, w, W), Set(v, c) \in W
  PROVE  Plan(IF Head(s) = {c} THEN Tail(s) ELSE [s EXCEPT ![1] = @ \ {c}], Set(v, c), w, W)
<1> DEFINE Group == SUBSET Call
<1>1. Head(s) \in Group /\ Head(s) = s[1] /\ 1 \in DOMAIN s
  OBVIOUS
<1>2. c \in Call /\ Head(s) \ {c} \in Group
  BY <1>1
<1> HIDE DEF Group
<1>3. s \in Seq(Group)
  BY DEF Group
<1>4. PICK v2 \in W : Leads(Head(s), v, v2) /\ Plan(Tail(s), v2, w, W)
  BY <1>3, PlanFirst
<1>5. v \in W
  BY <1>3, PlanEnds
<1>6. CASE Head(s) = {c}
  BY <1>2, <1>4, <1>5, <1>6, LeadsWhole
<1>7. CASE Head(s) # {c}
  <2>1. Leads(Head(s) \ {c}, Set(v, c), v2)
    BY <1>1, <1>4, <1>5, LeadsPartly DEF Group
  <2>2. Plan([s EXCEPT ![1] = Head(s) \ {c}], Set(v, c), w, W)
    BY <1>2, <1>3, <1>4, <2>1, PlanChangedFirst
  <2>3. QED
    BY <1>1, <1>7, <2>2
<1>8. QED
  BY <1>6, <1>7

-----------------------------------------------------------------------------
(* user.slice has the share, with its limit, of the users protected. *)
Active(v) == {u \in Users : v[SliceUnit(u)] = "active"}
Within(v) == MemoryFor(Cardinality(Active(v))) <= v[UserSlice]

(* The states that are asked of the plan: when b holds, with that share. *)
Fit(b) == {v \in States : b => Within(v)}

LEMMA MemoryMonotone ==
  ASSUME NEW m \in Nat, NEW n \in Nat, m <= n
  PROVE  MemoryFor(m) <= MemoryFor(n)
<1>1. ActiveMemory \in Nat /\ MaxUsersMemory \in Nat
  BY ManagerAssumption
<1>2. PICK d \in Nat : n = m + d
  <2>1. n - m \in Nat /\ n = m + (n - m)
    OBVIOUS
  <2>2. QED
    BY <2>1
<1>3. n * ActiveMemory = m * ActiveMemory + d * ActiveMemory
  BY <1>1, <1>2
<1>4. m * ActiveMemory \in Nat /\ d * ActiveMemory \in Nat
  BY <1>1
<1>5. m * ActiveMemory <= n * ActiveMemory /\ n * ActiveMemory \in Nat
  BY <1>3, <1>4
<1>6. QED
  BY <1>1, <1>4, <1>5 DEF MemoryFor, MIN

LEMMA ShareMonotone ==
  ASSUME NEW S, NEW T \in SUBSET Users, S \subseteq T
  PROVE  /\ MemoryFor(Cardinality(S)) \in Nat /\ MemoryFor(Cardinality(T)) \in Nat
         /\ MemoryFor(Cardinality(S)) <= MemoryFor(Cardinality(T))
<1>1. IsFiniteSet(T)
  BY ManagerAssumption, FS_Subset
<1>2. Cardinality(S) \in Nat /\ Cardinality(T) \in Nat
  BY CardinalityType
<1>3. Cardinality(S) <= Cardinality(T)
  BY <1>1, FS_Subset
<1>4. QED
  BY <1>2, <1>3, MemoryMonotone, MemoryForType

(***************************************************************************)
(* While a group is being served the memory given to users is no more than *)
(* before it, or no more than after it.                                    *)
(***************************************************************************)
LEMMA FitServed ==
  ASSUME NEW g \in SUBSET Call, NEW c \in g, NEW b \in BOOLEAN,
         NEW v \in Fit(b), NEW w \in Fit(b), Leads(g, v, w)
  PROVE  Set(v, c) \in Fit(b)
<1> DEFINE m == Set(v, c)
<1>1. /\ v \in States /\ w \in States /\ m \in States
      /\ m[Unit(c)] = Value(c)
      /\ \A x \in Units \ {Unit(c)} : m[x] = v[x]
  BY SetType DEF Fit
<1> HIDE DEF m
<1>2. CASE g = {c}
  BY <1>2, LeadsWhole, <1>1 DEF m
<1>3. ASSUME NEW alloc \in {"active", "inactive"},
             \A d \in g : d.kind \in {"slice", "service"} /\ (d.kind = "slice" => d.alloc = alloc),
             b
      PROVE  Within(m)
  <2>1. \A d \in g : Unit(d) # UserSlice
    BY <1>3, CallFacts, UnitFacts
  <2>2. m[UserSlice] = v[UserSlice] /\ w[UserSlice] = v[UserSlice]
    BY <1>1, <2>1, UnitFacts DEF Leads
  <2>3. CASE c.kind = "service"
    <3>1. \A u \in Users : SliceUnit(u) # Unit(c)
      <4>1. c.uid \in Users /\ Unit(c) = ServiceUnit(c.uid)
        BY <2>3, CallFacts
      <4>2. QED
        BY <4>1 DEF SliceUnit, ServiceUnit
    <3>2. Active(m) = Active(v)
      BY <1>1, <3>1, UnitFacts DEF Active
    <3>3. QED
      BY <1>3, <2>2, <3>2 DEF Fit, Within
  <2>4. CASE c.kind = "slice"
    <3>1. c.uid \in Users /\ Unit(c) = SliceUnit(c.uid) /\ Value(c) = alloc
      BY <1>3, <2>4, CallFacts
    <3>2. CASE alloc = "inactive"
      <4>1. Active(m) \subseteq Active(v)
        BY <1>1, <3>1, <3>2, UnitFacts DEF Active
      <4>2. MemoryFor(Cardinality(Active(m))) <= MemoryFor(Cardinality(Active(v)))
            /\ MemoryFor(Cardinality(Active(m))) \in Nat /\ MemoryFor(Cardinality(Active(v))) \in Nat
        BY <4>1, ShareMonotone DEF Active
      <4>3. MemoryFor(Cardinality(Active(v))) <= v[UserSlice] /\ v[UserSlice] \in Nat
        BY <1>1, <1>3 DEF Fit, Within, States
      <4>4. QED
        BY <2>2, <4>2, <4>3 DEF Within
    <3>3. CASE alloc = "active"
      <4>1. ASSUME NEW u \in Users, v[SliceUnit(u)] = "active"
            PROVE  w[SliceUnit(u)] = "active"
        <5>1. CASE \E d \in g : Unit(d) = SliceUnit(u)
          <6>1. PICK d \in g : Unit(d) = SliceUnit(u)
            BY <5>1
          <6>2. w[SliceUnit(u)] = Value(d) /\ d \in Call
            BY <6>1 DEF Leads
          <6>3. d.kind # "service"
            <7>1. d.kind = "service" => Unit(d) = ServiceUnit(d.uid)
              BY <6>2, CallFacts
            <7>2. QED
              BY <6>1, <7>1 DEF SliceUnit, ServiceUnit
          <6>4. Value(d) = "active"
            BY <1>3, <3>3, <6>2, <6>3, CallFacts
          <6>5. QED
            BY <6>2, <6>4
        <5>2. CASE \A d \in g : Unit(d) # SliceUnit(u)
          BY <4>1, <5>2, UnitFacts DEF Leads
        <5>3. QED
          BY <5>1, <5>2
      <4>2. Active(m) \subseteq Active(w)
        <5>1. w[Unit(c)] = Value(c)
          BY DEF Leads
        <5>2. ASSUME NEW u \in Users, m[SliceUnit(u)] = "active"
              PROVE  w[SliceUnit(u)] = "active"
          BY <1>1, <3>1, <3>3, <4>1, <5>1, <5>2, UnitFacts
        <5>3. QED
          BY <5>2 DEF Active
      <4>3. MemoryFor(Cardinality(Active(m))) <= MemoryFor(Cardinality(Active(w)))
            /\ MemoryFor(Cardinality(Active(m))) \in Nat /\ MemoryFor(Cardinality(Active(w))) \in Nat
        BY <4>2, ShareMonotone DEF Active
      <4>4. MemoryFor(Cardinality(Active(w))) <= w[UserSlice] /\ w[UserSlice] \in Nat
        BY <1>1, <1>3 DEF Fit, Within, States
      <4>5. QED
        BY <2>2, <4>3, <4>4 DEF Within
    <3>4. QED
      BY <3>2, <3>3
  <2>5. QED
    BY <1>3, <2>3, <2>4
<1>4. QED
  BY <1>1, <1>2, <1>3 DEF Leads, Uniform, Fit, m

-----------------------------------------------------------------------------
(* What the groups of an update do to the plan. *)
LEMMA PlanBatch ==
  ASSUME NEW s \in Seq(SUBSET Call), NEW g \in SUBSET Call, NEW W, W \subseteq States,
         NEW v, NEW w, Plan(s, v, w, W), NEW w2 \in W, Leads(g, w, w2)
  PROVE  Plan(s \o Batch(g), v, w2, W)
<1> DEFINE Group == SUBSET Call
<1> HIDE DEF Group
<1>1. s \in Seq(Group) /\ g \in Group
  BY DEF Group
<1>2. CASE g = {}
  <2>1. w \in W /\ w \in [Units -> Values] /\ w2 \in [Units -> Values]
    BY <1>1, PlanEnds DEF States
  <2>2. \A x \in Units : w2[x] = w[x]
    BY <1>2 DEF Leads
  <2>3. w = w2
    BY <2>1, <2>2
  <2>4. s \o Batch(g) = s
    BY <1>1, <1>2 DEF Batch
  <2>5. QED
    BY <2>3, <2>4
<1>3. CASE g # {}
  <2>1. s \o Batch(g) = Append(s, g)
    BY <1>1, <1>3 DEF Batch
  <2>2. QED
    BY <1>1, <2>1, PlanAppend
<1>4. QED
  BY <1>2, <1>3

(* set_user_slice_resources was called, or was not. *)
SharedTo(w, w2, memory) ==
  /\ w2 \in States /\ w2[UserSlice] = memory
  /\ \A u \in Users : /\ w2[SliceUnit(u)] = w[SliceUnit(u)]
                      /\ w2[ServiceUnit(u)] = w[ServiceUnit(u)]

LEMMA LeadsShare ==
  ASSUME NEW w \in States, NEW n \in Nat, NEW told \in BOOLEAN
  PROVE  \E w2 : /\ SharedTo(w, w2, IF told THEN MemoryFor(n) ELSE w[UserSlice])
                 /\ Leads(IF told THEN SetUserSliceResources(n) ELSE {}, w, w2)
<1>1. CASE told
  <2> DEFINE c  == [kind |-> "user.slice", memory |-> MemoryFor(n)]
             w2 == Set(w, c)
  <2>1. c \in Call
    BY MemoryForType DEF Call, SliceCall
  <2>2. Unit(c) = UserSlice /\ Value(c) = MemoryFor(n)
    BY DEF Unit, Value, UserSlice
  <2>3. SetUserSliceResources(n) = {c}
    BY DEF SetUserSliceResources
  <2> HIDE DEF c
  <2>4. /\ w2 \in States /\ w2[Unit(c)] = Value(c)
        /\ \A x \in Units \ {Unit(c)} : w2[x] = w[x]
    BY <2>1, SetType
  <2> HIDE DEF w2
  <2>5. SharedTo(w, w2, MemoryFor(n))
    BY <2>2, <2>4, UnitFacts DEF SharedTo
  <2>6. Leads({c}, w, w2)
    BY <2>4 DEF Leads, Uniform
  <2>7. QED
    BY <1>1, <2>3, <2>5, <2>6
<1>2. CASE ~told
  BY <1>2 DEF SharedTo, Leads, Uniform
<1>3. QED
  BY <1>1, <1>2

(* set_user_resources was called for every user of S. *)
Alloc(active) == IF active THEN "active" ELSE "inactive"

ToldTo(w, w2, S, active) ==
  /\ w2 \in States /\ w2[UserSlice] = w[UserSlice]
  /\ \A u \in S : /\ w2[SliceUnit(u)] = Alloc(active)
                  /\ w2[ServiceUnit(u)] = Alloc(active /\ u \in sysGraphical)
  /\ \A u \in Users \ S : /\ w2[SliceUnit(u)] = w[SliceUnit(u)]
                          /\ w2[ServiceUnit(u)] = w[ServiceUnit(u)]

LEMMA LeadsTold ==
  ASSUME NEW w \in States, NEW S \in SUBSET Users, NEW active \in BOOLEAN
  PROVE  \E w2 : ToldTo(w, w2, S, active) /\ Leads(SetAll(S, active), w, w2)
<1> DEFINE inSlice   == [u \in Users |-> IF u \in S THEN Alloc(active) ELSE w[SliceUnit(u)]]
           inService == [u \in Users |-> IF u \in S THEN Alloc(active /\ u \in sysGraphical)
                                                   ELSE w[ServiceUnit(u)]]
           w2 == [x \in Units |-> IF x = UserSlice THEN w[UserSlice]
                                  ELSE IF x[1] = "slice" THEN inSlice[x[2]] ELSE inService[x[2]]]
<1>1. w \in [Units -> Values] /\ w[UserSlice] \in Nat
  BY DEF States
<1>2. w2[UserSlice] = w[UserSlice]
  BY UnitFacts
<1>3. ASSUME NEW u \in Users
      PROVE  w2[SliceUnit(u)] = inSlice[u] /\ w2[ServiceUnit(u)] = inService[u]
  <2>1. SliceUnit(u)[1] = "slice" /\ SliceUnit(u)[2] = u
    BY DEF SliceUnit
  <2>2. ServiceUnit(u)[1] = "service" /\ ServiceUnit(u)[2] = u
    BY DEF ServiceUnit
  <2>3. QED
    BY <2>1, <2>2, UnitFacts
<1>4. w2 \in [Units -> Values]
  <2>1. ASSUME NEW x \in Units
        PROVE  w2[x] \in Values
    <3>1. \A a \in BOOLEAN : Alloc(a) \in Values
      BY DEF Alloc, Values, Allocation
    <3>2. \A u \in Users : inSlice[u] \in Values /\ inService[u] \in Values
      <4>1. \A u \in Users : w[SliceUnit(u)] \in Values /\ w[ServiceUnit(u)] \in Values
        BY <1>1, UnitFacts
      <4>2. \A u \in Users : (active /\ u \in sysGraphical) \in BOOLEAN
        OBVIOUS
      <4>3. QED
        BY <3>1, <4>1, <4>2
    <3>3. w2[UserSlice] \in Values
      BY <1>1, <1>2 DEF Values
    <3> HIDE DEF w2, inSlice, inService
    <3>4. QED
      BY <1>3, <3>2, <3>3, UnitFacts
  <2>2. QED
    BY <2>1
<1> HIDE DEF w2
<1>5. ToldTo(w, w2, S, active)
  BY <1>1, <1>2, <1>3, <1>4 DEF ToldTo, States
<1>6. Leads(SetAll(S, active), w, w2)
  <2>1. ASSUME NEW u \in S, NEW c \in SetUserResources(u, active)
        PROVE  w2[Unit(c)] = Value(c)
    <3>1. CASE c = [kind |-> "slice", uid |-> u, alloc |-> Alloc(active)]
      <4>1. Unit(c) = SliceUnit(u) /\ Value(c) = Alloc(active)
        BY <3>1 DEF Unit, Value, SliceUnit
      <4>2. QED
        BY <1>5, <4>1 DEF ToldTo
    <3>2. CASE c = [kind |-> "service", uid |-> u, alloc |-> Alloc(active /\ u \in sysGraphical)]
      <4>1. Unit(c) = ServiceUnit(u) /\ Value(c) = Alloc(active /\ u \in sysGraphical)
        BY <3>2 DEF Unit, Value, ServiceUnit
      <4>2. QED
        BY <1>5, <4>1 DEF ToldTo
    <3>3. QED
      BY <3>1, <3>2 DEF SetUserResources, Alloc
  <2>2. ASSUME NEW x \in Units, \A c \in SetAll(S, active) : Unit(c) # x
        PROVE  w2[x] = w[x]
    <3>1. ASSUME NEW u \in S
          PROVE  x # SliceUnit(u) /\ x # ServiceUnit(u)
      <4> DEFINE c == [kind |-> "slice", uid |-> u, alloc |-> Alloc(active)]
                 d == [kind |-> "service", uid |-> u, alloc |-> Alloc(active /\ u \in sysGraphical)]
      <4>1. c \in SetAll(S, active) /\ d \in SetAll(S, active)
        BY DEF SetAll, SetUserResources, Alloc
      <4>2. Unit(c) = SliceUnit(u) /\ Unit(d) = ServiceUnit(u)
        BY DEF Unit, SliceUnit, ServiceUnit
      <4> HIDE DEF c, d
      <4>3. QED
        BY <2>2, <4>1, <4>2
    <3>2. QED
      BY <1>5, <3>1, UnitFacts DEF ToldTo
  <2>3. Uniform(SetAll(S, active))
    <3>1. Alloc(active) \in {"active", "inactive"}
      BY DEF Alloc
    <3>2. \A c \in SetAll(S, active) :
            c.kind \in {"slice", "service"} /\ (c.kind = "slice" => c.alloc = Alloc(active))
      BY DEF SetAll, SetUserResources, Alloc
    <3>3. QED
      BY <3>1, <3>2 DEF Uniform
  <2>4. QED
    BY <2>1, <2>2, <2>3 DEF Leads, SetAll
<1>7. QED
  BY <1>5, <1>6

(* What an update comes to, when w was to come before it. *)
Outcome(w, w2, all, graphical, force) ==
  LET granted == Granted(graphical, force)
      revoked == Revoked(graphical) \cup Unknown(all, graphical)
  IN  /\ w2 \in States
      /\ \A u \in granted : /\ w2[SliceUnit(u)] = "active"
                            /\ w2[ServiceUnit(u)] = Alloc(u \in sysGraphical)
      /\ \A u \in revoked : /\ w2[SliceUnit(u)] = "inactive"
                            /\ w2[ServiceUnit(u)] = "inactive"
      /\ \A u \in Users \ (granted \cup revoked) :
           /\ w2[SliceUnit(u)] = w[SliceUnit(u)]
           /\ w2[ServiceUnit(u)] = w[ServiceUnit(u)]
      /\ w2[UserSlice] = IF Cardinality(graphical) = Cardinality(graphical_users)
                         THEN w[UserSlice] ELSE MemoryFor(Cardinality(graphical))

(***************************************************************************)
(* The order of updat_user_allocations: from raising user.slice to         *)
(* lowering it, each group leaves user.slice with at least the share of    *)
(* the users protected then.                                               *)
(***************************************************************************)
LEMMA UpdatePlan ==
  ASSUME ListsTypeOK, QueueTypeOK,
         NEW all \in SUBSET Users, NEW graphical \in SUBSET Users, NEW force \in BOOLEAN,
         NEW b \in BOOLEAN, NEW v, NEW w, Plan(calls, v, w, Fit(b)),
         b => /\ Active(w) = graphical_users
              /\ w[UserSlice] = MemoryFor(Cardinality(graphical_users))
  PROVE  \E w2 : /\ Plan(calls \o NewCalls(all, graphical, force), v, w2, Fit(b))
                 /\ Outcome(w, w2, all, graphical, force)
<1> DEFINE before  == Cardinality(graphical_users)
           now     == Cardinality(graphical)
           revoked == Revoked(graphical)
           unknown == Unknown(all, graphical)
           granted == Granted(graphical, force)
           Queue   == Seq(SUBSET Call)
           W       == Fit(b)
<1>1. /\ graphical_users \in SUBSET Users /\ all_users \in SUBSET Users
      /\ calls \in Queue
  BY DEF ListsTypeOK, QueueTypeOK
<1>2. /\ revoked \in SUBSET Users /\ unknown \in SUBSET Users
      /\ granted \in SUBSET Users
  BY <1>1 DEF Revoked, Unknown, Granted
<1>3. before \in Nat /\ now \in Nat
  BY <1>1, CardinalityType
<1>4. /\ MemoryFor(before) \in Nat /\ MemoryFor(now) \in Nat
      /\ before <= now => MemoryFor(before) <= MemoryFor(now)
      /\ now <= before => MemoryFor(now) <= MemoryFor(before)
  BY <1>3, MemoryForType, MemoryMonotone
<1>5. W \subseteq States /\ w \in W /\ w \in States
  <2> DEFINE Group == SUBSET Call
  <2>1. calls \in Seq(Group)
    BY <1>1
  <2> HIDE DEF Group
  <2>2. w \in W
    BY <2>1, PlanEnds
  <2>3. QED
    BY <2>2 DEF Fit
(* The states between the groups. *)
<1>6. PICK w1 : /\ SharedTo(w, w1, IF now > before THEN MemoryFor(now) ELSE w[UserSlice])
                /\ Leads(Raise(now), w, w1)
  BY <1>3, <1>5, LeadsShare DEF Raise
<1>7. PICK w2 : ToldTo(w1, w2, revoked, FALSE) /\ Leads(SetAll(revoked, FALSE), w1, w2)
  BY <1>2, <1>6, LeadsTold DEF SharedTo
<1>8. PICK w3 : ToldTo(w2, w3, unknown, FALSE) /\ Leads(SetAll(unknown, FALSE), w2, w3)
  BY <1>2, <1>7, LeadsTold DEF ToldTo
<1>9. PICK w4 : ToldTo(w3, w4, granted, TRUE) /\ Leads(SetAll(granted, TRUE), w3, w4)
  BY <1>2, <1>8, LeadsTold DEF ToldTo
<1>10. PICK w5 : /\ SharedTo(w4, w5, IF now < before THEN MemoryFor(now) ELSE w4[UserSlice])
                 /\ Leads(Lower(now), w4, w5)
  BY <1>3, <1>9, LeadsShare DEF Lower, ToldTo
<1>11. /\ w1[UserSlice] = IF now > before THEN MemoryFor(now) ELSE w[UserSlice]
       /\ w2[UserSlice] = w1[UserSlice] /\ w3[UserSlice] = w1[UserSlice]
       /\ w4[UserSlice] = w1[UserSlice]
       /\ w5[UserSlice] = IF now < before THEN MemoryFor(now) ELSE w1[UserSlice]
  BY <1>6, <1>7, <1>8, <1>9, <1>10 DEF SharedTo, ToldTo
<1> HIDE DEF before, now
(* Each of them has the share for its users. *)
<1>12. ASSUME b
       PROVE  Within(w1) /\ Within(w2) /\ Within(w3) /\ Within(w4) /\ Within(w5)
  <2>1. Active(w) = graphical_users /\ w[UserSlice] = MemoryFor(before)
    BY <1>12 DEF before
  <2>2. /\ w1[UserSlice] \in Nat
        /\ MemoryFor(before) <= w1[UserSlice] /\ MemoryFor(now) <= w1[UserSlice]
    BY <1>3, <1>4, <1>11, <2>1
  <2>3. Active(w1) = graphical_users
    BY <1>6, <2>1 DEF SharedTo, Active
  <2>4. Active(w2) \subseteq graphical_users \cap graphical
    BY <1>2, <1>7, <2>3 DEF ToldTo, Active, Revoked, Alloc
  <2>5. Active(w3) \subseteq graphical_users \cap graphical
    BY <1>2, <1>8, <2>4 DEF ToldTo, Active, Alloc
  <2>6. Active(w4) \subseteq graphical
    BY <1>2, <1>9, <2>5 DEF ToldTo, Active, Granted
  <2>7. Active(w5) \subseteq graphical
    BY <1>10, <2>6 DEF SharedTo, Active
  <2>8. ASSUME NEW x, Active(x) \subseteq graphical_users
        PROVE  MemoryFor(Cardinality(Active(x))) <= w1[UserSlice]
    <3>1. /\ MemoryFor(Cardinality(Active(x))) \in Nat
          /\ MemoryFor(Cardinality(Active(x))) <= MemoryFor(before)
      BY <1>1, <2>8, ShareMonotone DEF before
    <3>2. QED
      BY <1>4, <2>2, <3>1
  <2>9. ASSUME NEW x, Active(x) \subseteq graphical
        PROVE  /\ MemoryFor(Cardinality(Active(x))) <= w1[UserSlice]
               /\ MemoryFor(Cardinality(Active(x))) <= MemoryFor(now)
    <3>1. /\ MemoryFor(Cardinality(Active(x))) \in Nat
          /\ MemoryFor(Cardinality(Active(x))) <= MemoryFor(now)
      BY <2>9, ShareMonotone DEF now
    <3>2. QED
      BY <1>4, <2>2, <3>1
  <2>10. Within(w1) /\ Within(w2) /\ Within(w3)
    <3>1. /\ Active(w1) \subseteq graphical_users /\ Active(w2) \subseteq graphical_users
          /\ Active(w3) \subseteq graphical_users
      BY <2>3, <2>4, <2>5
    <3>2. QED
      BY <1>11, <2>8, <3>1 DEF Within
  <2>11. Within(w4) /\ Within(w5)
    BY <1>11, <2>6, <2>7, <2>9 DEF Within
  <2>12. QED
    BY <2>10, <2>11
<1>13. w1 \in W /\ w2 \in W /\ w3 \in W /\ w4 \in W /\ w5 \in W
  BY <1>6, <1>7, <1>8, <1>9, <1>10, <1>12 DEF SharedTo, ToldTo, Fit
(* So they make a plan. *)
<1>14. Plan(calls \o NewCalls(all, graphical, force), v, w5, W)
  <2> DEFINE g1 == Raise(now)
             g2 == SetAll(revoked, FALSE)
             g3 == SetAll(unknown, FALSE)
             g4 == SetAll(granted, TRUE)
             g5 == Lower(now)
  <2>1. /\ g1 \in SUBSET Call /\ g2 \in SUBSET Call /\ g3 \in SUBSET Call
        /\ g4 \in SUBSET Call /\ g5 \in SUBSET Call
    BY <1>2, <1>3, SetAllType, ShareType DEF Raise, Lower
  <2>2. NewCalls(all, graphical, force)
          = Batch(g1) \o Batch(g2) \o Batch(g3) \o Batch(g4) \o Batch(g5)
    BY DEF NewCalls, now
  <2> HIDE DEF g1, g2, g3, g4, g5, W, Queue
  <2>3. /\ Batch(g1) \in Queue /\ Batch(g2) \in Queue /\ Batch(g3) \in Queue
        /\ Batch(g4) \in Queue /\ Batch(g5) \in Queue
    BY <2>1, BatchType DEF Queue
  <2> DEFINE s1 == calls \o Batch(g1)
             s2 == s1 \o Batch(g2)
             s3 == s2 \o Batch(g3)
             s4 == s3 \o Batch(g4)
             s5 == s4 \o Batch(g5)
  <2>4. s1 \in Queue /\ s2 \in Queue /\ s3 \in Queue /\ s4 \in Queue
    BY <1>1, <2>3, ConcatType DEF Queue
  <2>5. s5 = calls \o NewCalls(all, graphical, force)
    <3> DEFINE Group == SUBSET Call
               b1 == Batch(g1)
               b2 == Batch(g2)
               b3 == Batch(g3)
               b4 == Batch(g4)
               b5 == Batch(g5)
               c2 == b1 \o b2
               c3 == c2 \o b3
               c4 == c3 \o b4
    <3>1. /\ calls \in Seq(Group) /\ b1 \in Seq(Group) /\ b2 \in Seq(Group)
          /\ b3 \in Seq(Group) /\ b4 \in Seq(Group) /\ b5 \in Seq(Group)
      BY <1>1, <2>3 DEF Queue
    <3> HIDE DEF Group, b1, b2, b3, b4, b5
    <3>2. c2 \in Seq(Group)
      BY <3>1
    <3>3. (calls \o b1) \o b2 = calls \o c2
      BY <3>1
    <3> HIDE DEF c2
    <3>4. c3 \in Seq(Group)
      BY <3>1, <3>2
    <3>5. (calls \o c2) \o b3 = calls \o c3
      BY <3>1, <3>2
    <3> HIDE DEF c3
    <3>6. c4 \in Seq(Group)
      BY <3>1, <3>4
    <3>7. (calls \o c3) \o b4 = calls \o c4
      BY <3>1, <3>4
    <3> HIDE DEF c4
    <3>8. (calls \o c4) \o b5 = calls \o (c4 \o b5)
      BY <3>1, <3>6
    <3>9. ((((calls \o b1) \o b2) \o b3) \o b4) \o b5 = calls \o (c4 \o b5)
      BY <3>3, <3>5, <3>7, <3>8, Zenon
    <3>10. QED
      BY <2>2, <3>9, Zenon DEF b1, b2, b3, b4, b5, c2, c3, c4
  <2> HIDE DEF s1, s2, s3, s4, s5
  <2>6. Plan(s1, v, w1, W)
    BY <1>1, <1>5, <1>6, <1>13, <2>1, PlanBatch DEF s1, g1, Queue, W
  <2>7. Plan(s2, v, w2, W)
    BY <1>5, <1>7, <1>13, <2>1, <2>4, <2>6, PlanBatch DEF s2, g2, Queue
  <2>8. Plan(s3, v, w3, W)
    BY <1>5, <1>8, <1>13, <2>1, <2>4, <2>7, PlanBatch DEF s3, g3, Queue
  <2>9. Plan(s4, v, w4, W)
    BY <1>5, <1>9, <1>13, <2>1, <2>4, <2>8, PlanBatch DEF s4, g4, Queue
  <2>10. Plan(s5, v, w5, W)
    BY <1>5, <1>10, <1>13, <2>1, <2>4, <2>9, PlanBatch DEF s5, g5, Queue
  <2>11. QED
    BY <2>5, <2>10
<1>15. Outcome(w, w5, all, graphical, force)
  <2>1. \A u \in granted : u \in Users \ (revoked \cup unknown)
    BY <1>2 DEF Granted, Revoked, Unknown
  <2>2. \A u \in granted : /\ w5[SliceUnit(u)] = "active"
                           /\ w5[ServiceUnit(u)] = Alloc(u \in sysGraphical)
    BY <1>2, <1>9, <1>10 DEF SharedTo, ToldTo, Alloc
  <2>3. \A u \in revoked \cup unknown : /\ w5[SliceUnit(u)] = "inactive"
                                        /\ w5[ServiceUnit(u)] = "inactive"
    <3>1. \A u \in revoked \cup unknown : u \in Users \ granted
      BY <1>2, <2>1
    <3>2. \A u \in revoked \cup unknown : /\ w3[SliceUnit(u)] = "inactive"
                                          /\ w3[ServiceUnit(u)] = "inactive"
      BY <1>2, <1>7, <1>8 DEF ToldTo, Alloc
    <3>3. QED
      BY <1>9, <1>10, <3>1, <3>2 DEF SharedTo, ToldTo
  <2>4. \A u \in Users \ (granted \cup (revoked \cup unknown)) :
          /\ w5[SliceUnit(u)] = w[SliceUnit(u)]
          /\ w5[ServiceUnit(u)] = w[ServiceUnit(u)]
    BY <1>2, <1>6, <1>7, <1>8, <1>9, <1>10 DEF SharedTo, ToldTo
  <2>5. w5[UserSlice] = IF now = before THEN w[UserSlice] ELSE MemoryFor(now)
    BY <1>3, <1>11
  <2>6. w5 \in States
    BY <1>10 DEF SharedTo
  <2>7. QED
    BY <2>2, <2>3, <2>4, <2>5, <2>6 DEF Outcome, now, before
<1>16. QED
  BY <1>14, <1>15

(***************************************************************************)
(* r_manager_stop takes everything back: from all users first, and then    *)
(* from user.slice.                                                        *)
(***************************************************************************)
Nothing(w, w2) ==
  /\ w2 \in States /\ w2[UserSlice] = MemoryFor(0)
  /\ \A u \in all_users : w2[SliceUnit(u)] = "inactive" /\ w2[ServiceUnit(u)] = "inactive"
  /\ \A u \in Users \ all_users : /\ w2[SliceUnit(u)] = w[SliceUnit(u)]
                                  /\ w2[ServiceUnit(u)] = w[ServiceUnit(u)]

LEMMA StopPlan ==
  ASSUME ListsTypeOK, QueueTypeOK, NEW b \in BOOLEAN,
         NEW v, NEW w, Plan(calls, v, w, Fit(b)),
         b => Active(w) \subseteq all_users
  PROVE  \E w2 : Plan(calls \o StopCalls, v, w2, Fit(b)) /\ Nothing(w, w2)
<1> DEFINE W      == Fit(b)
           revoke == SetAll(all_users, FALSE)
           zero   == SetUserSliceResources(0)
<1>1. all_users \in SUBSET Users /\ calls \in Seq(SUBSET Call)
  BY DEF ListsTypeOK, QueueTypeOK
<1>2. W \subseteq States /\ w \in W /\ w \in States
  <2> DEFINE Group == SUBSET Call
  <2>1. calls \in Seq(Group)
    BY <1>1
  <2> HIDE DEF Group
  <2>2. w \in W
    BY <2>1, PlanEnds
  <2>3. QED
    BY <2>2 DEF Fit
<1>3. PICK w1 : ToldTo(w, w1, all_users, FALSE) /\ Leads(revoke, w, w1)
  BY <1>1, <1>2, LeadsTold
<1>4. PICK w2 : SharedTo(w1, w2, MemoryFor(0)) /\ Leads(zero, w1, w2)
  <2>1. w1 \in States
    BY <1>3 DEF ToldTo
  <2>2. \E x : /\ SharedTo(w1, x, IF TRUE THEN MemoryFor(0) ELSE w1[UserSlice])
               /\ Leads(IF TRUE THEN zero ELSE {}, w1, x)
    BY <2>1, LeadsShare
  <2>3. QED
    BY <2>2
<1>5. ASSUME b
      PROVE  Within(w1) /\ Within(w2)
  <2>1. Active(w1) = {} /\ Active(w2) = {}
    <3>1. Active(w1) = {}
      BY <1>1, <1>3, <1>5 DEF ToldTo, Active, Alloc
    <3>2. QED
      BY <1>4, <3>1 DEF SharedTo, Active
  <2>2. Cardinality({}) = 0
    BY FS_EmptySet
  <2>3. MemoryFor(0) \in Nat
    BY MemoryForType
  <2>4. Within(w2)
    BY <1>4, <2>1, <2>2, <2>3 DEF SharedTo, Within
  <2>5. Within(w1)
    <3>1. MemoryFor(Cardinality(Active(w))) <= w[UserSlice] /\ w[UserSlice] \in Nat
      BY <1>2, <1>5 DEF Fit, Within, States
    <3>2. MemoryFor(Cardinality({})) <= MemoryFor(Cardinality(Active(w)))
          /\ MemoryFor(Cardinality(Active(w))) \in Nat
      BY ShareMonotone DEF Active
    <3>3. w1[UserSlice] = w[UserSlice]
      BY <1>3 DEF ToldTo
    <3>4. QED
      BY <2>1, <2>2, <2>3, <3>1, <3>2, <3>3 DEF Within
  <2>6. QED
    BY <2>4, <2>5
<1>6. w1 \in W /\ w2 \in W
  BY <1>3, <1>4, <1>5 DEF ToldTo, SharedTo, Fit
<1>7. revoke \in SUBSET Call /\ zero \in SUBSET Call
  BY <1>1, SetAllType, ShareType
<1>8. Plan(calls \o StopCalls, v, w2, W)
  <2> DEFINE Group  == SUBSET Call
             s1     == calls \o Batch(revoke)
  <2>1. StopCalls = Batch(revoke) \o <<zero>>
    BY DEF StopCalls
  <2>2. calls \in Seq(Group) /\ Batch(revoke) \in Seq(Group) /\ zero \in Group
    BY <1>1, <1>7, BatchType
  <2>3. Plan(s1, v, w1, W)
    BY <1>1, <1>2, <1>3, <1>6, <1>7, PlanBatch
  <2> HIDE DEF Group, revoke, zero, W
  <2>4. s1 \in Seq(Group) /\ calls \o (Batch(revoke) \o <<zero>>) = Append(s1, zero)
    BY <2>2
  <2> HIDE DEF s1
  <2>5. Plan(Append(s1, zero), v, w2, W)
    BY <1>4, <1>6, <2>2, <2>3, <2>4, PlanAppend
  <2>6. QED
    BY <2>1, <2>4, <2>5, Zenon
<1>9. Nothing(w, w2)
  BY <1>1, <1>3, <1>4 DEF ToldTo, SharedTo, Nothing, Alloc
<1>10. QED
  BY <1>8, <1>9

-----------------------------------------------------------------------------
(***************************************************************************)
(* The inductive invariant.  w is what the units come to when systemd has  *)
(* served the queue and refused nothing; it is what the manager knows.     *)
(***************************************************************************)
Fair == crashes = 0 /\ ~StoppedTorn

Told(v) == \A x \in Units \ refused : Held[x] = v[x]

Queued(w) == \E v : Plan(calls, v, w, Fit(Fair)) /\ Told(v)

Settled(w) ==
  loop # "dead" =>
    /\ \A u \in graphical_users : w[SliceUnit(u)] = "active"
    /\ \A u \in all_users \ graphical_users : w[SliceUnit(u)] = "inactive"
    /\ (crashes = 0 \/ graphical_users # {}) =>
         w[UserSlice] = MemoryFor(Cardinality(graphical_users))
    /\ loop = "running" => \A u \in (graphical_users \cap poked) \ updateCalls :
                             w[ServiceUnit(u)] = "active"
    /\ Fair => \A u \in Users \ graphical_users :
                 w[SliceUnit(u)] # "active" /\ w[ServiceUnit(u)] # "active"

QueueInv == \E w : Queued(w) /\ Settled(w)

(* The control state that the queue depends on. *)
Control ==
  /\ subscribed => owned
  /\ owned => connection
  /\ updateCalls # {} \/ graphical_users # {} \/ all_users # {} => owned
  /\ loop \in {"flush", "exited"} => graphical_users = {} /\ all_users = {}
  /\ loop = "dead" => crashes > 0
  /\ starts > 0
  /\ AllowTorn \/ (graphical_users \subseteq all_users /\ login_graphical \subseteq login_all)
  /\ loop = "running" /\ subscribed => graphical_users = login_graphical /\ all_users = login_all

LEMMA ControlInit == Init => Control
BY DEF Init, Control, LoginLists

LEMMA ControlStep == TypeOK /\ Control /\ [Next]_vars => Control'
<1> SUFFICES ASSUME CountersTypeOK, Control, [Next]_vars
             PROVE  Control'
  BY DEF TypeOK
<1> USE DEF loginVars, busVars, knownVars, counters
<1>1. CASE BusAcquired
  BY <1>1 DEF BusAcquired, Control
<1>2. CASE BusGrantsName
  BY <1>2 DEF BusGrantsName, Control
<1>3. CASE NameAcquired
  BY <1>3 DEF NameAcquired, UpdatUserAllocations, Control
<1>4. ASSUME NEW u \in Users, HandleDbusMethodCall(u)
      PROVE  Control'
  <2>1. owned
    BY <1>4 DEF HandleDbusMethodCall, Control
  <2>2. QED
    BY <1>4, <2>1 DEF HandleDbusMethodCall, UpdatUserAllocations, Control
<1>5. CASE SetUnitResourcesCb
  BY <1>5 DEF SetUnitResourcesCb, Control
<1>6. CASE DecreasePendingCalls
  BY <1>6 DEF DecreasePendingCalls, Control
<1>7. CASE RManagerStop
  <2>1. /\ loop' = "flush" /\ graphical_users' = {} /\ all_users' = {}
        /\ login_graphical' = {} /\ login_all' = {} /\ updateCalls' = {}
        /\ ~subscribed' /\ ~owned' /\ starts' = starts
    BY <1>7, Zenon DEF RManagerStop
  <2>2. QED
    BY <2>1 DEF Control
<1>8. CASE RManagerFlushed
  BY <1>8 DEF RManagerFlushed, Control
<1>9. CASE LoginChanged
  <2>1. PICK l \in LoginLists : ActiveUsersChanged(l.all, l.graphical)
    BY <1>9 DEF LoginChanged
  <2>2. AllowTorn \/ l.graphical \subseteq l.all
    BY DEF LoginLists
  <2>3. QED
    BY <2>1, <2>2 DEF ActiveUsersChanged, UpdatUserAllocations, Control
<1>10. CASE QuitMainloop
  BY <1>10 DEF QuitMainloop, Control
<1>11. CASE Crash
  BY <1>11 DEF Crash, Control, CountersTypeOK
<1>12. CASE Start
  <2>1. starts \in Nat
    BY DEF CountersTypeOK
  <2>2. QED
    BY <1>12, <2>1 DEF Start, Control, LoginLists
<1>13. CASE Systemd
  BY <1>13 DEF Systemd, SetUnitProperties, Refuse, Control
<1>14. CASE UserDaemon
  BY <1>14 DEF UserDaemon, UserDaemonStarts, UserDaemonStops, IdleSystemDaemonUpdate, UserStep,
     Control
<1>15. CASE UNCHANGED vars
  BY <1>15 DEF vars, Control
<1>16. QED
  BY <1>1, <1>2, <1>3, <1>4, <1>5, <1>6, <1>7, <1>8, <1>9, <1>10, <1>11,
     <1>12, <1>13, <1>14, <1>15 DEF Next, Daemon

(* What was fair once need not stay so, but nothing becomes fair again. *)
LEMMA FairStep == TypeOK /\ Control /\ [Next]_vars => (Fair' => Fair)
<1> SUFFICES ASSUME CountersTypeOK, Control, [Next]_vars, Fair'
             PROVE  Fair
  BY DEF TypeOK
<1> USE DEF counters
<1>1. CASE loop' = loop /\ starts' = starts /\ crashes' = crashes
  BY <1>1 DEF Fair, StoppedTorn
<1>2. CASE Daemon \/ LoginChanged \/ QuitMainloop
  <2>1. starts' = starts /\ crashes' = crashes
    BY <1>2 DEF Daemon, BusAcquired, BusGrantsName, NameAcquired, HandleDbusMethodCall,
                SetUnitResourcesCb, DecreasePendingCalls, RManagerStop, RManagerFlushed,
                LoginChanged, ActiveUsersChanged, QuitMainloop
  <2>2. loop \in {"flush", "exited"} => loop' \in {"flush", "exited"}
    BY <1>2 DEF Daemon, BusAcquired, BusGrantsName, NameAcquired, HandleDbusMethodCall,
                SetUnitResourcesCb, DecreasePendingCalls, RManagerStop, RManagerFlushed,
                LoginChanged, ActiveUsersChanged, QuitMainloop
  <2>3. QED
    BY <2>1, <2>2 DEF Fair, StoppedTorn
<1>3. CASE Crash
  BY <1>3 DEF Crash, Fair, CountersTypeOK
<1>4. CASE Start
  <2>1. ~AllowTorn /\ crashes = 0
    BY <1>4 DEF Start, Fair, StoppedTorn, Control, CountersTypeOK
  <2>2. QED
    BY <2>1 DEF Fair, StoppedTorn
<1>5. CASE Systemd
  BY <1>1, <1>5 DEF Systemd, SetUnitProperties, Refuse
<1>6. CASE UserDaemon
  BY <1>1, <1>6 DEF UserDaemon, UserDaemonStarts, UserDaemonStops, IdleSystemDaemonUpdate,
                    UserStep
<1>7. CASE UNCHANGED vars
  BY <1>1, <1>7 DEF vars
<1>8. QED
  BY <1>2, <1>3, <1>4, <1>5, <1>6, <1>7 DEF Next

LEMMA ToldKept ==
  ASSUME UNCHANGED systemdVars, NEW v, Told(v)
  PROVE  Told(v)'
BY DEF Told, Held, systemdVars

(* Systemd and the queue are left alone. *)
LEMMA QueuedKept ==
  ASSUME UNCHANGED <<calls, systemdVars>>, Fair' => Fair, NEW w, Queued(w)
  PROVE  Queued(w)'
<1>1. PICK v : Plan(calls, v, w, Fit(Fair)) /\ Told(v)
  BY DEF Queued
<1>2. Fit(Fair) \subseteq Fit(Fair')
  BY DEF Fit
<1>3. Plan(calls', v, w, Fit(Fair'))
  BY <1>1, <1>2, PlanWider
<1>4. Told(v)'
  BY <1>1, ToldKept
<1>5. QED
  BY <1>3, <1>4 DEF Queued

(* What is known is left alone, and nobody is poked. *)
LEMMA SettledKept ==
  ASSUME UNCHANGED knownVars, crashes' = crashes, loop # "dead",
         loop' = "running" => loop = "running" /\ UNCHANGED <<poked, updateCalls>>,
         Fair' => Fair, NEW w, Settled(w)
  PROVE  Settled(w)'
BY DEF Settled, knownVars

LEMMA InvKept ==
  ASSUME UNCHANGED <<calls, systemdVars, knownVars>>, crashes' = crashes, Fair' => Fair,
         loop # "dead" \/ loop' = "dead",
         loop' = "running" => loop = "running" /\ UNCHANGED <<poked, updateCalls>>,
         QueueInv
  PROVE  QueueInv'
<1>1. PICK w : Queued(w) /\ Settled(w)
  BY DEF QueueInv
<1>2. Queued(w)'
  BY <1>1, QueuedKept
<1>3. Settled(w)'
  BY <1>1, SettledKept DEF Settled
<1>4. QED
  BY <1>2, <1>3 DEF QueueInv

(* systemd serves or refuses a call: one step of the plan is done. *)
LEMMA ServeStep ==
  ASSUME TypeOK, TypeOK', Systemd, QueueInv
  PROVE  QueueInv'
<1>1. PICK w : Queued(w) /\ Settled(w)
  BY DEF QueueInv
<1>2. PICK v : Plan(calls, v, w, Fit(Fair)) /\ Told(v)
  BY <1>1 DEF Queued
<1>3. PICK c \in Head(calls) : SetUnitProperties(c) \/ Refuse(c)
  BY DEF Systemd
<1> DEFINE v2 == Set(v, c)
           W  == Fit(Fair)
<1>4. calls \in Seq(SUBSET Call) /\ calls # <<>>
  BY DEF Systemd, TypeOK, QueueTypeOK
<1>5. c \in Call /\ v \in W /\ v2 \in W /\ W \subseteq States
  <2> DEFINE Group == SUBSET Call
  <2>1. calls \in Seq(Group)
    BY <1>4
  <2> HIDE DEF Group, W
  <2>2. Head(calls) \in Group
    BY <1>4, <2>1
  <2>3. PICK x \in W : Leads(Head(calls), v, x)
    BY <1>2, <1>4, <2>1, PlanFirst DEF W
  <2>4. v \in W
    BY <1>2, <2>1, PlanEnds DEF W
  <2>5. Fair \in BOOLEAN
    BY DEF Fair
  <2>6. v2 \in W
    BY <2>2, <2>3, <2>4, <2>5, FitServed DEF W, Group
  <2>7. QED
    BY <2>2, <2>4, <2>6 DEF Group, W, Fit
<1>6. Plan(calls', v2, w, W)
  <2>1. calls' = IF Head(calls) = {c} THEN Tail(calls) ELSE [calls EXCEPT ![1] = @ \ {c}]
    BY <1>3, Zenon DEF SetUnitProperties, Refuse, Served
  <2> HIDE DEF W, v2
  <2>2. Plan(IF Head(calls) = {c} THEN Tail(calls) ELSE [calls EXCEPT ![1] = @ \ {c}], v2, w, W)
    BY <1>2, <1>4, <1>5, PlanServe DEF W, v2
  <2>3. QED
    BY <2>1, <2>2, Zenon
<1>7. UNCHANGED <<loop, crashes, starts, knownVars, poked, updateCalls>>
  BY <1>3 DEF SetUnitProperties, Refuse, counters, userVars
<1>8. Fair' = Fair
  BY <1>7 DEF Fair, StoppedTorn
<1>9. /\ v2[Unit(c)] = Value(c)
      /\ \A x \in Units \ {Unit(c)} : v2[x] = v[x]
  BY <1>5, SetType DEF W
<1>10. Told(v2)'
  <2>1. CASE SetUnitProperties(c)
    <3>1. Held' = Set(Held, c)
      BY <1>5, <2>1, ServedHeld DEF TypeOK
    <3>2. Held \in States
      BY HeldFacts DEF Held, TypeOK, SystemdTypeOK
    <3>3. /\ Held'[Unit(c)] = Value(c)
          /\ \A x \in Units \ {Unit(c)} : Held'[x] = Held[x]
      BY <1>5, <3>1, <3>2, SetType
    <3>4. refused' = refused \ {Unit(c)}
      BY <2>1 DEF SetUnitProperties
    <3>5. QED
      BY <1>2, <1>9, <3>3, <3>4 DEF Told
  <2>2. CASE Refuse(c)
    <3>1. Held' = Held /\ refused' = refused \cup {Unit(c)}
      BY <2>2 DEF Refuse, Held
    <3>2. QED
      BY <1>2, <1>9, <3>1 DEF Told
  <2>3. QED
    BY <1>3, <2>1, <2>2
<1>11. Queued(w)'
  BY <1>6, <1>8, <1>10 DEF Queued
<1>12. Settled(w)'
  BY <1>1, <1>7, <1>8 DEF Settled, knownVars
<1>13. QED
  BY <1>11, <1>12 DEF QueueInv

(* The calls of an update lead the units from what was known to what is.   *)
LEMMA UpdateStep ==
  ASSUME TypeOK, QueueInv, loop = "running",
         NEW all \in SUBSET Users, NEW graphical \in SUBSET Users, NEW force \in BOOLEAN,
         UpdatUserAllocations(all, graphical, force),
         UNCHANGED <<loop, systemdVars, poked, crashes, starts>>,
         force \/ updateCalls' = updateCalls
  PROVE  QueueInv'
<1>1. PICK w : Queued(w) /\ Settled(w)
  BY DEF QueueInv
<1>2. PICK v : Plan(calls, v, w, Fit(Fair)) /\ Told(v)
  BY <1>1 DEF Queued
<1>3. Fair' = Fair /\ Fair \in BOOLEAN
  BY DEF Fair, StoppedTorn
<1>4. /\ graphical_users \in SUBSET Users /\ all_users \in SUBSET Users
      /\ poked \in SUBSET sysGraphical
  BY DEF TypeOK, ListsTypeOK, UsersTypeOK
(* What was known. *)
<1>5. /\ \A u \in graphical_users : w[SliceUnit(u)] = "active"
      /\ \A u \in all_users \ graphical_users : w[SliceUnit(u)] = "inactive"
      /\ (crashes = 0 \/ graphical_users # {}) =>
           w[UserSlice] = MemoryFor(Cardinality(graphical_users))
      /\ \A u \in (graphical_users \cap poked) \ updateCalls : w[ServiceUnit(u)] = "active"
      /\ Fair => \A u \in Users \ graphical_users :
                   w[SliceUnit(u)] # "active" /\ w[ServiceUnit(u)] # "active"
  BY <1>1 DEF Settled
<1>6. Fair => /\ Active(w) = graphical_users
              /\ w[UserSlice] = MemoryFor(Cardinality(graphical_users))
  BY <1>4, <1>5 DEF Active, Fair
<1>7. PICK w2 : /\ Plan(calls \o NewCalls(all, graphical, force), v, w2, Fit(Fair))
                /\ Outcome(w, w2, all, graphical, force)
  BY <1>2, <1>3, <1>6, UpdatePlan DEF TypeOK
<1>8. Queued(w2)'
  <2>1. calls' = calls \o NewCalls(all, graphical, force)
    BY DEF UpdatUserAllocations
  <2>2. Plan(calls', v, w2, Fit(Fair'))
    BY <1>3, <1>7, <2>1, Zenon
  <2>3. Told(v)'
    BY <1>2, ToldKept
  <2>4. QED
    BY <2>2, <2>3 DEF Queued
<1> DEFINE granted == Granted(graphical, force)
           revoked == Revoked(graphical) \cup Unknown(all, graphical)
<1>9. /\ \A u \in granted : /\ w2[SliceUnit(u)] = "active"
                            /\ w2[ServiceUnit(u)] = Alloc(u \in sysGraphical)
      /\ \A u \in revoked : /\ w2[SliceUnit(u)] = "inactive"
                            /\ w2[ServiceUnit(u)] = "inactive"
      /\ \A u \in Users \ (granted \cup revoked) :
           /\ w2[SliceUnit(u)] = w[SliceUnit(u)]
           /\ w2[ServiceUnit(u)] = w[ServiceUnit(u)]
      /\ w2[UserSlice] = IF Cardinality(graphical) = Cardinality(graphical_users)
                         THEN w[UserSlice] ELSE MemoryFor(Cardinality(graphical))
  BY <1>7, Zenon DEF Outcome
<1>10. /\ granted \subseteq graphical /\ (force => granted = graphical)
       /\ graphical \ granted \subseteq graphical_users
       /\ revoked \cap graphical = {} /\ revoked \subseteq Users
       /\ graphical_users \ graphical \subseteq revoked
       /\ (all \ graphical) \ revoked \subseteq all_users \ graphical_users
  BY <1>4 DEF Granted, Revoked, Unknown
<1> HIDE DEF granted, revoked
(* What is known now. *)
<1>11. \A u \in graphical : w2[SliceUnit(u)] = "active"
  BY <1>5, <1>9, <1>10
<1>12. \A u \in all \ graphical : w2[SliceUnit(u)] = "inactive"
  BY <1>5, <1>9, <1>10
<1>13. crashes = 0 \/ graphical # {} => w2[UserSlice] = MemoryFor(Cardinality(graphical))
  <2>1. IsFiniteSet(graphical) /\ IsFiniteSet(graphical_users)
    BY <1>4, ManagerAssumption, FS_Subset
  <2>2. Cardinality(graphical) = Cardinality(graphical_users) =>
          (graphical # {} => graphical_users # {})
    BY <2>1, FS_EmptySet
  <2>3. QED
    BY <1>5, <1>9, <2>2
<1>14. \A u \in (graphical \cap poked) \ updateCalls' : w2[ServiceUnit(u)] = "active"
  <2>1. ASSUME NEW u \in graphical \cap poked, u \in granted
        PROVE  w2[ServiceUnit(u)] = "active"
    BY <1>4, <1>9, <2>1 DEF Alloc
  <2>2. ASSUME NEW u \in (graphical \cap poked) \ updateCalls', u \notin granted
        PROVE  w2[ServiceUnit(u)] = "active"
    <3>1. ~force /\ u \in graphical_users /\ u \in Users \ (granted \cup revoked)
      BY <1>10, <2>2
    <3>2. QED
      BY <1>5, <1>9, <2>2, <3>1
  <2>3. QED
    BY <2>1, <2>2
<1>15. Fair => \A u \in Users \ graphical :
                w2[SliceUnit(u)] # "active" /\ w2[ServiceUnit(u)] # "active"
  <2>1. ASSUME Fair, NEW u \in Users \ graphical
        PROVE  w2[SliceUnit(u)] # "active" /\ w2[ServiceUnit(u)] # "active"
    <3>1. CASE u \in revoked
      BY <1>9, <3>1
    <3>2. CASE u \notin revoked
      BY <1>5, <1>9, <1>10, <2>1, <3>2
    <3>3. QED
      BY <3>1, <3>2
  <2>2. QED
    BY <2>1
<1>16. Settled(w2)'
  <2>1. graphical_users' = graphical /\ all_users' = all
    BY DEF UpdatUserAllocations
  <2>2. QED
    BY <1>3, <1>11, <1>12, <1>13, <1>14, <1>15, <2>1 DEF Settled
<1>17. QED
  BY <1>8, <1>16 DEF QueueInv

(* r_manager_stop; without a connection there was nothing to take back. *)
LEMMA StopStep ==
  ASSUME TypeOK, Control, Fair' => Fair, QueueInv, RManagerStop
  PROVE  QueueInv'
<1>1. PICK w : Queued(w) /\ Settled(w)
  BY DEF QueueInv
<1>2. PICK v : Plan(calls, v, w, Fit(Fair)) /\ Told(v)
  BY <1>1 DEF Queued
<1>3. /\ loop = "quit" /\ loop' = "flush" /\ crashes' = crashes /\ starts' = starts
      /\ graphical_users' = {} /\ all_users' = {}
      /\ UNCHANGED systemdVars
  BY Zenon DEF RManagerStop, counters
<1>4. /\ (crashes = 0 \/ graphical_users # {}) =>
           w[UserSlice] = MemoryFor(Cardinality(graphical_users))
      /\ Fair => \A u \in Users \ graphical_users :
                   w[SliceUnit(u)] # "active" /\ w[ServiceUnit(u)] # "active"
  BY <1>1, <1>3 DEF Settled
<1>5. Cardinality({}) = 0
  BY FS_EmptySet
<1>6. Fair' => graphical_users \subseteq all_users
  BY <1>3 DEF Fair, StoppedTorn, Control
<1>7. CASE connection
  <2>1. Plan(calls, v, w, Fit(Fair'))
    <3>1. Fit(Fair) \subseteq Fit(Fair')
      BY DEF Fit
    <3>2. QED
      BY <1>2, <3>1, PlanWider
  <2>2. Fair' => Active(w) \subseteq all_users
    BY <1>4, <1>6 DEF Active
  <2>3. Fair' \in BOOLEAN
    BY DEF Fair
  <2>4. PICK w2 : Plan(calls \o StopCalls, v, w2, Fit(Fair')) /\ Nothing(w, w2)
    BY <2>1, <2>2, <2>3, StopPlan DEF TypeOK
  <2>5. calls' = calls \o StopCalls
    BY <1>7, Zenon DEF RManagerStop
  <2>6. Queued(w2)'
    <3>1. Told(v)'
      BY <1>2, <1>3, ToldKept
    <3>2. Plan(calls', v, w2, Fit(Fair'))
      BY <2>4, <2>5, Zenon
    <3>3. QED
      BY <3>1, <3>2 DEF Queued
  <2>7. Settled(w2)'
    <3>1. Fair' => \A u \in Users : w2[SliceUnit(u)] # "active" /\ w2[ServiceUnit(u)] # "active"
      BY <1>4, <1>6, <2>4 DEF Nothing
    <3>2. w2[UserSlice] = MemoryFor(Cardinality({}))
      BY <1>5, <2>4 DEF Nothing
    <3>3. QED
      BY <1>3, <3>1, <3>2 DEF Settled
  <2>8. QED
    BY <2>6, <2>7 DEF QueueInv
<1>8. CASE ~connection
  <2>1. graphical_users = {} /\ all_users = {}
    BY <1>8 DEF Control
  <2>2. calls' = calls
    BY <1>8, Zenon DEF RManagerStop
  <2>3. Queued(w)'
    BY <1>1, <1>3, <2>2, QueuedKept
  <2>4. Settled(w)'
    BY <1>3, <1>4, <2>1 DEF Settled
  <2>5. QED
    BY <2>3, <2>4 DEF QueueInv
<1>9. QED
  BY <1>7, <1>8

(* The calls that a crash leaves lead somewhere. *)
LEMMA CrashStep ==
  ASSUME TypeOK, QueueInv, Crash
  PROVE  QueueInv'
<1>1. PICK w, v : Plan(calls, v, w, Fit(Fair)) /\ Told(v)
  BY DEF QueueInv, Queued
<1>2. ~Fair' /\ loop' = "dead" /\ UNCHANGED systemdVars
  BY DEF Crash, Fair, TypeOK, CountersTypeOK
<1>3. PICK k \in 0..Len(calls) : calls' = SubSeq(calls, 1, k)
  BY DEF Crash
<1>4. Fit(Fair) \subseteq Fit(Fair')
  BY <1>2 DEF Fit
<1>5. Plan(calls, v, w, Fit(Fair'))
  BY <1>1, <1>4, PlanWider
<1>6. PICK w2 : Plan(SubSeq(calls, 1, k), v, w2, Fit(Fair'))
  <2> DEFINE Group == SUBSET Call
  <2>1. calls \in Seq(Group)
    BY DEF TypeOK, QueueTypeOK
  <2> HIDE DEF Group
  <2>2. QED
    BY <1>5, <2>1, PlanCut
<1>7. Told(v)'
  BY <1>1, <1>2, ToldKept
<1>8. Queued(w2)'
  BY <1>3, <1>6, <1>7, Zenon DEF Queued
<1>9. Settled(w2)'
  BY <1>2 DEF Settled
<1>10. QED
  BY <1>8, <1>9 DEF QueueInv

(* A new daemon knows of nobody. *)
LEMMA StartStep ==
  ASSUME TypeOK, Control, Fair' => Fair, QueueInv, Start
  PROVE  QueueInv'
<1>1. PICK w : Queued(w) /\ Settled(w)
  BY DEF QueueInv
<1>2. /\ loop \in {"exited", "dead"} /\ crashes' = crashes
      /\ graphical_users' = {} /\ all_users' = {}
      /\ UNCHANGED <<calls, systemdVars>>
  BY DEF Start
<1>3. Queued(w)'
  BY <1>1, <1>2, QueuedKept
<1>4. crashes = 0 => loop = "exited" /\ graphical_users = {}
  BY <1>2 DEF Control
<1>5. crashes = 0 => w[UserSlice] = MemoryFor(Cardinality({}))
  BY <1>1, <1>4 DEF Settled
<1>6. Fair' => \A u \in Users : w[SliceUnit(u)] # "active" /\ w[ServiceUnit(u)] # "active"
  BY <1>1, <1>2, <1>4 DEF Settled, Fair
<1>7. Settled(w)'
  BY <1>2, <1>5, <1>6 DEF Settled
<1>8. QED
  BY <1>3, <1>7 DEF QueueInv

(* A user daemon that is poked has its memory, or its call is underway. *)
LEMMA UserDaemonsStep ==
  ASSUME graphical_users # {} => owned, Fair' => Fair, QueueInv, UserDaemon
  PROVE  QueueInv'
<1>1. PICK w : Queued(w) /\ Settled(w)
  BY DEF QueueInv
<1>2. /\ UNCHANGED <<loop, calls, systemdVars, knownVars>> /\ crashes' = crashes
  BY DEF UserDaemon, UserDaemonStarts, UserDaemonStops, IdleSystemDaemonUpdate, UserStep,
         counters
<1>3. Queued(w)'
  BY <1>1, <1>2, QueuedKept
<1>4. loop = "running" =>
        graphical_users \cap (poked' \ updateCalls') \subseteq poked \ updateCalls
  BY DEF UserDaemon, UserDaemonStarts, UserDaemonStops, IdleSystemDaemonUpdate, UserStep,
         Control
<1>5. Settled(w)'
  <2>1. graphical_users' = graphical_users /\ all_users' = all_users
    BY <1>2 DEF knownVars
  <2>2. \A u \in (graphical_users \cap poked') \ updateCalls' :
          loop = "running" => u \in (graphical_users \cap poked) \ updateCalls
    BY <1>4
  <2>3. QED
    BY <1>1, <1>2, <2>1, <2>2 DEF Settled
<1>6. QED
  BY <1>3, <1>5 DEF QueueInv

LEMMA MemoryForNobody == MemoryFor(0) = 0
<1>1. ActiveMemory \in Nat /\ MaxUsersMemory \in Nat
  BY ManagerAssumption
<1>2. QED
  BY <1>1 DEF MemoryFor, MIN

LEMMA QueueInit == Init => QueueInv
<1> SUFFICES ASSUME Init PROVE QueueInv
  OBVIOUS
<1>1. SystemdTypeOK
  BY InitType DEF TypeOK
<1>2. /\ Held \in States /\ Held[UserSlice] = 0
      /\ \A u \in Users : Held[SliceUnit(u)] = "none" /\ Held[ServiceUnit(u)] = "none"
  BY <1>1, HeldFacts DEF Held, Init, SystemdTypeOK
<1>3. Within(Held)
  <2>1. Active(Held) = {}
    BY <1>2 DEF Active
  <2>2. QED
    BY <1>2, <2>1, MemoryForNobody, FS_EmptySet DEF Within
<1>4. Held \in Fit(Fair)
  BY <1>2, <1>3 DEF Fit
<1>5. Plan(calls, Held, Held, Fit(Fair))
  BY <1>4, PlanOfNothing DEF Init
<1>6. Queued(Held)
  BY <1>5 DEF Queued, Told
<1>7. Settled(Held)
  BY <1>2, MemoryForNobody, FS_EmptySet DEF Settled, Init
<1>8. QED
  BY <1>6, <1>7 DEF QueueInv

LEMMA QueueInductive ==
  TypeOK /\ Control /\ QueueInv /\ [Next]_vars => QueueInv'
<1> SUFFICES ASSUME TypeOK, Control, QueueInv, [Next]_vars
             PROVE  QueueInv'
  OBVIOUS
<1>0. TypeOK' /\ (Fair' => Fair)
  BY TypeInductive, FairStep
<1> USE DEF busVars, userVars, counters
<1>1. CASE BusAcquired \/ BusGrantsName
  BY <1>0, <1>1, InvKept DEF BusAcquired, BusGrantsName
<1>2. CASE NameAcquired
  <2>1. login_all \in SUBSET Users /\ login_graphical \in SUBSET Users
    BY DEF TypeOK, ListsTypeOK
  <2>2. QED
    BY <1>2, <2>1, UpdateStep DEF NameAcquired
<1>3. ASSUME NEW u \in Users, HandleDbusMethodCall(u)
      PROVE  QueueInv'
  <2>1. login_all \in SUBSET Users /\ login_graphical \in SUBSET Users
    BY DEF TypeOK, ListsTypeOK
  <2>2. QED
    BY <1>3, <2>1, UpdateStep DEF HandleDbusMethodCall
<1>4. CASE SetUnitResourcesCb \/ DecreasePendingCalls
  BY <1>0, <1>4, InvKept DEF SetUnitResourcesCb, DecreasePendingCalls
<1>5. CASE RManagerStop
  BY <1>0, <1>5, StopStep
<1>6. CASE RManagerFlushed \/ QuitMainloop
  BY <1>0, <1>6, InvKept DEF RManagerFlushed, QuitMainloop
<1>7. CASE LoginChanged
  <2>1. PICK l \in LoginLists : ActiveUsersChanged(l.all, l.graphical)
    BY <1>7 DEF LoginChanged
  <2>2. l.all \in SUBSET Users /\ l.graphical \in SUBSET Users
    BY DEF LoginLists
  <2>3. CASE UpdatUserAllocations(l.all, l.graphical, FALSE)
    BY <2>1, <2>2, <2>3, UpdateStep DEF ActiveUsersChanged
  <2>4. CASE UNCHANGED <<knownVars, calls>>
    BY <1>0, <2>1, <2>4, InvKept DEF ActiveUsersChanged
  <2>5. QED
    BY <2>1, <2>3, <2>4 DEF ActiveUsersChanged
<1>8. CASE Crash
  BY <1>8, CrashStep
<1>9. CASE Start
  BY <1>0, <1>9, StartStep
<1>10. CASE Systemd
  BY <1>0, <1>10, ServeStep
<1>11. CASE UserDaemon
  BY <1>0, <1>11, UserDaemonsStep DEF Control
<1>12. CASE UNCHANGED vars
  BY <1>0, <1>12, InvKept DEF vars
<1>13. QED
  BY <1>1, <1>2, <1>3, <1>4, <1>5, <1>6, <1>7, <1>8, <1>9, <1>10, <1>11, <1>12
     DEF Next, Daemon

THEOREM QueueCorrect == Spec => [](Control /\ QueueInv)
BY InitType, TypeInductive, ControlInit, ControlStep, QueueInit, QueueInductive, PTL DEF Spec

-----------------------------------------------------------------------------
(* What the invariant comes to. *)
LEMMA HeldNow ==
  ASSUME TypeOK
  PROVE  /\ Held \in States /\ Held[UserSlice] = userSlice
         /\ \A u \in Users : /\ Held[SliceUnit(u)] = slice[u]
                             /\ Held[ServiceUnit(u)] = service[u]
BY HeldFacts DEF Held, TypeOK, SystemdTypeOK

LEMMA QueueNoOvercommit ==
  ASSUME TypeOK, QueueInv, Orderly, ~StoppedTorn
  PROVE  MemoryFor(Cardinality(Holding)) <= userSlice
<1>1. PICK w, v : Plan(calls, v, w, Fit(Fair)) /\ Told(v)
  BY DEF QueueInv, Queued
<1>2. Fair /\ refused = {}
  BY DEF Orderly, Fair
<1>3. v \in States /\ Within(v)
  <2> DEFINE Group == SUBSET Call
  <2>1. calls \in Seq(Group)
    BY DEF TypeOK, QueueTypeOK
  <2> HIDE DEF Group
  <2>2. v \in Fit(Fair)
    BY <1>1, <2>1, PlanEnds
  <2>3. QED
    BY <1>2, <2>2 DEF Fit
<1>4. \A x \in Units : Held[x] = v[x]
  BY <1>1, <1>2 DEF Told
<1>5. v[UserSlice] = userSlice /\ \A u \in Users : v[SliceUnit(u)] = slice[u]
  BY <1>4, HeldNow, UnitFacts
<1>6. Active(v) = Holding
  BY <1>5 DEF Active, Holding
<1>7. QED
  BY <1>3, <1>5, <1>6 DEF Within

(* The queue is empty: systemd holds what the manager knows. *)
LEMMA QueueEmpty ==
  ASSUME TypeOK, QueueInv, calls = <<>>
  PROVE  \E w : Settled(w) /\ Told(w)
<1>1. PICK w : Queued(w) /\ Settled(w)
  BY DEF QueueInv
<1>2. PICK v : Plan(calls, v, w, Fit(Fair)) /\ Told(v)
  BY <1>1 DEF Queued
<1>3. v = w
  <2> DEFINE Group == SUBSET Call
  <2>1. calls \in Seq(Group)
    BY DEF TypeOK, QueueTypeOK
  <2> HIDE DEF Group
  <2>2. QED
    BY <1>2, <2>1, PlanEnds
<1>4. QED
  BY <1>1, <1>2, <1>3

LEMMA ToldNow ==
  ASSUME TypeOK, NEW w, Told(w)
  PROVE  /\ UserSlice \notin refused => userSlice = w[UserSlice]
         /\ \A u \in Users : SliceUnit(u) \notin refused => slice[u] = w[SliceUnit(u)]
         /\ \A u \in Users : ServiceUnit(u) \notin refused => service[u] = w[ServiceUnit(u)]
BY HeldNow, UnitFacts DEF Told

LEMMA QueueConverged ==
  ASSUME TypeOK, Control, QueueInv
  PROVE  Converged
<1> SUFFICES ASSUME Quiet
             PROVE  /\ \A u \in Users : <<"slice", u>> \notin refused =>
                         /\ u \in login_graphical => slice[u] = "active"
                         /\ u \in login_all \ login_graphical => slice[u] = "inactive"
                         /\ (crashes = 0 /\ ~StoppedTorn /\ slice[u] = "active") =>
                              u \in login_graphical
                    /\ ((crashes = 0 \/ login_graphical # {}) /\ <<"user.slice">> \notin refused) =>
                         userSlice = MemoryFor(Cardinality(login_graphical))
  BY DEF Converged
<1>1. PICK w : Settled(w) /\ Told(w)
  BY QueueEmpty DEF Quiet
<1>2. loop = "running" /\ graphical_users = login_graphical /\ all_users = login_all
  BY DEF Quiet, Control
<1>3. /\ \A u \in login_graphical : w[SliceUnit(u)] = "active"
      /\ \A u \in login_all \ login_graphical : w[SliceUnit(u)] = "inactive"
      /\ (crashes = 0 \/ login_graphical # {}) =>
           w[UserSlice] = MemoryFor(Cardinality(login_graphical))
      /\ Fair => \A u \in Users \ login_graphical : w[SliceUnit(u)] # "active"
  BY <1>1, <1>2 DEF Settled
<1>4. \A u : SliceUnit(u) = <<"slice", u>>
  BY DEF SliceUnit
<1>5. UserSlice = <<"user.slice">>
  BY DEF UserSlice
<1>6. QED
  BY <1>1, <1>3, <1>4, <1>5, ToldNow DEF Fair

LEMMA QueueDelegated ==
  ASSUME TypeOK, Control, QueueInv
  PROVE  Delegated
<1> SUFFICES ASSUME Quiet, NEW u \in login_graphical \cap poked, <<"service", u>> \notin refused
             PROVE  service[u] = "active"
  BY DEF Delegated
<1>1. PICK w : Settled(w) /\ Told(w)
  BY QueueEmpty DEF Quiet
<1>2. u \in Users
  BY DEF TypeOK, ListsTypeOK
<1>3. w[ServiceUnit(u)] = "active"
  BY <1>1 DEF Settled, Quiet, Control
<1>4. QED
  BY <1>1, <1>2, <1>3, ToldNow DEF ServiceUnit

LEMMA QueueRevoked ==
  ASSUME TypeOK, Control, QueueInv
  PROVE  StopRevokes
<1> SUFFICES ASSUME loop = "exited", calls = <<>>, Orderly, ~StoppedTorn
             PROVE  Holding = {} /\ userSlice = 0 /\ \A u \in Users : service[u] # "active"
  BY DEF StopRevokes
<1>1. PICK w : Settled(w) /\ Told(w)
  BY QueueEmpty
<1>2. Fair /\ refused = {} /\ crashes = 0 /\ graphical_users = {}
  BY DEF Fair, Orderly, Control
<1>3. w[UserSlice] = MemoryFor(Cardinality({}))
  BY <1>1, <1>2 DEF Settled
<1>4. \A u \in Users : w[SliceUnit(u)] # "active" /\ w[ServiceUnit(u)] # "active"
  BY <1>1, <1>2 DEF Settled
<1>5. QED
  BY <1>1, <1>2, <1>3, <1>4, ToldNow, MemoryForNobody, FS_EmptySet DEF Holding

(***************************************************************************)
(* user.slice always has at least the share of the users protected below   *)
(* it, min(n * ActiveMemory, MaxUsersMemory) for n of them, whichever      *)
(* updates and stops are still on their way, and in whatever order systemd *)
(* serves the calls of a group.                                            *)
(***************************************************************************)
THEOREM NeverOvercommitted == Spec => []NoOvercommit
<1>1. TypeOK /\ QueueInv => NoOvercommit
  BY QueueNoOvercommit DEF NoOvercommit
<1>2. QED
  BY <1>1, TypeCorrect, QueueCorrect, PTL

(* The differential updates add up to what the login monitor says. *)
THEOREM UpdatesConverge == Spec => []Converged
<1>1. TypeOK /\ Control /\ QueueInv => Converged
  BY QueueConverged
<1>2. QED
  BY <1>1, TypeCorrect, QueueCorrect, PTL

(* Whoever comes first, the user or the user's daemon, the memory reaches   *)
(* user@.service.                                                          *)
THEOREM MemoryIsDelegated == Spec => []Delegated
<1>1. TypeOK /\ Control /\ QueueInv => Delegated
  BY QueueDelegated
<1>2. QED
  BY <1>1, TypeCorrect, QueueCorrect, PTL

(* After an orderly stop systemd protects nobody any more. *)
THEOREM StopTakesBack == Spec => []StopRevokes
<1>1. TypeOK /\ Control /\ QueueInv => StopRevokes
  BY QueueRevoked
<1>2. QED
  BY <1>1, TypeCorrect, QueueCorrect, PTL
=============================================================================
