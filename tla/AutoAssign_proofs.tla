------------------------- MODULE AutoAssign_proofs -------------------------
(***************************************************************************)
(* Auto-assignment, for any number of calls, drivers, jobs, trips and      *)
(* tasks and any situation to begin with: no task is handed out twice by   *)
(* calls that do not meet; the documents, jobs and calls keep their        *)
(* shape; the time a driver is given is free and before the deadline; no   *)
(* task is in two trips but for the known reasons; a workflow that is      *)
(* alone numbers the tasks in order, and leaves no trace when undone.      *)
(***************************************************************************)
EXTENDS AutoAssign, FiniteSetTheorems, TLAPS

(***************************************************************************)
(* Lists.                                                                  *)
(***************************************************************************)
\* R orders the members of S strictly.
StrictOrder(S, R) ==
    /\ \A x \in S : <<x, x>> \notin R
    /\ \A x, y, z \in S : <<x, y>> \in R /\ <<y, z>> \in R => <<x, z>> \in R
    /\ \A x, y \in S : x # y => <<x, y>> \in R \/ <<y, x>> \in R

\* A list of a finite set holds each of its members once, in order.
LEMMA ListedIs ==
    ASSUME NEW S, NEW R, IsFiniteSet(S), StrictOrder(S, R)
    PROVE  /\ Listed(S, R) \in [1..Cardinality(S) -> S]
           /\ \A x \in S : \E n \in 1..Cardinality(S) : Listed(S, R)[n] = x
           /\ \A m, n \in 1..Cardinality(S) :
                m < n => <<Listed(S, R)[m], Listed(S, R)[n]>> \in R
<1> DEFINE N == Cardinality(S)
           Below(x) == {y \in S : <<y, x>> \in R}
<1>1. N \in Nat /\ IsFiniteSet(1..N) /\ Cardinality(1..N) = N
  BY FS_CardinalityType, FS_Interval
<1>2. ASSUME NEW x \in S PROVE IsFiniteSet(Below(x)) /\ Cardinality(Below(x)) \in 0..(N - 1)
  <2>1. Below(x) \subseteq S \ {x}
    BY DEF StrictOrder
  <2>2. IsFiniteSet(S \ {x}) /\ Cardinality(S \ {x}) = N - 1
    BY FS_RemoveElement
  <2>3. IsFiniteSet(Below(x)) /\ Cardinality(Below(x)) <= N - 1
    BY <2>1, <2>2, FS_Subset
  <2> QED
    BY <2>3, <1>1, FS_CardinalityType
<1>3. ASSUME NEW x \in S, NEW y \in S, <<x, y>> \in R
      PROVE  Cardinality(Below(x)) < Cardinality(Below(y))
  <2>1. Below(x) \subseteq Below(y) /\ x \in Below(y) /\ x \notin Below(x)
    BY <1>3 DEF StrictOrder
  <2>2. Cardinality(Below(x)) <= Cardinality(Below(y)) /\ Cardinality(Below(x)) # Cardinality(Below(y))
    <3>1. Below(x) \in SUBSET Below(y) /\ Below(x) # Below(y)
      BY <2>1
    <3> HIDE DEF Below
    <3> QED
      BY <3>1, <1>2, FS_Subset
  <2> HIDE DEF Below
  <2> QED
    BY <2>2, <1>2, <1>1
<1> DEFINE count == [x \in S |-> Cardinality(Below(x))]
<1>4. /\ \A x \in S : count[x] = Cardinality(Below(x)) /\ count[x] \in 0..(N - 1)
      /\ \A x, y \in S : <<x, y>> \in R => count[x] < count[y]
  BY <1>2, <1>3
<1> HIDE DEF count, Below
<1>5. \A x, y \in S : count[x] = count[y] => x = y
  <2>1. SUFFICES ASSUME NEW x \in S, NEW y \in S, count[x] = count[y], x # y
                 PROVE  FALSE
    OBVIOUS
  <2>2. <<x, y>> \in R \/ <<y, x>> \in R
    BY <2>1 DEF StrictOrder
  <2> QED
    BY <2>1, <2>2, <1>1, <1>4
<1>6. ASSUME NEW n \in 1..N PROVE \E x \in S : count[x] = n - 1
  <2> DEFINE place == [x \in S |-> count[x] + 1]
  <2>1. place \in [S -> 1..N]
    BY <1>1, <1>4
  <2>2. \A x, y \in S : place[x] = place[y] => x = y
    BY <1>1, <1>4, <1>5
  <2>3. place \in Surjection(S, 1..N)
    <3>1. place \in Injection(S, 1..N)
      BY <2>1, <2>2 DEF Injection, IsInjective
    <3> QED
      BY <3>1, <1>1, FS_Injection
  <2>4. PICK x \in S : place[x] = n
    BY <2>3 DEF Surjection
  <2> QED
    BY <2>4, <1>1, <1>4
<1> DEFINE L == Listed(S, R)
<1>7. ASSUME NEW n \in 1..N PROVE L[n] \in S /\ count[L[n]] = n - 1
  <2>1. L[n] = CHOOSE x \in S : Cardinality(Below(x)) = n - 1
    BY DEF Listed, Below
  <2>2. \E x \in S : Cardinality(Below(x)) = n - 1
    BY <1>4, <1>6
  <2>3. L[n] \in S /\ Cardinality(Below(L[n])) = n - 1
    <3> HIDE DEF L
    <3> QED
      BY <2>1, <2>2
  <2> QED
    BY <2>3, <1>4
<1>8. L \in [1..N -> S]
  BY <1>7 DEF Listed
<1> HIDE DEF L
<1>9. ASSUME NEW x \in S PROVE \E n \in 1..N : L[n] = x
  <2>1. PICK n \in 1..N : n = count[x] + 1
    BY <1>1, <1>4
  <2>2. L[n] \in S /\ count[L[n]] = count[x]
    BY <2>1, <1>1, <1>4, <1>7
  <2> QED
    BY <2>2, <1>5
<1>10. ASSUME NEW m \in 1..N, NEW n \in 1..N, m < n PROVE <<L[m], L[n]>> \in R
  <2>1. L[m] \in S /\ L[n] \in S /\ count[L[m]] < count[L[n]]
    BY <1>7, <1>1, <1>10
  <2>2. ~(<<L[n], L[m]>> \in R) /\ L[m] # L[n]
    BY <2>1, <1>1, <1>4
  <2> QED
    BY <2>1, <2>2 DEF StrictOrder
<1> QED
  BY <1>8, <1>9, <1>10 DEF L

\* A set of numbers has a least one.
LEMMA LeastNumber ==
    ASSUME NEW T \in SUBSET Nat, NEW n \in T
    PROVE  \E m \in T : \A x \in T : m <= x
<1> DEFINE S == T \cap (0..n)
           R == {p \in S \X S : p[1] < p[2]}
<1>1. IsFiniteSet(S) /\ n \in S
  <2>1. IsFiniteSet(0..n)
    BY FS_Interval
  <2> QED
    BY <2>1, FS_Subset
<1>2. StrictOrder(S, R)
  BY DEF StrictOrder
<1> S \subseteq T /\ \A x \in T : x \in S <=> x <= n
  OBVIOUS
<1> \A x, y : <<x, y>> \in R => x < y
  OBVIOUS
<1> HIDE DEF S, R
<1>3. PICK N \in Nat : N = Cardinality(S) /\ N # 0
  BY <1>1, FS_CardinalityType, FS_EmptySet
<1>4. PICK L \in [1..N -> S] :
        /\ \A x \in S : \E i \in 1..N : L[i] = x
        /\ \A i, j \in 1..N : i < j => <<L[i], L[j]>> \in R
  BY <1>1, <1>2, <1>3, ListedIs
<1>5. L[1] \in T /\ L[1] \in Nat /\ L[1] <= n
  <2>1. 1 \in 1..N
    BY <1>3
  <2>2. L[1] \in S
    BY <2>1
  <2> QED
    BY <2>2
<1>6. ASSUME NEW x \in T PROVE L[1] <= x
  <2>1. CASE x > n
    BY <2>1, <1>5
  <2>2. CASE x <= n
    <3>1. PICK i \in 1..N : L[i] = x
      BY <1>4, <2>2
    <3>2. i = 1 \/ <<L[1], L[i]>> \in R
      BY <1>3, <1>4
    <3> QED
      BY <1>5, <3>1, <3>2
  <2> QED
    BY <2>1, <2>2
<1> QED
  BY <1>5, <1>6

\* Of a set of numbers up to n there is a greatest.
LEMMA GreatestNumber ==
    ASSUME NEW n \in Nat, NEW T \in SUBSET (0..n), T # {}
    PROVE  \E m \in T : \A x \in T : x <= m
<1> DEFINE U == {i \in 0..n : n - i \in T}
<1>1. U \in SUBSET Nat /\ \E i \in U : TRUE
  <2>1. PICK t \in T : TRUE
    OBVIOUS
  <2>2. n - t \in U
    BY <2>1
  <2> QED
    BY <2>2
<1>2. PICK m \in U : \A x \in U : m <= x
  BY <1>1, LeastNumber
<1>3. ASSUME NEW x \in T PROVE x <= n - m
  <2>1. n - x \in U /\ x \in 0..n /\ m \in 0..n
    OBVIOUS
  <2>2. m <= n - x
    BY <2>1, <1>2
  <2> QED
    BY <2>1, <2>2
<1> QED
  BY <1>2, <1>3

\* The places P, each once, by the start of their slots.
IsOrder(order, P, slots) ==
    /\ order \in [1..Cardinality(P) -> P]
    /\ \A i \in P : \E n \in 1..Cardinality(P) : order[n] = i
    /\ \A m, n \in 1..Cardinality(P) : m < n =>
           order[m] # order[n] /\ slots[order[m]].start <= slots[order[n]].start

\* What s holds at the places an order names.
PlacedBy(s, order, P) == [n \in 1..Cardinality(P) |-> s[order[n]]]

\* What is arranged is what was there, and nothing is there twice.
LEMMA ArrangedIs ==
    ASSUME NEW s, NEW slots, NEW P \in SUBSET Nat, IsFiniteSet(P), P \subseteq DOMAIN slots,
           \A i \in P : slots[i].start \in Int
    PROVE  \E order : /\ IsOrder(order, P, slots)
                      /\ Arranged(s, P, slots) = PlacedBy(s, order, P)
<1> DEFINE R == Earlier(slots)
           order == Listed(P, R)
<1>1. \A i, j \in P : <<i, j>> \in R <=>
          \/ slots[i].start < slots[j].start
          \/ slots[i].start = slots[j].start /\ i < j
  BY DEF Earlier
<1> HIDE DEF R
<1>2. StrictOrder(P, R)
  BY <1>1 DEF StrictOrder
<1>3. /\ order \in [1..Cardinality(P) -> P]
      /\ \A i \in P : \E n \in 1..Cardinality(P) : order[n] = i
      /\ \A m, n \in 1..Cardinality(P) : m < n => <<order[m], order[n]>> \in R
  BY <1>2, ListedIs
<1>4. Arranged(s, P, slots) = [n \in 1..Cardinality(P) |-> s[order[n]]]
  BY DEF Arranged, R
<1> HIDE DEF order
<1>5. ASSUME NEW m \in 1..Cardinality(P), NEW n \in 1..Cardinality(P), m < n
      PROVE  order[m] # order[n] /\ slots[order[m]].start <= slots[order[n]].start
  <2>1. PICK i \in P, j \in P : i = order[m] /\ j = order[n] /\ <<i, j>> \in R
    BY <1>3, <1>5
  <2>2. slots[i].start \in Int /\ slots[j].start \in Int
    OBVIOUS
  <2>3. \/ slots[i].start < slots[j].start
        \/ slots[i].start = slots[j].start /\ i < j
    BY <2>1, <1>1
  <2>4. i # j /\ slots[i].start <= slots[j].start
    <3> DEFINE a == slots[i].start
               b == slots[j].start
    <3>1. i \in Nat /\ j \in Nat /\ a \in Int /\ b \in Int /\ (a < b \/ (a = b /\ i < j))
      BY <2>2, <2>3
    <3>2. i = j => a = b
      BY Zenon
    <3> HIDE DEF a, b
    <3>3. i # j /\ a <= b
      BY <3>1, <3>2
    <3> QED
      BY <3>3 DEF a, b
  <2> QED
    BY <2>1, <2>4
<1> QED
  BY <1>3, <1>4, <1>5 DEF IsOrder, PlacedBy

\* Sorting a list of slots changes their order only.
LEMMA StartsIs ==
    ASSUME NEW S, \A x \in S : x.start \in Int, NEW slots \in Seq(S)
    PROVE  /\ Starts(slots) \in Seq(S)
           /\ Len(Starts(slots)) = Len(slots)
           /\ ToSet(Starts(slots)) = ToSet(slots)
           /\ \A m, n \in DOMAIN slots : m < n => Starts(slots)[m].start <= Starts(slots)[n].start
           /\ \E order \in [DOMAIN slots -> DOMAIN slots] :
                /\ \A n \in DOMAIN slots : Starts(slots)[n] = slots[order[n]]
                /\ \A m, n \in DOMAIN slots : m < n => order[m] # order[n]
<1> DEFINE P == DOMAIN slots
           N == Len(slots)
           T == Starts(slots)
<1>1. N \in Nat /\ P = 1..N /\ P \in SUBSET Nat /\ IsFiniteSet(P) /\ Cardinality(P) = N
  <2>1. N \in Nat /\ P = 1..N
    OBVIOUS
  <2>2. IsFiniteSet(1..N) /\ Cardinality(1..N) = N
    <3>1. N \in Int /\ 1 \in Int /\ (1 > N <=> N = 0)
      BY <2>1
    <3> HIDE DEF N
    <3>2. IsFiniteSet(1..N) /\ Cardinality(1..N) = IF 1 > N THEN 0 ELSE N - 1 + 1
      BY <3>1, FS_Interval
    <3> QED
      BY <3>1, <3>2, <2>1
  <2> QED
    BY <2>1, <2>2
<1>2. PICK order : /\ IsOrder(order, P, slots)
                    /\ T = [n \in 1..N |-> slots[order[n]]]
  <2>1. \A i \in P : slots[i].start \in Int
    OBVIOUS
  <2>2. T = Arranged(slots, P, slots)
    BY DEF Starts
  <2>3. P \subseteq DOMAIN slots
    OBVIOUS
  <2> HIDE DEF P, N, T
  <2>4. PICK order : /\ IsOrder(order, P, slots)
                     /\ Arranged(slots, P, slots) = PlacedBy(slots, order, P)
    BY <1>1, <2>1, <2>3, ArrangedIs
  <2> QED
    BY <2>2, <2>4, <1>1 DEF PlacedBy
<1>0. /\ order \in [1..N -> P]
      /\ \A i \in P : \E n \in 1..N : order[n] = i
      /\ \A m, n \in 1..N : m < n =>
             order[m] # order[n] /\ slots[order[m]].start <= slots[order[n]].start
  BY <1>1, <1>2 DEF IsOrder
<1>3. T \in Seq(S) /\ Len(T) = N
  <2>1. \A n \in 1..N : slots[order[n]] \in S
    BY <1>0, <1>1
  <2> HIDE DEF T
  <2> QED
    BY <1>0, <1>1, <1>2, <2>1
<1> HIDE DEF T
<1>4. ToSet(T) = ToSet(slots)
  <2>1. DOMAIN T = 1..N
    BY <1>2
  <2>2. ASSUME NEW x PROVE (\E n \in 1..N : T[n] = x) <=> (\E i \in P : slots[i] = x)
    BY <1>0, <1>1, <1>2
  <2> QED
    BY <1>1, <2>1, <2>2 DEF ToSet
<1>5. \A n \in P : T[n] = slots[order[n]]
  BY <1>1, <1>2
<1>6. \A m, n \in P : m < n => T[m].start <= T[n].start /\ order[m] # order[n]
  BY <1>0, <1>1, <1>5
<1>7. order \in [P -> P]
  BY <1>0, <1>1
<1> HIDE DEF P
<1> QED
  BY <1>3, <1>4, <1>5, <1>6, <1>7 DEF T, P

\* FlattenSeq, one list joined to the next at a time.
Joined(f, lists, i) == IF i = 1 THEN lists[i] ELSE f[i - 1] \o lists[i]
\* The lists up to m are joined.
FlatTo(f, lists, m) == f = [i \in 1..m |-> Joined(f, lists, i)]

\* A function that holds what the first lists are joined to.
Joins(f, lists, n) == f[1] = lists[1] /\ \A i \in 2..n : f[i] = f[i - 1] \o lists[i]

\* Joining lists ends with all of them joined, one step after another.
LEMMA FlattenSteps ==
    ASSUME NEW n \in Nat, n # 0, NEW lists, Len(lists) = n
    PROVE  \E f : FlattenSeq(lists) = f[n] /\ Joins(f, lists, n)
<1>1. \A m \in 0..n : \E f : FlatTo(f, lists, m)
  <2> DEFINE Bad == {m \in 0..n : ~\E f : FlatTo(f, lists, m)}
  <2>1. SUFFICES ASSUME NEW b \in Bad PROVE FALSE
    OBVIOUS
  <2>2. PICK m \in Bad : \A x \in Bad : m <= x
    <3>1. Bad \in SUBSET Nat
      OBVIOUS
    <3> HIDE DEF Bad
    <3> QED
      BY <2>1, <3>1, LeastNumber
  <2>3. m # 0
    <3>1. FlatTo(<<>>, lists, 0)
      BY DEF FlatTo
    <3> QED
      BY <3>1, <2>2
  <2>4. m - 1 \in 0..n /\ m - 1 \notin Bad
    BY <2>2, <2>3
  <2>5. PICK f : FlatTo(f, lists, m - 1)
    BY <2>4
  <2> DEFINE g == [i \in 1..m |-> Joined(f, lists, i)]
  <2>6. ASSUME NEW i \in 1..(m - 1) PROVE f[i] = g[i]
    <3>1. f = [h \in 1..(m - 1) |-> Joined(f, lists, h)]
      BY <2>5 DEF FlatTo
    <3>2. f[i] = Joined(f, lists, i)
      BY <3>1
    <3>3. i \in 1..m
      BY <2>4
    <3> QED
      BY <3>2, <3>3
  <2>7. ASSUME NEW i \in 1..m PROVE Joined(f, lists, i) = Joined(g, lists, i)
    <3>1. CASE i = 1
      BY <3>1 DEF Joined
    <3>2. CASE i # 1
      <4>1. i - 1 \in 1..(m - 1)
        BY <3>2, <2>4
      <4>2. f[i - 1] = g[i - 1]
        BY <4>1, <2>6
      <4> HIDE DEF g
      <4> QED
        BY <4>2, <3>2 DEF Joined
    <3> QED
      BY <3>1, <3>2
  <2>8. g = [i \in 1..m |-> Joined(g, lists, i)]
    BY <2>7
  <2> QED
    BY <2>2, <2>8 DEF FlatTo
<1> DEFINE F == CHOOSE f : f = [i \in 1..n |-> IF i = 1 THEN lists[i] ELSE f[i - 1] \o lists[i]]
<1>2. F = [i \in 1..n |-> Joined(F, lists, i)]
  <2>1. \E f : f = [i \in 1..n |-> IF i = 1 THEN lists[i] ELSE f[i - 1] \o lists[i]]
    <3>1. n \in 0..n
      OBVIOUS
    <3>2. PICK f : FlatTo(f, lists, n)
      BY <3>1, <1>1
    <3>3. f = [i \in 1..n |-> IF i = 1 THEN lists[i] ELSE f[i - 1] \o lists[i]]
      BY <3>2 DEF FlatTo, Joined
    <3> QED
      BY <3>3
  <2>2. F = [i \in 1..n |-> IF i = 1 THEN lists[i] ELSE F[i - 1] \o lists[i]]
    BY <2>1
  <2> HIDE DEF F
  <2> QED
    BY <2>2 DEF Joined
<1>3. FlattenSeq(lists) = F[n]
  BY DEF FlattenSeq
<1> HIDE DEF F
<1>4. \A i \in 1..n : F[i] = Joined(F, lists, i)
  BY <1>2
<1>5. F[1] = lists[1]
  BY <1>4 DEF Joined
<1>6. ASSUME NEW i \in 2..n PROVE F[i] = F[i - 1] \o lists[i]
  <2>1. i \in 1..n /\ i # 1
    OBVIOUS
  <2> QED
    BY <2>1, <1>4 DEF Joined
<1> QED
  BY <1>3, <1>5, <1>6 DEF Joins

\* A list after another holds what both hold, at its place.
LEMMA ConcatIs ==
    ASSUME NEW S, NEW s \in Seq(S), NEW t \in Seq(S)
    PROVE  /\ s \o t \in Seq(S)
           /\ Len(s \o t) = Len(s) + Len(t)
           /\ \A i \in 1..Len(s) : (s \o t)[i] = s[i]
           /\ \A i \in 1..Len(t) : (s \o t)[Len(s) + i] = t[i]
           /\ ToSet(s \o t) = ToSet(s) \cup ToSet(t)
<1>1. /\ s \o t \in Seq(S)
      /\ Len(s \o t) = Len(s) + Len(t)
      /\ \A i \in 1..Len(s) : (s \o t)[i] = s[i]
      /\ \A i \in 1..Len(t) : (s \o t)[Len(s) + i] = t[i]
  OBVIOUS
<1>2. /\ Len(s) \in Nat /\ DOMAIN s = 1..Len(s)
      /\ Len(t) \in Nat /\ DOMAIN t = 1..Len(t)
      /\ DOMAIN (s \o t) = 1..(Len(s) + Len(t))
  OBVIOUS
<1> DEFINE u == s \o t
<1> HIDE DEF u
<1>3. \A i \in DOMAIN u : i \in DOMAIN s \/ (i - Len(s) \in DOMAIN t /\ i = Len(s) + (i - Len(s)))
  BY <1>2 DEF u
<1>4. \A i \in DOMAIN s : i \in DOMAIN u
  BY <1>2 DEF u
<1>5. \A i \in DOMAIN t : Len(s) + i \in DOMAIN u
  BY <1>2 DEF u
<1>6. ASSUME NEW x PROVE (\E i \in DOMAIN u : u[i] = x) <=> (\E i \in DOMAIN s : s[i] = x) \/ (\E i \in DOMAIN t : t[i] = x)
  BY <1>1, <1>2, <1>3, <1>4, <1>5 DEF u
<1>7. ToSet(u) = ToSet(s) \cup ToSet(t)
  BY <1>6 DEF ToSet
<1> QED
  BY <1>1, <1>7 DEF u

\* No two of them share a time.
Apart(s) == \A m, n \in DOMAIN s : m # n => Disjoint(s[m], s[n])

\* Lists of slots apart, one after the other, are apart when their members are.
LEMMA ConcatApart ==
    ASSUME NEW S, NEW s \in Seq(S), NEW t \in Seq(S), Apart(s), Apart(t),
           \A x \in ToSet(s), y \in ToSet(t) : Disjoint(x, y)
    PROVE  Apart(s \o t)
<1>1. /\ Len(s) \in Nat /\ DOMAIN s = 1..Len(s)
      /\ Len(t) \in Nat /\ DOMAIN t = 1..Len(t)
      /\ DOMAIN (s \o t) = 1..(Len(s) + Len(t))
  OBVIOUS
<1> DEFINE u == s \o t
<1>2. \A i \in 1..Len(s) : u[i] = s[i]
  BY ConcatIs
<1>3. \A i \in 1..Len(t) : u[Len(s) + i] = t[i]
  BY ConcatIs
<1> HIDE DEF u
<1>4. ASSUME NEW i \in DOMAIN u
      PROVE  \/ i \in 1..Len(s) /\ u[i] = s[i]
             \/ \E h \in 1..Len(t) : i = Len(s) + h /\ u[i] = t[h]
  <2>1. i \in 1..Len(s) \/ (i - Len(s) \in 1..Len(t) /\ i = Len(s) + (i - Len(s)))
    BY <1>1 DEF u
  <2> QED
    BY <2>1, <1>2, <1>3
<1>5. \A i \in 1..Len(s), h \in 1..Len(t) : Disjoint(s[i], t[h]) /\ Disjoint(t[h], s[i])
  <2>1. \A i \in 1..Len(s), h \in 1..Len(t) : Disjoint(s[i], t[h])
    BY <1>1 DEF ToSet
  <2> QED
    BY <2>1 DEF Disjoint
<1>6. ASSUME NEW m \in DOMAIN u, NEW n \in DOMAIN u, m # n PROVE Disjoint(u[m], u[n])
  <2>1. CASE m \in 1..Len(s) /\ u[m] = s[m] /\ n \in 1..Len(s) /\ u[n] = s[n]
    BY <2>1, <1>1, <1>6 DEF Apart
  <2>2. CASE m \in 1..Len(s) /\ u[m] = s[m] /\ \E h \in 1..Len(t) : n = Len(s) + h /\ u[n] = t[h]
    BY <2>2, <1>5
  <2>3. CASE n \in 1..Len(s) /\ u[n] = s[n] /\ \E h \in 1..Len(t) : m = Len(s) + h /\ u[m] = t[h]
    BY <2>3, <1>5
  <2>4. ASSUME NEW g \in 1..Len(t), NEW h \in 1..Len(t), m = Len(s) + g, n = Len(s) + h, u[m] = t[g], u[n] = t[h]
        PROVE  Disjoint(u[m], u[n])
    <3>1. g # h
      BY <2>4, <1>6
    <3> QED
      BY <3>1, <2>4, <1>1 DEF Apart
  <2> QED
    BY <2>1, <2>2, <2>3, <2>4, <1>4
<1> QED
  BY <1>6 DEF Apart, u

\* What the lists hold, no more and no less, and apart when they are.
LEMMA FlattenIs ==
    ASSUME NEW S, NEW n \in Nat, NEW lists \in [1..n -> Seq(S)]
    PROVE  /\ FlattenSeq(lists) \in Seq(S)
           /\ \A x : x \in ToSet(FlattenSeq(lists)) <=> \E i \in 1..n : x \in ToSet(lists[i])
           /\ (/\ \A i \in 1..n : Apart(lists[i])
               /\ \A i, m \in 1..n : i < m =>
                    \A x \in ToSet(lists[i]), y \in ToSet(lists[m]) : Disjoint(x, y))
              => Apart(FlattenSeq(lists))
<1>0. lists \in Seq(Seq(S)) /\ Len(lists) = n
  OBVIOUS
<1>1. CASE n = 0
  <2>1. FlattenSeq(lists) = lists
    BY <1>0, <1>1 DEF FlattenSeq
  <2>2. lists = <<>> /\ lists \in Seq(S) /\ ToSet(lists) = {}
    BY <1>0, <1>1 DEF ToSet
  <2> QED
    BY <2>1, <2>2, <1>1 DEF Apart
<1>2. CASE n # 0
  <2>0. PICK f : FlattenSeq(lists) = f[n] /\ Joins(f, lists, n)
    BY <1>0, <1>2, FlattenSteps
  <2>1. f[1] = lists[1] /\ \A i \in 2..n : f[i] = f[i - 1] \o lists[i]
    BY <2>0 DEF Joins
  <2> DEFINE Given == /\ \A i \in 1..n : Apart(lists[i])
                      /\ \A i, m \in 1..n : i < m =>
                           \A x \in ToSet(lists[i]), y \in ToSet(lists[m]) : Disjoint(x, y)
             Good(m) == /\ f[m] \in Seq(S)
                        /\ \A x : x \in ToSet(f[m]) <=> \E i \in 1..m : x \in ToSet(lists[i])
                        /\ Given => Apart(f[m])
             Bad == {m \in 1..n : ~Good(m)}
  <2>2. Good(1)
    <3>1. 1 \in 1..n /\ \A i \in 1..1 : i = 1
      BY <1>2
    <3>2. lists[1] \in Seq(S)
      BY <3>1
    <3> QED
      BY <2>1, <3>1, <3>2
  <2>3. ASSUME NEW m \in 2..n, Good(m - 1) PROVE Good(m)
    <3>1. lists[m] \in Seq(S) /\ f[m - 1] \in Seq(S) /\ f[m] = f[m - 1] \o lists[m]
      <4>1. m \in 1..n
        OBVIOUS
      <4> QED
        BY <4>1, <2>1, <2>3
    <3>2. f[m] \in Seq(S) /\ ToSet(f[m]) = ToSet(f[m - 1]) \cup ToSet(lists[m])
      BY <3>1, ConcatIs
    <3>3. ASSUME NEW x PROVE x \in ToSet(f[m]) <=> \E i \in 1..m : x \in ToSet(lists[i])
      <4>1. x \in ToSet(f[m - 1]) <=> \E i \in 1..(m - 1) : x \in ToSet(lists[i])
        BY <2>3
      <4>2. \A i : i \in 1..m <=> i \in 1..(m - 1) \/ i = m
        OBVIOUS
      <4> QED
        BY <3>2, <4>1, <4>2
    <3>4. ASSUME Given PROVE Apart(f[m])
      <4>1. ASSUME NEW x \in ToSet(f[m - 1]), NEW y \in ToSet(lists[m]) PROVE Disjoint(x, y)
        <5>1. PICK i \in 1..(m - 1) : x \in ToSet(lists[i])
          BY <2>3
        <5>2. i \in 1..n /\ m \in 1..n /\ i < m
          OBVIOUS
        <5> QED
          BY <3>4, <5>1, <5>2
      <4>2. Apart(f[m - 1]) /\ Apart(lists[m])
        BY <2>3, <3>4
      <4> QED
        BY <3>1, <4>1, <4>2, ConcatApart
    <3> QED
      BY <3>2, <3>3, <3>4
  <2> HIDE DEF Good
  <2>4. Bad = {}
    <3> SUFFICES ASSUME NEW b \in Bad PROVE FALSE
      OBVIOUS
    <3>1. PICK m \in Bad : \A x \in Bad : m <= x
      <4>1. Bad \in SUBSET Nat
        OBVIOUS
      <4> HIDE DEF Bad
      <4> QED
        BY <4>1, LeastNumber
    <3>2. m # 1
      BY <2>2
    <3>3. m \in 2..n /\ m - 1 \in 1..n /\ m - 1 \notin Bad
      BY <3>1, <3>2
    <3> QED
      BY <2>3, <3>3
  <2>5. Good(n)
    <3>1. n \in 1..n
      BY <1>2
    <3> QED
      BY <2>4, <3>1
  <2> QED
    BY <2>0, <2>5 DEF Good
<1> QED
  BY <1>1, <1>2

(***************************************************************************)
(* Slots.                                                                  *)
(***************************************************************************)
\* The slots that take time.
Span == {s \in Slot : s.start < s.end}

\* A time of the clock is one of the 96 quarters of an hour of a day.
LEMMA ClockIs == \A t \in Clock : t \in Int /\ 0 <= t /\ t < 96
BY DEF Clock, Day, Hour

\* A span begins and ends within the day, and begins before it ends.
LEMMA SpanIs ==
    ASSUME NEW s \in Span
    PROVE  /\ s \in Slot /\ s.start \in Int /\ s.end \in Int /\ s.start < s.end
           /\ s.start \in Clock /\ s.end \in Clock
BY DEF Span, Slot, Clock, Day, Hour

\* The slot from a to b.
Between(a, b) == [start |-> a, end |-> b]

\* It begins at a and ends at b.
LEMMA BetweenIs ==
    ASSUME NEW a, NEW b
    PROVE  /\ Between(a, b).start = a /\ Between(a, b).end = b
           /\ a \in Clock /\ b \in Clock => Between(a, b) \in Slot
           /\ a \in Clock /\ b \in Clock /\ a < b => Between(a, b) \in Span
<1>1. Between(a, b).start = a /\ Between(a, b).end = b
  BY DEF Between
<1>2. a \in Clock /\ b \in Clock => Between(a, b) \in Slot
  BY DEF Between, Slot
<1> QED
  BY <1>1, <1>2 DEF Span

\* A slot is no more than where it begins and ends.
LEMMA SlotIsBetween == \A s \in Slot : s = Between(s.start, s.end)
BY DEF Between, Slot

\* The code keeps a gap between two times only when it takes time.
LEMMA GapIs ==
    ASSUME NEW from \in Clock, NEW to \in Clock
    PROVE  /\ Gap(from, to) \in Seq(Span)
           /\ \A x \in ToSet(Gap(from, to)) : from < to /\ x.start = from /\ x.end = to
           /\ \A x : x \in ToSet(Gap(from, to)) <=> from < to /\ x = Between(from, to)
           /\ Apart(Gap(from, to))
<1>1. CASE from < to
  <2> DEFINE x == Between(from, to)
  <2>1. Gap(from, to) = <<x>>
    BY <1>1 DEF Gap, Between
  <2>2. x \in Span /\ x.start = from /\ x.end = to
    BY <1>1, BetweenIs
  <2> HIDE DEF x
  <2>3. <<x>> \in Seq(Span) /\ DOMAIN <<x>> = 1..1 /\ <<x>>[1] = x
    BY <2>2
  <2>4. ToSet(<<x>>) = {x} /\ Apart(<<x>>)
    BY <2>3 DEF ToSet, Apart
  <2> QED
    BY <1>1, <2>1, <2>2, <2>3, <2>4 DEF x
<1>2. CASE ~(from < to)
  BY <1>2 DEF Gap, ToSet, Apart
<1> QED
  BY <1>1, <1>2

\* Slots in the order they start.
Sorted(s) == \A m, n \in DOMAIN s : m < n => s[m].start <= s[n].start

\* Sorting the spans by their start (sortWithStartTime) keeps them, and apart.
LEMMA StartsSpans ==
    ASSUME NEW slots \in Seq(Span)
    PROVE  /\ Starts(slots) \in Seq(Span)
           /\ Len(Starts(slots)) = Len(slots)
           /\ ToSet(Starts(slots)) = ToSet(slots)
           /\ Sorted(Starts(slots))
           /\ Apart(slots) => Apart(Starts(slots))
<1>1. \A x \in Span : x.start \in Int
  BY SpanIs
<1>2. /\ Starts(slots) \in Seq(Span)
      /\ Len(Starts(slots)) = Len(slots)
      /\ ToSet(Starts(slots)) = ToSet(slots)
      /\ \A m, n \in DOMAIN slots : m < n => Starts(slots)[m].start <= Starts(slots)[n].start
  BY <1>1, StartsIs
<1>3. PICK order \in [DOMAIN slots -> DOMAIN slots] :
        /\ \A n \in DOMAIN slots : Starts(slots)[n] = slots[order[n]]
        /\ \A m, n \in DOMAIN slots : m < n => order[m] # order[n]
  BY <1>1, StartsIs
<1>4. DOMAIN Starts(slots) = DOMAIN slots /\ DOMAIN slots = 1..Len(slots) /\ Len(slots) \in Nat
  BY <1>2
<1>5. Apart(slots) => Apart(Starts(slots))
  <2> SUFFICES ASSUME Apart(slots), NEW m \in DOMAIN slots, NEW n \in DOMAIN slots, m # n
               PROVE  Disjoint(Starts(slots)[m], Starts(slots)[n])
    BY <1>4 DEF Apart
  <2>1. order[m] # order[n]
    <3>1. m < n \/ n < m
      BY <1>4
    <3> QED
      BY <3>1, <1>3
  <2> QED
    BY <2>1, <1>3 DEF Apart
<1> QED
  BY <1>2, <1>4, <1>5 DEF Sorted

\* Parts that do not overlap follow one another when they are sorted.
LEMMA OneAfterTheOther ==
    ASSUME NEW parts \in Seq(Span), Apart(parts), Sorted(parts),
           NEW m \in DOMAIN parts, NEW n \in DOMAIN parts, m < n
    PROVE  parts[m].end <= parts[n].start
<1>1. parts[m] \in Span /\ parts[n] \in Span
  OBVIOUS
<1>2. m # n
  BY SMT
<1>3. Disjoint(parts[m], parts[n]) /\ parts[m].start <= parts[n].start
  BY <1>2 DEF Apart, Sorted
<1> QED
  BY <1>1, <1>3, SpanIs DEF Disjoint

\* The time between a part of a shift and the next.
Pause(parts, i) == Between(parts[i].end, parts[i + 1].start)

\* The pauses of a shift lie between its parts, and none but the empty is left out
\* (convertShiftToBreakSlots).
LEMMA BreaksAre ==
    ASSUME NEW parts \in Seq(Span), Apart(parts), Sorted(parts)
    PROVE  LET breaks == ConvertShiftToBreakSlots(parts) IN
           /\ breaks \in Seq(Span)
           /\ \A x \in ToSet(breaks) : \E i \in 1..(Len(parts) - 1) : x = Pause(parts, i)
           /\ \A i \in 1..(Len(parts) - 1) :
                parts[i].end # parts[i + 1].start => Pause(parts, i) \in ToSet(breaks)
           /\ \A x, y \in ToSet(breaks) : x = y \/ Disjoint(x, y)
<1> DEFINE N == IF Len(parts) = 0 THEN 0 ELSE Len(parts) - 1
           One(i) == IF parts[i].end # parts[i + 1].start
                     THEN <<[start |-> parts[i].end, end |-> parts[i + 1].start]>> ELSE <<>>
           lists == [i \in 1..(Len(parts) - 1) |-> One(i)]
           breaks == ConvertShiftToBreakSlots(parts)
<1>1. /\ Len(parts) \in Nat /\ N \in Nat /\ 1..(Len(parts) - 1) = 1..N
      /\ \A i \in 1..N : i \in DOMAIN parts /\ i + 1 \in DOMAIN parts
  OBVIOUS
<1> HIDE DEF N
<1>2. ASSUME NEW i \in 1..N
      PROVE  /\ parts[i].end \in Clock /\ parts[i + 1].start \in Clock
             /\ parts[i].end <= parts[i + 1].start
             /\ Pause(parts, i).start = parts[i].end
             /\ Pause(parts, i).end = parts[i + 1].start
  <2>1. i < i + 1
    BY <1>1
  <2>2. parts[i] \in Span /\ parts[i + 1] \in Span
    BY <1>1
  <2>3. parts[i].end <= parts[i + 1].start
    BY <1>1, <2>1, OneAfterTheOther
  <2> QED
    BY <2>2, <2>3, SpanIs, BetweenIs DEF Pause
<1>3. ASSUME NEW i \in 1..N
      PROVE  /\ One(i) \in Seq(Span)
             /\ \A x : x \in ToSet(One(i)) <=> x = Pause(parts, i) /\ parts[i].end # parts[i + 1].start
  <2>0. /\ parts[i].end \in Clock /\ parts[i + 1].start \in Clock
        /\ parts[i].end <= parts[i + 1].start
        /\ Pause(parts, i).start = parts[i].end
        /\ Pause(parts, i).end = parts[i + 1].start
    BY <1>2
  <2>1. CASE parts[i].end # parts[i + 1].start
    <3>0. parts[i].end \in Int /\ parts[i + 1].start \in Int
      BY <2>0, ClockIs
    <3>1. parts[i].end < parts[i + 1].start
      BY <2>0, <2>1, <3>0
    <3>2. One(i) = Gap(parts[i].end, parts[i + 1].start)
      BY <2>1, <3>1 DEF Gap
    <3> HIDE DEF One
    <3> QED
      BY <3>1, <3>2, <2>0, <2>1, GapIs DEF Pause
  <2>2. CASE parts[i].end = parts[i + 1].start
    BY <2>2 DEF ToSet
  <2> QED
    BY <2>1, <2>2
<1>4. lists \in [1..N -> Seq(Span)] /\ \A i \in 1..N : lists[i] = One(i)
  BY <1>1, <1>3
<1>5. breaks = FlattenSeq(lists)
  BY DEF ConvertShiftToBreakSlots
<1> HIDE DEF lists, breaks, One
<1>6. breaks \in Seq(Span) /\ \A x : x \in ToSet(breaks) <=> \E i \in 1..N : x \in ToSet(lists[i])
  BY <1>1, <1>4, <1>5, FlattenIs
<1>7. \A x : x \in ToSet(breaks) <=> \E i \in 1..N : x = Pause(parts, i) /\ parts[i].end # parts[i + 1].start
  BY <1>3, <1>4, <1>6
<1>8. ASSUME NEW i \in 1..N, NEW m \in 1..N, i < m PROVE Disjoint(Pause(parts, i), Pause(parts, m))
  <2>1. i + 1 <= m /\ m \in DOMAIN parts /\ i + 1 \in DOMAIN parts
    BY <1>1, <1>8
  <2>2. parts[i + 1] \in Span /\ parts[m] \in Span
    BY <2>1
  <2>3. parts[i + 1].start <= parts[m].start
    <3>1. CASE i + 1 = m
      BY <3>1, <2>2, SpanIs
    <3>2. CASE i + 1 < m
      BY <3>2, <2>1 DEF Sorted
    <3> QED
      BY <2>1, <3>1, <3>2, <1>1
  <2> QED
    BY <1>2, <2>2, <2>3, SpanIs DEF Disjoint
<1>9. ASSUME NEW x \in ToSet(breaks), NEW y \in ToSet(breaks) PROVE x = y \/ Disjoint(x, y)
  <2>1. PICK i \in 1..N, m \in 1..N : x = Pause(parts, i) /\ y = Pause(parts, m)
    BY <1>7
  <2>2. i = m \/ i < m \/ m < i
    BY <1>1
  <2>3. Disjoint(y, x) => Disjoint(x, y)
    BY DEF Disjoint
  <2> QED
    BY <1>8, <2>1, <2>2, <2>3
<1> QED
  BY <1>1, <1>6, <1>7, <1>9 DEF breaks

\* A time between the beginning of a part and the end of one is in a part or
\* in a pause.
LEMMA PartOrPause ==
    ASSUME NEW parts \in Seq(Span), Apart(parts), Sorted(parts),
           NEW m \in DOMAIN parts, NEW n \in DOMAIN parts,
           NEW t \in Int, parts[m].start <= t, t < parts[n].end
    PROVE  \E s \in ToSet(parts) \cup ToSet(ConvertShiftToBreakSlots(parts)) : s.start <= t /\ t < s.end
<1> DEFINE N == Len(parts)
           T == {i \in DOMAIN parts : parts[i].start <= t}
<1>1. N \in Nat /\ DOMAIN parts = 1..N /\ T \in SUBSET (0..N) /\ m \in T
  OBVIOUS
<1> HIDE DEF N
<1>2. PICK g \in T : \A x \in T : x <= g
  <2> HIDE DEF T
  <2> QED
    BY <1>1, GreatestNumber
<1>3. \A i \in DOMAIN parts : parts[i].start \in Int /\ parts[i].end \in Int /\ parts[i] \in ToSet(parts)
  BY SpanIs DEF ToSet
<1>4. CASE t < parts[g].end
  BY <1>2, <1>3, <1>4
<1>5. CASE ~(t < parts[g].end)
  <2>1. g < n
    <3>1. g # n
      BY <1>5
    <3>2. n < g => parts[n].end <= parts[g].start
      BY <1>2, OneAfterTheOther
    <3> QED
      BY <3>1, <3>2, <1>1, <1>2, <1>3
  <2>2. g + 1 \in DOMAIN parts /\ g \in 1..(Len(parts) - 1)
    BY <1>1, <2>1 DEF N
  <2>3. t < parts[g + 1].start
    <3>1. g + 1 \notin T
      BY <1>1, <1>2
    <3> QED
      BY <2>2, <3>1, <1>3
  <2>4. parts[g].end # parts[g + 1].start
    BY <1>2, <1>3, <1>5, <2>2, <2>3
  <2>5. Pause(parts, g) \in ToSet(ConvertShiftToBreakSlots(parts))
    BY <2>2, <2>4, BreaksAre
  <2>6. Pause(parts, g).start = parts[g].end /\ Pause(parts, g).end = parts[g + 1].start
    BY BetweenIs DEF Pause
  <2> QED
    BY <2>3, <2>5, <2>6, <1>2, <1>3, <1>5
<1> QED
  BY <1>4, <1>5

\* The pauses between what is taken from a to b, as the code collects them.
Between2(taken) == FlattenSeq([i \in 1..(Len(taken) - 1) |-> Gap(taken[i].end, taken[i + 1].start)])
\* The gaps of what is taken, with the one before the first and the one after the
\* last.
Gaps(a, b, taken) == Gap(a, taken[1].start) \o Between2(taken) \o Gap(taken[Len(taken)].end, b)

\* Gaps begin where something ends, end where something begins, are apart, and
\* when what is taken is the same or apart none of it lies in a gap.
LEMMA GapsAre ==
    ASSUME NEW a \in Clock, NEW b \in Clock, NEW taken \in Seq(Span), Sorted(taken), Len(taken) # 0
    PROVE  LET G == Gaps(a, b, taken) IN
           /\ G \in Seq(Span)
           /\ Apart(G)
           /\ \A x \in ToSet(G) :
                /\ x.start = a \/ \E y \in ToSet(taken) : x.start = y.end
                /\ x.end = b \/ \E y \in ToSet(taken) : x.end = y.start
           /\ (\A x, y \in ToSet(taken) : x = y \/ Disjoint(x, y)) =>
                \A x \in ToSet(G), y \in ToSet(taken) : Disjoint(x, y)
<1> DEFINE n == Len(taken)
           N == n - 1
           lists == [i \in 1..N |-> Gap(taken[i].end, taken[i + 1].start)]
           F == FlattenSeq(lists)
           first == Gap(a, taken[1].start)
           last == Gap(taken[n].end, b)
           G == Gaps(a, b, taken)
<1>1. /\ n \in Nat /\ n >= 1 /\ DOMAIN taken = 1..n /\ N \in Nat
      /\ \A i \in 1..N : i \in 1..n /\ i + 1 \in 1..n
      /\ 1 \in 1..n /\ n \in 1..n
  OBVIOUS
<1>2. ASSUME NEW i \in 1..n
      PROVE  /\ taken[i] \in ToSet(taken) /\ taken[i] \in Span
             /\ taken[i].start \in Clock /\ taken[i].end \in Clock
             /\ taken[i].start \in Int /\ taken[i].end \in Int
             /\ taken[i].start < taken[i].end
  <2>1. taken[i] \in ToSet(taken) /\ taken[i] \in Span
    BY <1>1 DEF ToSet
  <2> QED
    BY <2>1, SpanIs
<1>3. \A y : y \in ToSet(taken) <=> \E i \in 1..n : y = taken[i]
  BY <1>1 DEF ToSet
<1> HIDE DEF n, N
<1>4. ASSUME NEW i \in 1..n, NEW m \in 1..n, i <= m PROVE taken[i].start <= taken[m].start
  <2>1. i = m \/ i < m
    BY <1>1, <1>4
  <2> QED
    BY <2>1, <1>1, <1>2 DEF Sorted
<1>5. ASSUME NEW i \in 1..N
      PROVE  /\ lists[i] \in Seq(Span)
             /\ Apart(lists[i])
             /\ \A x \in ToSet(lists[i]) : x.start = taken[i].end /\ x.end = taken[i + 1].start
  <2>1. lists[i] = Gap(taken[i].end, taken[i + 1].start)
    OBVIOUS
  <2> DEFINE u == taken[i].end
             v == taken[i + 1].start
  <2>2. u \in Clock /\ v \in Clock
    BY <1>1, <1>2
  <2> HIDE DEF lists, u, v
  <2>3. /\ Gap(u, v) \in Seq(Span) /\ Apart(Gap(u, v))
        /\ \A x \in ToSet(Gap(u, v)) : x.start = u /\ x.end = v
    BY <2>2, GapIs
  <2> QED
    BY <2>1, <2>3 DEF u, v
<1>6. lists \in [1..N -> Seq(Span)]
  BY <1>5
<1>7. G = first \o F \o last
  BY DEF Gaps, Between2, n, N
<1> HIDE DEF lists, G
<1>8. ASSUME NEW i \in 1..N, NEW m \in 1..N, i < m, NEW x \in ToSet(lists[i]), NEW y \in ToSet(lists[m])
      PROVE  Disjoint(x, y)
  <2>1. x.end = taken[i + 1].start /\ y.start = taken[m].end
    BY <1>5
  <2>2. i + 1 \in 1..n /\ m \in 1..n /\ i + 1 <= m
    BY <1>1, <1>8
  <2>3. taken[i + 1].start <= taken[m].start
    BY <1>4, <2>2
  <2> QED
    BY <2>1, <2>2, <2>3, <1>2 DEF Disjoint
<1>9. /\ F \in Seq(Span) /\ Apart(F)
      /\ \A x : x \in ToSet(F) <=> \E i \in 1..N : x \in ToSet(lists[i])
  BY <1>1, <1>5, <1>6, <1>8, FlattenIs
<1>10. \A x \in ToSet(F) : \E i \in 1..N : x.start = taken[i].end /\ x.end = taken[i + 1].start
  BY <1>5, <1>9
<1> HIDE DEF F
<1>11. /\ first \in Seq(Span) /\ Apart(first)
       /\ \A x \in ToSet(first) : x.start = a /\ x.end = taken[1].start
  <2>1. taken[1].start \in Clock
    BY <1>1, <1>2
  <2> DEFINE s == taken[1].start
  <2> HIDE DEF s
  <2>2. Gap(a, s) \in Seq(Span) /\ Apart(Gap(a, s)) /\ \A x \in ToSet(Gap(a, s)) : x.start = a /\ x.end = s
    BY <2>1, GapIs DEF s
  <2> QED
    BY <2>2 DEF s
<1>12. /\ last \in Seq(Span) /\ Apart(last)
       /\ \A x \in ToSet(last) : x.start = taken[n].end /\ x.end = b
  <2>1. taken[n].end \in Clock
    BY <1>1, <1>2
  <2> DEFINE s == taken[n].end
  <2> HIDE DEF s
  <2>2. Gap(s, b) \in Seq(Span) /\ Apart(Gap(s, b)) /\ \A x \in ToSet(Gap(s, b)) : x.start = s /\ x.end = b
    BY <2>1, GapIs DEF s
  <2> QED
    BY <2>2 DEF s
<1> HIDE DEF first, last
<1> DEFINE H == first \o F
<1>13. /\ H \in Seq(Span) /\ ToSet(H) = ToSet(first) \cup ToSet(F)
       /\ G \in Seq(Span) /\ ToSet(G) = ToSet(H) \cup ToSet(last)
  <2>1. H \in Seq(Span) /\ ToSet(H) = ToSet(first) \cup ToSet(F)
    BY <1>9, <1>11, ConcatIs
  <2>2. G = H \o last
    BY <1>7
  <2> HIDE DEF H
  <2> QED
    BY <2>1, <2>2, <1>12, ConcatIs
<1>14. ASSUME NEW x \in ToSet(first), NEW y \in ToSet(F) PROVE Disjoint(x, y)
  <2>1. PICK i \in 1..N : y.start = taken[i].end
    BY <1>10
  <2>2. x.end = taken[1].start /\ y.start = taken[i].end
    BY <1>11, <2>1
  <2>3. i \in 1..n /\ 1 \in 1..n /\ 1 <= i
    BY <1>1
  <2>4. taken[1].start <= taken[i].start
    BY <1>4, <2>3
  <2> QED
    BY <1>2, <2>2, <2>3, <2>4 DEF Disjoint
<1>15. ASSUME NEW x \in ToSet(H), NEW y \in ToSet(last) PROVE Disjoint(x, y)
  <2>1. y.start = taken[n].end
    BY <1>12
  <2>2. PICK i \in 1..n : x.end = taken[i].start
    <3>1. CASE x \in ToSet(first)
      BY <3>1, <1>1, <1>11
    <3>2. CASE x \in ToSet(F)
      BY <3>2, <1>1, <1>10
    <3> QED
      BY <3>1, <3>2, <1>13
  <2>3. i <= n /\ n \in 1..n
    BY <1>1
  <2>4. taken[i].start <= taken[n].start
    BY <1>4, <2>3
  <2> QED
    BY <1>2, <2>1, <2>2, <2>3, <2>4 DEF Disjoint
<1>16. Apart(G)
  <2>1. Apart(H)
    BY <1>9, <1>11, <1>14, ConcatApart
  <2>2. G = H \o last
    BY <1>7
  <2> HIDE DEF H
  <2> QED
    BY <1>12, <1>13, <1>15, <2>1, <2>2, ConcatApart
\* A gap begins at the beginning or where the taken i ends, and ends before
\* the next.
<1>17. ASSUME NEW x \in ToSet(G)
       PROVE  \/ x.start = a /\ x.end = taken[1].start
              \/ \E i \in 1..N : x.start = taken[i].end /\ x.end = taken[i + 1].start
              \/ x.start = taken[n].end /\ x.end = b
  <2>1. x \in ToSet(first) \/ x \in ToSet(F) \/ x \in ToSet(last)
    BY <1>13
  <2>2. CASE x \in ToSet(first)
    BY <2>2, <1>11
  <2>3. CASE x \in ToSet(F)
    BY <2>3, <1>10
  <2>4. CASE x \in ToSet(last)
    BY <2>4, <1>12
  <2> QED
    BY <2>1, <2>2, <2>3, <2>4
<1>18. ASSUME NEW x \in ToSet(G)
       PROVE  /\ x.start = a \/ \E y \in ToSet(taken) : x.start = y.end
              /\ x.end = b \/ \E y \in ToSet(taken) : x.end = y.start
  BY <1>1, <1>3, <1>17
<1>19. ASSUME \A x, y \in ToSet(taken) : x = y \/ Disjoint(x, y),
              NEW x \in ToSet(G), NEW y \in ToSet(taken)
       PROVE  Disjoint(x, y)
  <2>1. PICK m \in 1..n : y = taken[m]
    BY <1>3
  <2>2. ASSUME NEW i \in 1..n, i <= m, x.end = taken[i].start PROVE Disjoint(x, y)
    <3>1. taken[i].start <= taken[m].start
      BY <1>4, <2>2
    <3> QED
      BY <2>1, <2>2, <3>1 DEF Disjoint
  <2>3. ASSUME NEW i \in 1..n, m <= i, x.start = taken[i].end PROVE Disjoint(x, y)
    <3>1. taken[m].start <= taken[i].start
      BY <1>4, <2>3
    <3>2. taken[m] = taken[i] \/ Disjoint(taken[m], taken[i])
      BY <1>2, <1>19
    <3>3. taken[m].end <= taken[i].end
      BY <3>1, <3>2, <1>2 DEF Disjoint
    <3> QED
      BY <2>1, <2>3, <3>3 DEF Disjoint
  <2>4. CASE x.end = taken[1].start
    BY <2>2, <2>4, <1>1
  <2>5. CASE x.start = taken[n].end
    BY <2>3, <2>5, <1>1
  <2>6. ASSUME NEW i \in 1..N, x.start = taken[i].end, x.end = taken[i + 1].start PROVE Disjoint(x, y)
    <3>1. i \in 1..n /\ i + 1 \in 1..n /\ (m <= i \/ i + 1 <= m)
      BY <1>1
    <3> QED
      BY <2>2, <2>3, <2>6, <3>1
  <2> QED
    BY <1>17, <2>4, <2>5, <2>6
<1> QED
  BY <1>13, <1>16, <1>18, <1>19 DEF G

\* What a trip leaves of the shift.
LEMMA ShiftLessTrip ==
    ASSUME NEW parts \in Seq(Span), NEW trip \in Slot
    PROVE  LET A == GetAvailableSlotsFromShiftAndTrip(parts, trip) IN
           /\ A \in Seq(Span)
           /\ \A x \in ToSet(A) : \E p \in ToSet(parts) : Inside(x, p) /\ Disjoint(x, trip)
           /\ Apart(parts) /\ trip.start <= trip.end => Apart(A)
<1> DEFINE n == Len(parts)
           Far(i) == trip.end < parts[i].start \/ parts[i].end < trip.start
           Before(i) == Gap(parts[i].start, trip.start)
           After(i) == Gap(trip.end, parts[i].end)
           One(i) == IF Far(i) THEN <<parts[i]>> ELSE Before(i) \o After(i)
           lists == [i \in 1..n |-> One(i)]
           A == GetAvailableSlotsFromShiftAndTrip(parts, trip)
<1>1. n \in Nat /\ DOMAIN parts = 1..n
  OBVIOUS
<1>2. trip.start \in Clock /\ trip.end \in Clock /\ trip.start \in Int /\ trip.end \in Int
  BY ClockIs DEF Slot
<1>3. ASSUME NEW i \in 1..n
      PROVE  /\ parts[i] \in Span /\ parts[i] \in ToSet(parts)
             /\ parts[i].start \in Clock /\ parts[i].end \in Clock
             /\ parts[i].start \in Int /\ parts[i].end \in Int
             /\ parts[i].start < parts[i].end
  <2>1. parts[i] \in Span /\ parts[i] \in ToSet(parts)
    BY <1>1 DEF ToSet
  <2> QED
    BY <2>1, SpanIs
<1> HIDE DEF n
<1>4. ASSUME NEW i \in 1..n
      PROVE  /\ One(i) \in Seq(Span)
             /\ \A x \in ToSet(One(i)) : Inside(x, parts[i]) /\ Disjoint(x, trip)
             /\ trip.start <= trip.end => Apart(One(i))
  <2>0. /\ parts[i] \in Span
        /\ parts[i].start \in Clock /\ parts[i].end \in Clock
        /\ parts[i].start \in Int /\ parts[i].end \in Int
        /\ parts[i].start < parts[i].end
    BY <1>3
  <2>1. CASE Far(i)
    <3>1. <<parts[i]>> \in Seq(Span) /\ DOMAIN <<parts[i]>> = 1..1 /\ <<parts[i]>>[1] = parts[i]
      BY <2>0
    <3>2. ToSet(<<parts[i]>>) = {parts[i]} /\ Apart(<<parts[i]>>)
      BY <3>1 DEF ToSet, Apart
    <3>3. Inside(parts[i], parts[i]) /\ Disjoint(parts[i], trip)
      BY <2>0, <2>1, <1>2 DEF Inside, Disjoint
    <3> QED
      BY <2>1, <3>1, <3>2, <3>3
  <2>2. CASE ~Far(i)
    <3>1. trip.start <= parts[i].end /\ parts[i].start <= trip.end
      BY <2>2, <2>0, <1>2
    <3> DEFINE u == parts[i].start
               v == parts[i].end
               from == trip.start
               to == trip.end
    <3> HIDE DEF u, v, from, to
    <3>10. u \in Clock /\ v \in Clock /\ from \in Clock /\ to \in Clock
      BY <2>0, <1>2 DEF u, v, from, to
    <3>11. /\ Gap(u, from) \in Seq(Span) /\ Apart(Gap(u, from))
           /\ \A x \in ToSet(Gap(u, from)) : x.start = u /\ x.end = from
      BY <3>10, GapIs
    <3>12. /\ Gap(to, v) \in Seq(Span) /\ Apart(Gap(to, v))
           /\ \A x \in ToSet(Gap(to, v)) : x.start = to /\ x.end = v
      BY <3>10, GapIs
    <3>13. Before(i) = Gap(u, from) /\ After(i) = Gap(to, v)
      BY DEF u, v, from, to
    <3> HIDE DEF Before, After
    <3>2. /\ Before(i) \in Seq(Span) /\ Apart(Before(i))
          /\ \A x \in ToSet(Before(i)) : x.start = parts[i].start /\ x.end = trip.start
      BY <3>11, <3>13 DEF u, from
    <3>3. /\ After(i) \in Seq(Span) /\ Apart(After(i))
          /\ \A x \in ToSet(After(i)) : x.start = trip.end /\ x.end = parts[i].end
      BY <3>12, <3>13 DEF to, v
    <3>4. One(i) = Before(i) \o After(i)
      BY <2>2
    <3> HIDE DEF Far, One
    <3>5. One(i) \in Seq(Span) /\ ToSet(One(i)) = ToSet(Before(i)) \cup ToSet(After(i))
      BY <3>2, <3>3, <3>4, ConcatIs
    <3>6. \A x \in ToSet(Before(i)) : Inside(x, parts[i]) /\ Disjoint(x, trip)
      BY <3>1, <3>2, <2>0, <1>2 DEF Inside, Disjoint
    <3>7. \A x \in ToSet(After(i)) : Inside(x, parts[i]) /\ Disjoint(x, trip)
      BY <3>1, <3>3, <2>0, <1>2 DEF Inside, Disjoint
    <3>8. trip.start <= trip.end => \A x \in ToSet(Before(i)), y \in ToSet(After(i)) : Disjoint(x, y)
      BY <3>2, <3>3, <1>2 DEF Disjoint
    <3>9. trip.start <= trip.end => Apart(One(i))
      BY <3>2, <3>3, <3>4, <3>8, ConcatApart
    <3> QED
      BY <3>5, <3>6, <3>7, <3>9
  <2> QED
    BY <2>1, <2>2
<1>5. lists \in [1..n -> Seq(Span)] /\ \A i \in 1..n : lists[i] = One(i)
  BY <1>4
<1>6. A = FlattenSeq(lists)
  BY DEF GetAvailableSlotsFromShiftAndTrip, n
<1> HIDE DEF A, lists, One
<1>7. A \in Seq(Span) /\ \A x : x \in ToSet(A) <=> \E i \in 1..n : x \in ToSet(lists[i])
  BY <1>1, <1>5, <1>6, FlattenIs
<1>8. \A x \in ToSet(A) : \E p \in ToSet(parts) : Inside(x, p) /\ Disjoint(x, trip)
  BY <1>3, <1>4, <1>5, <1>7
<1>9. ASSUME Apart(parts), trip.start <= trip.end PROVE Apart(A)
  <2>1. ASSUME NEW i \in 1..n, NEW m \in 1..n, i < m, NEW x \in ToSet(lists[i]), NEW y \in ToSet(lists[m])
        PROVE  Disjoint(x, y)
    <3>1. i # m
      BY <1>1, <2>1
    <3>2. Disjoint(parts[i], parts[m])
      BY <1>1, <1>9, <3>1 DEF Apart
    <3>3. Inside(x, parts[i]) /\ Inside(y, parts[m])
      BY <1>4, <1>5
    <3>4. x \in Span /\ y \in Span
      <4>1. lists[i] \in Seq(Span) /\ lists[m] \in Seq(Span)
        BY <1>5
      <4> QED
        BY <4>1 DEF ToSet
    <3>5. x.start \in Int /\ x.end \in Int /\ y.start \in Int /\ y.end \in Int
      BY <3>4, SpanIs
    <3> QED
      BY <3>2, <3>3, <3>5, <1>3 DEF Disjoint, Inside
  <2>2. \A i \in 1..n : Apart(lists[i])
    BY <1>4, <1>5, <1>9
  <2> QED
    BY <1>1, <1>5, <1>6, <2>1, <2>2, FlattenIs
<1> QED
  BY <1>7, <1>8, <1>9 DEF A

\* What pauses and tasks leave of the trip.
LEMMA TripLessTasks ==
    ASSUME NEW trip \in Slot, NEW breaks \in Seq(Span), NEW ts \in Seq(Span)
    PROVE  LET T == GetAvailableSlotsFromTripAndTask(trip, breaks, ts)
               all == ToSet(breaks) \cup ToSet(ts)
           IN  /\ T \in Seq(Span)
               /\ Apart(T)
               /\ \A x \in ToSet(T) :
                    /\ x.start = trip.start \/ \E y \in all : x.start = y.end
                    /\ x.end = trip.end \/ \E y \in all : x.end = y.start
               /\ (\A x, y \in all : x = y \/ Disjoint(x, y)) =>
                    \A x \in ToSet(T), y \in all : Disjoint(x, y)
<1> DEFINE T == GetAvailableSlotsFromTripAndTask(trip, breaks, ts)
           all == ToSet(breaks) \cup ToSet(ts)
           s == breaks \o ts
           taken == Starts(s)
<1>1. s \in Seq(Span) /\ ToSet(s) = all
  BY ConcatIs
<1> HIDE DEF s
<1>2. taken \in Seq(Span) /\ ToSet(taken) = all /\ Sorted(taken)
  BY <1>1, StartsSpans
<1>3. trip.start \in Clock /\ trip.end \in Clock
  BY DEF Slot
<1>4. T = IF Len(taken) = 0 THEN <<>> ELSE Gaps(trip.start, trip.end, taken)
  BY DEF GetAvailableSlotsFromTripAndTask, Gaps, Between2, s
<1> HIDE DEF T, taken, all
<1>5. CASE Len(taken) = 0
  <2>1. T = <<>>
    BY <1>4, <1>5
  <2> QED
    BY <2>1 DEF Apart, ToSet, T, all
<1>6. CASE Len(taken) # 0
  <2>1. T = Gaps(trip.start, trip.end, taken)
    BY <1>4, <1>6
  <2> DEFINE a == trip.start
             b == trip.end
             G == Gaps(a, b, taken)
  <2>2. a \in Clock /\ b \in Clock
    BY <1>3
  <2> HIDE DEF a, b
  <2>3. /\ G \in Seq(Span) /\ Apart(G)
        /\ \A x \in ToSet(G) :
              /\ x.start = a \/ \E y \in ToSet(taken) : x.start = y.end
              /\ x.end = b \/ \E y \in ToSet(taken) : x.end = y.start
        /\ (\A x, y \in ToSet(taken) : x = y \/ Disjoint(x, y)) =>
              \A x \in ToSet(G), y \in ToSet(taken) : Disjoint(x, y)
    BY <2>2, <1>2, <1>6, GapsAre
  <2> HIDE DEF G
  <2>4. G = T
    BY <2>1 DEF G, a, b
  <2> QED
    BY <2>3, <2>4, <1>2 DEF T, all, a, b
<1> QED
  BY <1>5, <1>6

\* The trip lies in the shift, and its tasks in the trip, apart from each
\* other and from the pauses.
Standing(shift, trip, ts) ==
    /\ trip.start <= trip.end
    /\ \A k \in ToSet(ts) : Inside(k, trip) /\ \A l \in ToSet(ts) : k = l \/ Disjoint(k, l)
    /\ \A k \in ToSet(ts), p \in ToSet(ConvertShiftToBreakSlots(Starts(shift))) : Disjoint(k, p)
    /\ \E m, n \in DOMAIN shift : shift[m].start <= trip.start /\ trip.end <= shift[n].end

\* A free time: within the parts of the shift, and apart from the tasks.
FreeIn(x, shift, ts) ==
    /\ \A t \in x.start..(x.end - 1) : \E s \in ToSet(shift) : s.start <= t /\ t < s.end
    /\ \A k \in ToSet(ts) : Disjoint(x, k)

\* The slots of a shift before the reserved times are cut out.
Base(shift, tripSlot, ts) ==
    ConvertComposeTimeSlotsToAvailableSlots(
        Starts(shift), ConvertShiftToBreakSlots(Starts(shift)), tripSlot, ts)

\* Sorting the parts of a shift keeps them, and apart.
LEMMA PartsAre ==
    ASSUME NEW shift \in Seq(Span), Apart(shift)
    PROVE  LET parts == Starts(shift) IN
           /\ parts \in Seq(Span) /\ Len(parts) = Len(shift) /\ ToSet(parts) = ToSet(shift)
           /\ Sorted(parts) /\ Apart(parts)
BY StartsSpans

\* A driver without a trip is free in his shift.
LEMMA BaseWithoutTrip ==
    ASSUME NEW shift \in Seq(Span), Apart(shift)
    PROVE  /\ Base(shift, <<>>, <<>>) \in Seq(Span)
           /\ Apart(Base(shift, <<>>, <<>>))
           /\ \A x \in ToSet(Base(shift, <<>>, <<>>)) : FreeIn(x, shift, <<>>)
<1> DEFINE parts == Starts(shift)
           B == Base(shift, <<>>, <<>>)
<1>1. parts \in Seq(Span) /\ ToSet(parts) = ToSet(shift) /\ Apart(parts)
  BY PartsAre
<1>2. B = Starts(parts)
  BY DEF Base, ConvertComposeTimeSlotsToAvailableSlots
<1> HIDE DEF parts, B
<1>3. B \in Seq(Span) /\ ToSet(B) = ToSet(shift) /\ Apart(B)
  BY <1>1, <1>2, StartsSpans
<1>4. ASSUME NEW x \in ToSet(B) PROVE FreeIn(x, shift, <<>>)
  <2>1. x \in Span
    BY <1>3 DEF ToSet
  <2>2. \A t \in x.start..(x.end - 1) : x.start <= t /\ t < x.end
    BY <2>1, SpanIs
  <2>3. ToSet(<<>>) = {}
    BY DEF ToSet
  <2> QED
    BY <1>3, <2>2, <2>3 DEF FreeIn
<1> QED
  BY <1>3, <1>4 DEF B

\* A driver with a trip is free in the shift around the trip, and in the trip between
\* tasks and pauses, as long as trip and tasks stand in the shift.
LEMMA BaseWithTrip ==
    ASSUME NEW shift \in Seq(Span), Apart(shift), NEW trip \in Slot, NEW ts \in Seq(Span)
    PROVE  LET B == Base(shift, <<trip>>, ts) IN
           /\ B \in Seq(Span)
           /\ Standing(shift, trip, ts) =>
                /\ \A x \in ToSet(B) : FreeIn(x, shift, ts)
                /\ Len(shift) = 1 => Apart(B)
<1> DEFINE parts == Starts(shift)
           breaks == ConvertShiftToBreakSlots(parts)
           A == GetAvailableSlotsFromShiftAndTrip(parts, trip)
           T == GetAvailableSlotsFromTripAndTask(trip, breaks, ts)
           all == ToSet(breaks) \cup ToSet(ts)
           C == A \o T
           B == Base(shift, <<trip>>, ts)
<1>1. /\ parts \in Seq(Span) /\ Len(parts) = Len(shift) /\ ToSet(parts) = ToSet(shift)
      /\ Sorted(parts) /\ Apart(parts)
  BY PartsAre
<1>2. <<trip>> # <<>> /\ <<trip>>[1] = trip
  OBVIOUS
<1>3. B = Starts(C)
  BY <1>2 DEF Base, ConvertComposeTimeSlotsToAvailableSlots
<1> HIDE DEF parts, B
<1>4. /\ breaks \in Seq(Span)
      /\ \A x \in ToSet(breaks) : \E i \in 1..(Len(parts) - 1) : x = Pause(parts, i)
      /\ \A x, y \in ToSet(breaks) : x = y \/ Disjoint(x, y)
  BY <1>1, BreaksAre
<1> HIDE DEF breaks
<1>5. /\ A \in Seq(Span)
      /\ \A x \in ToSet(A) : \E p \in ToSet(parts) : Inside(x, p) /\ Disjoint(x, trip)
      /\ trip.start <= trip.end => Apart(A)
  BY <1>1, ShiftLessTrip
<1>6. /\ T \in Seq(Span) /\ Apart(T)
      /\ \A x \in ToSet(T) :
            /\ x.start = trip.start \/ \E y \in all : x.start = y.end
            /\ x.end = trip.end \/ \E y \in all : x.end = y.start
      /\ (\A x, y \in all : x = y \/ Disjoint(x, y)) => \A x \in ToSet(T), y \in all : Disjoint(x, y)
  BY <1>4, TripLessTasks
<1> HIDE DEF A, T
<1>7. C \in Seq(Span) /\ ToSet(C) = ToSet(A) \cup ToSet(T)
  BY <1>5, <1>6, ConcatIs
<1> HIDE DEF C
<1>8. B \in Seq(Span) /\ ToSet(B) = ToSet(C) /\ (Apart(C) => Apart(B))
  BY <1>3, <1>7, StartsSpans
<1>9. /\ trip.start \in Int /\ trip.end \in Int
      /\ \A x \in ToSet(A) \cup ToSet(T) \cup ToSet(breaks) \cup ToSet(ts) \cup ToSet(parts) :
            /\ x \in Span /\ x.start \in Int /\ x.end \in Int /\ x.start < x.end
  <2>1. trip.start \in Int /\ trip.end \in Int
    BY ClockIs DEF Slot
  <2>2. \A x \in ToSet(A) \cup ToSet(T) \cup ToSet(breaks) \cup ToSet(ts) \cup ToSet(parts) : x \in Span
    BY <1>1, <1>4, <1>5, <1>6 DEF ToSet
  <2> QED
    BY <2>1, <2>2, SpanIs
<1>10. ASSUME Standing(shift, trip, ts), NEW x \in ToSet(A) PROVE FreeIn(x, shift, ts)
  <2>1. PICK p \in ToSet(parts) : Inside(x, p) /\ Disjoint(x, trip)
    BY <1>5
  <2>2. \A t \in x.start..(x.end - 1) : p.start <= t /\ t < p.end
    BY <2>1, <1>9 DEF Inside
  <2>3. ASSUME NEW k \in ToSet(ts) PROVE Disjoint(x, k)
    <3>1. Inside(k, trip)
      BY <1>10 DEF Standing
    <3> QED
      BY <2>1, <3>1, <1>9 DEF Inside, Disjoint
  <2> QED
    BY <1>1, <2>2, <2>3 DEF FreeIn
<1>11. ASSUME Standing(shift, trip, ts), NEW x \in ToSet(T) PROVE FreeIn(x, shift, ts)
  <2>1. \A k, l \in all : k = l \/ Disjoint(k, l)
    <3>1. \A k \in ToSet(ts), l \in ToSet(breaks) : Disjoint(k, l) /\ Disjoint(l, k)
      BY <1>11 DEF Standing, Disjoint, breaks, parts
    <3> QED
      BY <3>1, <1>4, <1>11 DEF Standing
  <2>2. \A y \in all : Disjoint(x, y)
    BY <2>1, <1>6
  <2>3. PICK m \in DOMAIN shift, n \in DOMAIN shift :
          shift[m].start <= trip.start /\ trip.end <= shift[n].end
    BY <1>11 DEF Standing
  <2>4. PICK p \in ToSet(parts), q \in ToSet(parts) : p.start <= trip.start /\ trip.end <= q.end
    BY <2>3, <1>1 DEF ToSet
  <2>5. ASSUME NEW y \in all PROVE (\E p1 \in ToSet(parts) : p1.start <= y.start) /\ (\E q1 \in ToSet(parts) : y.end <= q1.end)
    <3>1. CASE y \in ToSet(ts)
      <4>1. Inside(y, trip)
        BY <3>1, <1>11 DEF Standing
      <4> QED
        BY <4>1, <2>4, <3>1, <1>9 DEF Inside
    <3>2. CASE y \in ToSet(breaks)
      <4>1. PICK i \in 1..(Len(parts) - 1) : y = Pause(parts, i)
        BY <3>2, <1>4
      <4>2. /\ parts[i] \in ToSet(parts) /\ parts[i + 1] \in ToSet(parts)
            /\ y.start = parts[i].end /\ y.end = parts[i + 1].start
        <5>1. i \in DOMAIN parts /\ i + 1 \in DOMAIN parts
          BY <1>1
        <5> QED
          BY <5>1, <4>1, BetweenIs DEF Pause, ToSet
      <4> QED
        BY <4>2, <1>9
    <3> QED
      BY <3>1, <3>2
  <2>6. PICK pa \in ToSet(parts) : pa.start <= x.start
    <3>1. CASE x.start = trip.start
      BY <3>1, <2>4
    <3>2. ASSUME NEW y \in all, x.start = y.end PROVE \E p1 \in ToSet(parts) : p1.start <= x.start
      BY <3>2, <2>5, <1>9
    <3> QED
      BY <3>1, <3>2, <1>6
  <2>7. PICK qa \in ToSet(parts) : x.end <= qa.end
    <3>1. CASE x.end = trip.end
      BY <3>1, <2>4
    <3>2. ASSUME NEW y \in all, x.end = y.start PROVE \E q1 \in ToSet(parts) : x.end <= q1.end
      BY <3>2, <2>5, <1>9
    <3> QED
      BY <3>1, <3>2, <1>6
  <2>8. PICK ma \in DOMAIN parts, na \in DOMAIN parts : pa = parts[ma] /\ qa = parts[na]
    BY DEF ToSet
  <2>9. ASSUME NEW t \in x.start..(x.end - 1) PROVE \E s \in ToSet(shift) : s.start <= t /\ t < s.end
    <3>0. x.start \in Int /\ x.end \in Int /\ pa.start \in Int /\ qa.end \in Int
      BY <1>9
    <3>1. t \in Int /\ parts[ma].start <= t /\ t < parts[na].end /\ x.start <= t /\ t < x.end
      BY <2>6, <2>7, <2>8, <3>0
    <3>2. PICK s \in ToSet(parts) \cup ToSet(breaks) : s.start <= t /\ t < s.end
      BY <3>1, <1>1, PartOrPause DEF breaks
    <3>3. s \notin ToSet(breaks)
      <4> SUFFICES ASSUME s \in ToSet(breaks) PROVE FALSE
        OBVIOUS
      <4>1. Disjoint(x, s)
        BY <2>2
      <4> QED
        BY <4>1, <3>0, <3>1, <3>2, <1>9 DEF Disjoint
    <3> QED
      BY <3>2, <3>3, <1>1
  <2>10. \A k \in ToSet(ts) : Disjoint(x, k)
    BY <2>2
  <2> QED
    BY <2>9, <2>10 DEF FreeIn
<1>12. ASSUME Standing(shift, trip, ts), Len(shift) = 1 PROVE Apart(B)
  <2>1. ToSet(breaks) = {}
    BY <1>1, <1>4, <1>12
  <2>2. ASSUME NEW x \in ToSet(A), NEW y \in ToSet(T) PROVE Disjoint(x, y)
    <3>1. Disjoint(x, trip)
      BY <1>5
    <3>2. \A k \in all : Inside(k, trip)
      BY <2>1, <1>12 DEF Standing
    <3>3. \A k \in all : trip.start <= k.start /\ k.start < k.end /\ k.end <= trip.end
                           /\ k.start \in Int /\ k.end \in Int
      BY <3>2, <1>9 DEF Inside
    <3>4. y.start = trip.start \/ \E k \in all : y.start = k.end
      BY <1>6
    <3>5. y.end = trip.end \/ \E k \in all : y.end = k.start
      BY <1>6
    <3>6. trip.start <= y.start
      BY <3>3, <3>4, <1>9
    <3>7. y.end <= trip.end
      BY <3>3, <3>5, <1>9
    <3> QED
      BY <3>1, <3>6, <3>7, <1>9 DEF Disjoint
  <2>3. Apart(A)
    BY <1>5, <1>12 DEF Standing
  <2>4. Apart(C)
    BY <2>2, <2>3, <1>5, <1>6, ConcatApart DEF C
  <2> QED
    BY <2>4, <1>8
<1> QED
  BY <1>7, <1>8, <1>10, <1>11, <1>12 DEF B

\* The slot a reserved time is cut from: the first it lies in.
First(slots, r) == SelectInSeq(slots, LAMBDA s : Inside(r, s))

\* There is one exactly when the reserved time lies in some slot.
LEMMA FirstIs ==
    ASSUME NEW slots \in Seq(Span), NEW r
    PROVE  LET j == First(slots, r) IN
           \/ j = 0 /\ \A y \in ToSet(slots) : ~Inside(r, y)
           \/ j \in DOMAIN slots /\ Inside(r, slots[j])
<1> DEFINE I == {i \in 1..Len(slots) : Inside(r, slots[i])}
           j == First(slots, r)
<1>1. j = IF I # {} THEN Min(I) ELSE 0
  BY DEF First, SelectInSeq
<1>2. DOMAIN slots = 1..Len(slots) /\ I \in SUBSET Nat
  OBVIOUS
<1>3. CASE I = {}
  BY <1>1, <1>2, <1>3 DEF ToSet
<1>4. CASE I # {}
  <2>1. \E m \in I : \A x \in I : m <= x
    <3>1. PICK n \in I : TRUE
      BY <1>4
    <3> HIDE DEF I
    <3> QED
      BY <1>2, <3>1, LeastNumber
  <2>2. Min(I) \in I
    <3> HIDE DEF I
    <3> QED
      BY <2>1 DEF Min
  <2> QED
    BY <1>1, <1>2, <1>4, <2>2
<1> QED
  BY <1>3, <1>4

\* What is left when the time r is cut out: pieces of what was there.  Of
\* pieces that are apart none meets r afterwards if it lay in one of them, and
\* a time apart from r is still in one piece if it was.
LEMMA CutIs ==
    ASSUME NEW slots \in Seq(Span), NEW r \in Span
    PROVE  LET C == CutReserved(slots, r) IN
           /\ C \in Seq(Span)
           /\ \A x \in ToSet(C) : \E y \in ToSet(slots) : Inside(x, y)
           /\ Apart(slots) => Apart(C)
           /\ Apart(slots) /\ (\E y \in ToSet(slots) : Inside(r, y)) => \A x \in ToSet(C) : Disjoint(x, r)
           /\ \A q \in Span : Disjoint(q, r) /\ (\E y \in ToSet(slots) : Inside(q, y)) =>
                 \E x \in ToSet(C) : Inside(q, x)
<1> DEFINE j == First(slots, r)
           n == Len(slots)
           C == CutReserved(slots, r)
<1>1. \/ j = 0 /\ \A y \in ToSet(slots) : ~Inside(r, y)
      \/ j \in DOMAIN slots /\ Inside(r, slots[j])
  BY FirstIs
<1>2. n \in Nat /\ DOMAIN slots = 1..n
  OBVIOUS
<1>3. ASSUME NEW y \in ToSet(slots)
      PROVE  y \in Span /\ y.start \in Int /\ y.end \in Int /\ y.start < y.end
             /\ y.start \in Clock /\ y.end \in Clock
  <2>1. y \in Span
    BY DEF ToSet
  <2> QED
    BY <2>1, SpanIs
<1>r. r.start \in Clock /\ r.end \in Clock /\ r.start \in Int /\ r.end \in Int /\ r.start < r.end
  BY SpanIs
<1>4. CASE j = 0
  <2>1. C = slots
    BY <1>4 DEF CutReserved, First
  <2>2. \A y \in ToSet(slots) : Inside(y, y)
    BY <1>3 DEF Inside
  <2>3. \A y \in ToSet(slots) : ~Inside(r, y)
    BY <1>1, <1>2, <1>4
  <2> HIDE DEF C
  <2> QED
    BY <2>1, <2>2, <2>3 DEF C
<1>5. CASE j # 0
  <2> DEFINE y == slots[j]
             head == SubSeq(slots, 1, j - 1)
             tail == SubSeq(slots, j + 1, n)
             left == Gap(y.start, r.start)
             right == Gap(r.end, y.end)
             C1 == head \o left
             C2 == C1 \o right
  <2>1. C = C2 \o tail
    BY <1>5 DEF CutReserved, First
  <2>2. j \in 1..n /\ Inside(r, y)
    BY <1>1, <1>2, <1>5
  <2> HIDE DEF j, n, C
  <2>3. /\ head \in Seq(Span) /\ Len(head) = j - 1 /\ \A i \in 1..(j - 1) : head[i] = slots[i]
    BY <1>2, <2>2
  <2>4. /\ tail \in Seq(Span) /\ Len(tail) = n - j /\ \A i \in 1..(n - j) : tail[i] = slots[j + i]
    <3>1. Len(slots) = n /\ tail = SubSeq(slots, j + 1, n)
      BY DEF n
    <3>2. j + 1 \in Nat /\ j + 1 >= 1 /\ j <= n /\ n \in Nat /\ j \in Nat
      BY <1>2, <2>2
    <3>3. tail \in Seq(Span)
      BY <3>1, <3>2
    <3>4. Len(tail) = n - j
      BY <3>1, <3>2
    <3>5. ASSUME NEW i \in 1..(n - j) PROVE tail[i] = slots[j + i]
      BY <3>1, <3>2
    <3> QED
      BY <3>3, <3>4, <3>5
  <2> HIDE DEF head, tail
  <2>5. DOMAIN head = 1..(j - 1) /\ DOMAIN tail = 1..(n - j)
    BY <2>3, <2>4
  <2>6. \A x : x \in ToSet(head) <=> \E i \in 1..(j - 1) : x = slots[i]
    BY <2>3, <2>5 DEF ToSet
  <2>7. \A x : x \in ToSet(tail) <=> \E i \in (j + 1)..n : x = slots[i]
    <3>1. \A i \in (j + 1)..n : i - j \in 1..(n - j) /\ i = j + (i - j)
      BY <1>2, <2>2
    <3>2. \A i \in 1..(n - j) : j + i \in (j + 1)..n
      BY <1>2, <2>2
    <3> QED
      BY <2>4, <2>5, <3>1, <3>2 DEF ToSet
  <2>8. y \in ToSet(slots) /\ y \in Span /\ y.start \in Clock /\ y.end \in Clock
        /\ y.start \in Int /\ y.end \in Int /\ y.start <= r.start /\ r.end <= y.end
    <3>1. y \in ToSet(slots)
      BY <1>2, <2>2 DEF ToSet
    <3> QED
      BY <3>1, <1>3, <2>2 DEF Inside
  <2> HIDE DEF y
  <2>9. /\ left \in Seq(Span) /\ Apart(left)
        /\ \A x : x \in ToSet(left) <=> y.start < r.start /\ x = Between(y.start, r.start)
    <3> DEFINE u == y.start
               v == r.start
    <3>1. u \in Clock /\ v \in Clock
      BY <1>r, <2>8
    <3> HIDE DEF u, v
    <3>2. Gap(u, v) \in Seq(Span) /\ Apart(Gap(u, v))
      BY <3>1, GapIs
    <3>3. \A x : x \in ToSet(Gap(u, v)) <=> u < v /\ x = Between(u, v)
      BY <3>1, GapIs
    <3> QED
      BY <3>2, <3>3 DEF u, v
  <2>10. /\ right \in Seq(Span) /\ Apart(right)
         /\ \A x : x \in ToSet(right) <=> r.end < y.end /\ x = Between(r.end, y.end)
    <3> DEFINE u == r.end
               v == y.end
    <3>1. u \in Clock /\ v \in Clock
      BY <1>r, <2>8
    <3> HIDE DEF u, v
    <3>2. Gap(u, v) \in Seq(Span) /\ Apart(Gap(u, v))
      BY <3>1, GapIs
    <3>3. \A x : x \in ToSet(Gap(u, v)) <=> u < v /\ x = Between(u, v)
      BY <3>1, GapIs
    <3> QED
      BY <3>2, <3>3 DEF u, v
  <2> HIDE DEF left, right
  <2>11. C1 \in Seq(Span) /\ ToSet(C1) = ToSet(head) \cup ToSet(left)
    BY <2>3, <2>9, ConcatIs
  <2>12. C2 \in Seq(Span) /\ ToSet(C2) = ToSet(C1) \cup ToSet(right)
    <3> HIDE DEF C1
    <3> QED
      BY <2>10, <2>11, ConcatIs
  <2>13. C \in Seq(Span) /\ ToSet(C) = ToSet(C2) \cup ToSet(tail)
    <3> HIDE DEF C2
    <3> QED
      BY <2>1, <2>4, <2>12, ConcatIs
  <2>14. \A x : x \in ToSet(left) => x.start = y.start /\ x.end = r.start
    BY <2>9, BetweenIs
  <2>15. \A x : x \in ToSet(right) => x.start = r.end /\ x.end = y.end
    BY <2>10, BetweenIs
  <2>16. ASSUME NEW x \in ToSet(head) \cup ToSet(tail) PROVE x \in ToSet(slots)
    <3>1. \A i \in 1..(j - 1) : i \in 1..n
      BY <1>2, <2>2
    <3>2. \A i \in (j + 1)..n : i \in 1..n
      BY <1>2, <2>2
    <3> QED
      BY <2>6, <2>7, <3>1, <3>2, <1>2 DEF ToSet
  <2>17. \A x \in ToSet(left) \cup ToSet(right) : Inside(x, y)
    BY <2>8, <2>14, <2>15, <1>r DEF Inside
  <2>18. \A x \in ToSet(C) : \E z \in ToSet(slots) : Inside(x, z)
    <3>1. \A x \in ToSet(slots) : Inside(x, x)
      BY <1>3 DEF Inside
    <3> QED
      BY <3>1, <2>8, <2>11, <2>12, <2>13, <2>16, <2>17
  <2>19. ASSUME Apart(slots), NEW i \in 1..n, i # j
         PROVE  /\ Disjoint(slots[i], y) /\ Disjoint(slots[i], r)
                /\ \A x \in ToSet(left) \cup ToSet(right) : Disjoint(slots[i], x) /\ Disjoint(x, slots[i])
    <3>1. Disjoint(slots[i], y)
      BY <1>2, <2>2, <2>19 DEF Apart, y
    <3>2. slots[i] \in ToSet(slots)
      BY <1>2 DEF ToSet
    <3>3. slots[i].start \in Int /\ slots[i].end \in Int
      BY <3>2, <1>3
    <3>4. Disjoint(slots[i], r)
      BY <3>1, <3>3, <2>8, <1>r DEF Disjoint
    <3>5. \A x \in ToSet(left) \cup ToSet(right) : Disjoint(slots[i], x) /\ Disjoint(x, slots[i])
      BY <3>1, <3>3, <2>8, <2>14, <2>15, <1>r DEF Disjoint
    <3> QED
      BY <3>1, <3>4, <3>5
  <2>20. \A x \in ToSet(left) \cup ToSet(right) : Disjoint(x, r)
    BY <2>8, <2>14, <2>15, <1>r DEF Disjoint
  <2>21. ASSUME Apart(slots) PROVE \A x \in ToSet(C) : Disjoint(x, r)
    <3>1. ASSUME NEW x \in ToSet(head) \cup ToSet(tail) PROVE Disjoint(x, r)
      <4>1. \A i \in 1..(j - 1) : i \in 1..n /\ i # j
        BY <1>2, <2>2
      <4>2. \A i \in (j + 1)..n : i \in 1..n /\ i # j
        BY <1>2, <2>2
      <4> QED
        BY <4>1, <4>2, <2>6, <2>7, <2>19, <2>21
    <3> QED
      BY <3>1, <2>11, <2>12, <2>13, <2>20
  <2>22. ASSUME Apart(slots) PROVE Apart(C)
    <3>1. Apart(head)
      <4>1. \A i \in 1..(j - 1) : i \in 1..n
        BY <1>2, <2>2
      <4> QED
        BY <4>1, <1>2, <2>3, <2>5, <2>22 DEF Apart
    <3>2. Apart(tail)
      <4> SUFFICES ASSUME NEW i \in 1..(n - j), NEW h \in 1..(n - j), i # h PROVE Disjoint(tail[i], tail[h])
        BY <2>5 DEF Apart
      <4>1. j + i \in 1..n /\ j + h \in 1..n /\ j + i # j + h
        BY <1>2, <2>2
      <4> QED
        BY <4>1, <1>2, <2>4, <2>22 DEF Apart
    <3>3. \A x \in ToSet(head), z \in ToSet(left) \cup ToSet(right) : Disjoint(x, z)
      <4>1. \A i \in 1..(j - 1) : i \in 1..n /\ i # j
        BY <1>2, <2>2
      <4> QED
        BY <4>1, <2>6, <2>19, <2>22
    <3>4. \A x \in ToSet(left) \cup ToSet(right), z \in ToSet(tail) : Disjoint(x, z)
      <4>1. \A i \in (j + 1)..n : i \in 1..n /\ i # j
        BY <1>2, <2>2
      <4> QED
        BY <4>1, <2>7, <2>19, <2>22
    <3>5. \A x \in ToSet(head), z \in ToSet(tail) : Disjoint(x, z)
      <4> SUFFICES ASSUME NEW i \in 1..(j - 1), NEW h \in (j + 1)..n PROVE Disjoint(slots[i], slots[h])
        BY <2>6, <2>7
      <4>1. i \in 1..n /\ h \in 1..n /\ i # h
        BY <1>2, <2>2
      <4> QED
        BY <4>1, <1>2, <2>22 DEF Apart
    <3>6. \A x \in ToSet(left), z \in ToSet(right) : Disjoint(x, z)
      BY <2>14, <2>15, <1>r DEF Disjoint
    <3>7. Apart(C1)
      BY <2>3, <2>9, <3>1, <3>3, ConcatApart
    <3>8. \A x \in ToSet(C1), z \in ToSet(right) : Disjoint(x, z)
      BY <2>11, <3>3, <3>6
    <3>9. Apart(C2)
      <4> HIDE DEF C1
      <4> QED
        BY <2>10, <2>11, <3>7, <3>8, ConcatApart
    <3>10. \A x \in ToSet(C2), z \in ToSet(tail) : Disjoint(x, z)
      BY <2>11, <2>12, <3>4, <3>5
    <3> HIDE DEF C2
    <3> QED
      BY <2>1, <2>4, <2>12, <3>2, <3>9, <3>10, ConcatApart
  <2>23. ASSUME NEW q \in Span, Disjoint(q, r), NEW z \in ToSet(slots), Inside(q, z)
         PROVE  \E x \in ToSet(C) : Inside(q, x)
    <3>1. PICK i \in 1..n : z = slots[i]
      BY <1>2 DEF ToSet
    <3>2. CASE i # j
      <4>1. i \in 1..(j - 1) \/ i \in (j + 1)..n
        BY <1>2, <2>2, <3>2
      <4>2. z \in ToSet(head) \cup ToSet(tail)
        BY <4>1, <3>1, <2>6, <2>7
      <4> QED
        BY <4>2, <2>11, <2>12, <2>13, <2>23
    <3>3. CASE i = j
      <4>1. Inside(q, y)
        BY <3>1, <3>3, <2>23 DEF y
      <4>2. q.start \in Int /\ q.end \in Int /\ q.start < q.end
        BY SpanIs
      <4>3. CASE q.end <= r.start
        <5> DEFINE x == Between(y.start, r.start)
        <5>1. x \in ToSet(left)
          BY <2>8, <2>9, <1>r, <4>1, <4>2, <4>3 DEF Inside
        <5>2. Inside(q, x)
          BY <4>1, <4>3, BetweenIs DEF Inside
        <5> HIDE DEF x
        <5> QED
          BY <5>1, <5>2, <2>11, <2>12, <2>13
      <4>4. CASE r.end <= q.start
        <5> DEFINE x == Between(r.end, y.end)
        <5>1. x \in ToSet(right)
          BY <2>8, <2>10, <1>r, <4>1, <4>2, <4>4 DEF Inside
        <5>2. Inside(q, x)
          BY <4>1, <4>4, BetweenIs DEF Inside
        <5> HIDE DEF x
        <5> QED
          BY <5>1, <5>2, <2>12, <2>13
      <4> QED
        BY <4>3, <4>4, <2>23 DEF Disjoint
    <3> QED
      BY <3>2, <3>3
  <2> QED
    BY <2>13, <2>18, <2>21, <2>22, <2>23 DEF C
<1> QED
  BY <1>4, <1>5

\* Cutting one reserved time after another.
CutOr(f, slots, reserved, n) == IF n = 0 THEN slots ELSE CutReserved(f[n - 1], reserved[n])
\* The reserved times up to m are cut out.
CutTo(f, slots, reserved, m) == f = [n \in 0..m |-> CutOr(f, slots, reserved, n)]
\* A function that holds what is left after the first reserved times.
Cuts(f, slots, reserved, m) ==
    f[0] = slots /\ \A n \in 1..m : f[n] = CutReserved(f[n - 1], reserved[n])

\* Cutting ends with every reserved time cut out, one step after another
\* (reserveSlotsFromAvailableSlots).
LEMMA ReserveSteps ==
    ASSUME NEW reserved, NEW slots, Len(reserved) \in Nat
    PROVE  \E f : /\ ReserveSlotsFromAvailableSlots(reserved, slots) = f[Len(reserved)]
                  /\ Cuts(f, slots, reserved, Len(reserved))
<1> DEFINE N == Len(reserved)
<1>1. \A m \in 0..N : \E f : CutTo(f, slots, reserved, m)
  <2> DEFINE Bad == {m \in 0..N : ~\E f : CutTo(f, slots, reserved, m)}
  <2>1. SUFFICES ASSUME NEW b \in Bad PROVE FALSE
    OBVIOUS
  <2>2. PICK m \in Bad : \A x \in Bad : m <= x
    <3>1. Bad \in SUBSET Nat
      OBVIOUS
    <3> HIDE DEF Bad
    <3> QED
      BY <2>1, <3>1, LeastNumber
  <2>3. m # 0
    <3> DEFINE f == [n \in 0..0 |-> slots]
    <3>1. CutTo(f, slots, reserved, 0)
      BY DEF CutTo, CutOr
    <3> QED
      BY <3>1, <2>2
  <2>4. m - 1 \in 0..N /\ m - 1 \notin Bad
    BY <2>2, <2>3
  <2>5. PICK f : CutTo(f, slots, reserved, m - 1)
    BY <2>4
  <2> DEFINE g == [n \in 0..m |-> CutOr(f, slots, reserved, n)]
  <2>6. ASSUME NEW n \in 0..(m - 1) PROVE f[n] = g[n]
    <3>1. f = [h \in 0..(m - 1) |-> CutOr(f, slots, reserved, h)]
      BY <2>5 DEF CutTo
    <3>2. f[n] = CutOr(f, slots, reserved, n)
      BY <3>1
    <3>3. n \in 0..m
      BY <2>4
    <3> QED
      BY <3>2, <3>3
  <2>7. ASSUME NEW n \in 0..m PROVE CutOr(f, slots, reserved, n) = CutOr(g, slots, reserved, n)
    <3>1. CASE n = 0
      BY <3>1 DEF CutOr
    <3>2. CASE n # 0
      <4>1. n - 1 \in 0..(m - 1)
        BY <3>2, <2>4
      <4>2. f[n - 1] = g[n - 1]
        BY <4>1, <2>6
      <4> HIDE DEF g
      <4> QED
        BY <4>2, <3>2 DEF CutOr
    <3> QED
      BY <3>1, <3>2
  <2>8. g = [n \in 0..m |-> CutOr(g, slots, reserved, n)]
    BY <2>7
  <2> QED
    BY <2>2, <2>8 DEF CutTo
<1> DEFINE F == CHOOSE f : f = [n \in 0..N |-> IF n = 0 THEN slots ELSE CutReserved(f[n - 1], reserved[n])]
<1>2. F = [n \in 0..N |-> CutOr(F, slots, reserved, n)]
  <2>1. \E f : f = [n \in 0..N |-> IF n = 0 THEN slots ELSE CutReserved(f[n - 1], reserved[n])]
    <3>1. N \in 0..N
      OBVIOUS
    <3>2. PICK f : CutTo(f, slots, reserved, N)
      BY <3>1, <1>1
    <3>3. f = [n \in 0..N |-> IF n = 0 THEN slots ELSE CutReserved(f[n - 1], reserved[n])]
      BY <3>2 DEF CutTo, CutOr
    <3> QED
      BY <3>3
  <2>2. F = [n \in 0..N |-> IF n = 0 THEN slots ELSE CutReserved(F[n - 1], reserved[n])]
    BY <2>1
  <2> HIDE DEF F
  <2> QED
    BY <2>2 DEF CutOr
<1>3. ReserveSlotsFromAvailableSlots(reserved, slots) = F[N]
  BY DEF ReserveSlotsFromAvailableSlots
<1> HIDE DEF F
<1>4. \A n \in 0..N : F[n] = CutOr(F, slots, reserved, n)
  BY <1>2
<1>5. F[0] = slots
  BY <1>4 DEF CutOr
<1>6. ASSUME NEW n \in 1..N PROVE F[n] = CutReserved(F[n - 1], reserved[n])
  <2>1. n \in 0..N /\ n # 0
    OBVIOUS
  <2> QED
    BY <2>1, <1>4 DEF CutOr
<1> QED
  BY <1>3, <1>5, <1>6 DEF Cuts

\* What is left is in pieces of what was there; and when these were apart, a
\* reserved time that lay in one of them and apart from the other reserved
\* times is not met by any piece that is left.
LEMMA ReserveIs ==
    ASSUME NEW slots \in Seq(Span), NEW reserved \in Seq(Span)
    PROVE  LET R == ReserveSlotsFromAvailableSlots(reserved, slots) IN
           /\ R \in Seq(Span)
           /\ \A x \in ToSet(R) : \E y \in ToSet(slots) : Inside(x, y)
           /\ Apart(slots) =>
                \A r \in ToSet(reserved) :
                    (/\ \E y \in ToSet(slots) : Inside(r, y)
                     /\ \A q \in ToSet(reserved) \ {r} : Disjoint(q, r)) =>
                    \A x \in ToSet(R) : Disjoint(x, r)
           /\ reserved = <<>> => R = slots
<1> DEFINE N == Len(reserved)
           R == ReserveSlotsFromAvailableSlots(reserved, slots)
<1>1. N \in Nat /\ DOMAIN reserved = 1..N /\ \A n \in 1..N : reserved[n] \in Span
  OBVIOUS
<1>2. PICK f : R = f[N] /\ Cuts(f, slots, reserved, N)
  BY <1>1, ReserveSteps
<1>3. f[0] = slots /\ \A n \in 1..N : f[n] = CutReserved(f[n - 1], reserved[n])
  BY <1>2 DEF Cuts
<1> DEFINE Kept(r, n) == /\ \E y \in ToSet(slots) : Inside(r, y)
                         /\ \A q \in ToSet(reserved) \ {r} : Disjoint(q, r)
           Good(n) ==
             /\ f[n] \in Seq(Span)
             /\ \A x \in ToSet(f[n]) : \E y \in ToSet(slots) : Inside(x, y)
             /\ Apart(slots) =>
                  /\ Apart(f[n])
                  /\ \A r \in ToSet(reserved) : Kept(r, n) =>
                        IF \E m \in 1..n : reserved[m] = r
                        THEN \A x \in ToSet(f[n]) : Disjoint(x, r)
                        ELSE \E x \in ToSet(f[n]) : Inside(r, x)
           Bad == {n \in 0..N : ~Good(n)}
<1> HIDE DEF N, R
<1>4. \A x \in ToSet(slots) : Inside(x, x)
  <2>1. \A x \in ToSet(slots) : x \in Span
    BY DEF ToSet
  <2> QED
    BY <2>1, SpanIs DEF Inside
<1>5. \A r \in ToSet(reserved) : r \in Span
  BY DEF ToSet
<1>6. Good(0)
  BY <1>3, <1>4
<1>7. ASSUME NEW n \in 1..N, Good(n - 1) PROVE Good(n)
  <2> DEFINE S == f[n - 1]
             q == reserved[n]
             C == CutReserved(S, q)
  <2>1. S \in Seq(Span) /\ q \in Span /\ f[n] = C /\ q \in ToSet(reserved)
    BY <1>1, <1>3, <1>7 DEF ToSet
  <2>0. /\ \A x \in ToSet(S) : \E y \in ToSet(slots) : Inside(x, y)
        /\ Apart(slots) =>
             /\ Apart(S)
             /\ \A r \in ToSet(reserved) : Kept(r, n) =>
                   IF \E m \in 1..(n - 1) : reserved[m] = r
                   THEN \A x \in ToSet(S) : Disjoint(x, r)
                   ELSE \E x \in ToSet(S) : Inside(r, x)
    BY <1>7
  <2> DEFINE r0 == q
  <2> HIDE DEF Kept, S, q
  <2>2. /\ C \in Seq(Span)
        /\ \A x \in ToSet(C) : \E y \in ToSet(S) : Inside(x, y)
        /\ Apart(S) => Apart(C)
        /\ Apart(S) /\ (\E y \in ToSet(S) : Inside(q, y)) => \A x \in ToSet(C) : Disjoint(x, q)
        /\ \A p \in Span : Disjoint(p, q) /\ (\E y \in ToSet(S) : Inside(p, y)) =>
              \E x \in ToSet(C) : Inside(p, x)
    BY <2>1, CutIs
  <2> HIDE DEF C
  <2>3. \A x \in ToSet(C) \cup ToSet(S) \cup ToSet(slots) \cup ToSet(reserved) :
          x.start \in Int /\ x.end \in Int /\ x.start < x.end
    <3>1. \A x \in ToSet(C) \cup ToSet(S) \cup ToSet(slots) \cup ToSet(reserved) : x \in Span
      BY <2>1, <2>2 DEF ToSet
    <3> QED
      BY <3>1, SpanIs
  <2>4. \A x \in ToSet(C) : \E y \in ToSet(slots) : Inside(x, y)
    <3> SUFFICES ASSUME NEW x \in ToSet(C) PROVE \E y \in ToSet(slots) : Inside(x, y)
      OBVIOUS
    <3>1. PICK y \in ToSet(S) : Inside(x, y)
      BY <2>2
    <3>2. PICK z \in ToSet(slots) : Inside(y, z)
      BY <2>0
    <3>3. Inside(x, z)
      BY <3>1, <3>2, <2>3 DEF Inside
    <3> QED
      BY <3>3
  <2>5. ASSUME Apart(slots), NEW r \in ToSet(reserved), Kept(r, n)
        PROVE  IF \E m \in 1..n : reserved[m] = r
               THEN \A x \in ToSet(C) : Disjoint(x, r)
               ELSE \E x \in ToSet(C) : Inside(r, x)
    <3>1. IF \E m \in 1..(n - 1) : reserved[m] = r
          THEN \A x \in ToSet(S) : Disjoint(x, r)
          ELSE \E x \in ToSet(S) : Inside(r, x)
      BY <2>0, <2>5
    <3>2. CASE \E m \in 1..(n - 1) : reserved[m] = r
      <4>1. \E m \in 1..n : reserved[m] = r
        <5>1. \A m \in 1..(n - 1) : m \in 1..n
          BY <1>1
        <5> QED
          BY <3>2, <5>1
      <4>2. ASSUME NEW x \in ToSet(C) PROVE Disjoint(x, r)
        <5>1. PICK y \in ToSet(S) : Inside(x, y)
          BY <2>2
        <5>2. Disjoint(y, r)
          BY <3>1, <3>2
        <5> QED
          BY <5>1, <5>2, <2>3 DEF Inside, Disjoint
      <4> QED
        BY <4>1, <4>2
    <3>3. CASE ~(\E m \in 1..(n - 1) : reserved[m] = r)
      <4>1. PICK y \in ToSet(S) : Inside(r, y)
        BY <3>1, <3>3
      <4>2. CASE q = r
        <5>1. \E m \in 1..n : reserved[m] = r
          BY <4>2, <1>1 DEF q
        <5>2. \A x \in ToSet(C) : Disjoint(x, r)
          BY <4>1, <4>2, <2>0, <2>2, <2>5
        <5> QED
          BY <5>1, <5>2
      <4>3. CASE q # r
        <5>1. ~(\E m \in 1..n : reserved[m] = r)
          <6>1. \A m \in 1..n : m \in 1..(n - 1) \/ m = n
            BY <1>1
          <6> QED
            BY <6>1, <3>3, <4>3 DEF q
        <5>2. Disjoint(r, q) /\ r \in Span
          <6>1. Disjoint(q, r)
            BY <4>3, <2>1, <2>5 DEF Kept
          <6> QED
            BY <6>1, <1>5 DEF Disjoint
        <5>3. \E x \in ToSet(C) : Inside(r, x)
          BY <4>1, <5>2, <2>2
        <5> QED
          BY <5>1, <5>3
      <4> QED
        BY <4>2, <4>3
    <3> QED
      BY <3>2, <3>3
  <2> QED
    BY <2>0, <2>1, <2>2, <2>4, <2>5
<1> HIDE DEF Good
<1>8. Bad = {}
  <2> SUFFICES ASSUME NEW b \in Bad PROVE FALSE
    OBVIOUS
  <2>1. PICK m \in Bad : \A x \in Bad : m <= x
    <3>1. Bad \in SUBSET Nat
      BY <1>1
    <3> HIDE DEF Bad
    <3> QED
      BY <3>1, LeastNumber
  <2>2. m # 0
    BY <1>6
  <2>3. m \in 1..N /\ m - 1 \in 0..N /\ m - 1 \notin Bad
    BY <2>1, <2>2, <1>1
  <2> QED
    BY <1>7, <2>3
<1>9. Good(N)
  BY <1>8, <1>1
<1>10. /\ R \in Seq(Span)
       /\ \A x \in ToSet(R) : \E y \in ToSet(slots) : Inside(x, y)
       /\ Apart(slots) => \A r \in ToSet(reserved) : Kept(r, N) =>
             IF \E m \in 1..N : reserved[m] = r
             THEN \A x \in ToSet(R) : Disjoint(x, r)
             ELSE \E x \in ToSet(R) : Inside(r, x)
  BY <1>2, <1>9 DEF Good
<1>11. \A r \in ToSet(reserved) : \E m \in 1..N : reserved[m] = r
  BY <1>1 DEF ToSet
<1>12. reserved = <<>> => R = slots
  BY <1>2, <1>3 DEF N
<1> HIDE DEF Kept
<1>13. Apart(slots) => \A r \in ToSet(reserved) : Kept(r, N) => \A x \in ToSet(R) : Disjoint(x, r)
  BY <1>10, <1>11
<1> QED
  BY <1>10, <1>12, <1>13 DEF Kept, R

\* The slots a driver has: spans, each in one piece of his free time, when his
\* trip of the day keeps to the shift.  A reserved time that is in one piece
\* of it and apart from the others is in no slot, in a shift of one part.
LEMMA SlotsAre ==
    ASSUME NEW shift \in Seq(Span), Apart(shift), NEW reserved \in Seq(Span),
           NEW tripSlot, NEW ts \in Seq(Span),
           \/ tripSlot = <<>> /\ ts = <<>>
           \/ \E trip \in Slot : tripSlot = <<trip>>
    PROVE  LET slots == AvailableSlots(shift, reserved, tripSlot, ts)
               stands == tripSlot # <<>> => Standing(shift, tripSlot[1], ts)
           IN  /\ slots \in Seq(Span)
               /\ stands => \A x \in ToSet(slots) : FreeIn(x, shift, ts)
               /\ stands /\ Len(shift) = 1 =>
                    \A r \in ToSet(reserved) :
                        (/\ \E y \in ToSet(AvailableSlots(shift, <<>>, tripSlot, ts)) : Inside(r, y)
                         /\ \A q \in ToSet(reserved) \ {r} : Disjoint(q, r)) =>
                        \A x \in ToSet(slots) : Disjoint(x, r)
<1> DEFINE B == Base(shift, tripSlot, ts)
           slots == AvailableSlots(shift, reserved, tripSlot, ts)
           all == AvailableSlots(shift, <<>>, tripSlot, ts)
           stands == tripSlot # <<>> => Standing(shift, tripSlot[1], ts)
<1>1. /\ B \in Seq(Span)
      /\ stands => \A x \in ToSet(B) : FreeIn(x, shift, ts)
      /\ stands /\ Len(shift) = 1 => Apart(B)
  <2>1. CASE tripSlot = <<>> /\ ts = <<>>
    BY <2>1, BaseWithoutTrip
  <2>2. ASSUME NEW trip \in Slot, tripSlot = <<trip>>
        PROVE  <1>1!1 /\ <1>1!2 /\ <1>1!3
    <3>1. tripSlot # <<>> /\ tripSlot[1] = trip
      BY <2>2
    <3> QED
      BY <2>2, <3>1, BaseWithTrip
  <2> QED
    BY <2>1, <2>2
<1>2. /\ slots = ReserveSlotsFromAvailableSlots(reserved, B)
      /\ all = ReserveSlotsFromAvailableSlots(<<>>, B)
  BY DEF AvailableSlots, Base
<1> HIDE DEF slots, all, stands, B
<1>3. all = B
  <2>1. <<>> \in Seq(Span)
    OBVIOUS
  <2> QED
    BY <1>1, <1>2, <2>1, ReserveIs
<1>4. /\ slots \in Seq(Span)
      /\ \A x \in ToSet(slots) : \E y \in ToSet(B) : Inside(x, y)
      /\ Apart(B) =>
           \A r \in ToSet(reserved) :
              (/\ \E y \in ToSet(B) : Inside(r, y)
               /\ \A q \in ToSet(reserved) \ {r} : Disjoint(q, r)) =>
              \A x \in ToSet(slots) : Disjoint(x, r)
  BY <1>1, <1>2, ReserveIs
<1>5. ASSUME stands, NEW x \in ToSet(slots) PROVE FreeIn(x, shift, ts)
  <2>1. PICK y \in ToSet(B) : Inside(x, y)
    BY <1>4
  <2>2. FreeIn(y, shift, ts)
    BY <1>1, <1>5
  <2>3. x \in Span /\ y \in Span /\ \A k \in ToSet(ts) : k \in Span
    BY <1>1, <1>4 DEF ToSet
  <2>4. x.start \in Int /\ x.end \in Int /\ y.start \in Int /\ y.end \in Int
        /\ \A k \in ToSet(ts) : k.start \in Int /\ k.end \in Int
    BY <2>3, SpanIs
  <2>5. \A t \in x.start..(x.end - 1) : t \in y.start..(y.end - 1)
    BY <2>1, <2>4 DEF Inside
  <2>6. \A k \in ToSet(ts) : Disjoint(x, k)
    <3> SUFFICES ASSUME NEW k \in ToSet(ts) PROVE Disjoint(x, k)
      OBVIOUS
    <3>1. Disjoint(y, k)
      BY <2>2 DEF FreeIn
    <3> QED
      BY <2>1, <2>4, <3>1 DEF Inside, Disjoint
  <2> QED
    BY <2>2, <2>5, <2>6 DEF FreeIn
<1> QED
  BY <1>1, <1>3, <1>4, <1>5 DEF slots, all, stands

(***************************************************************************)
(* No task is handed out twice.                                            *)
(***************************************************************************)
\* What is kept of a call.
Fields == {"at", "next", "seen", "current", "trip", "pool", "given"}

\* A call is over.
Done == {"answered", "thrown"}

\* The shape of what a call keeps, and of what was answered.
Shape ==
    /\ DOMAIN call = Call
    /\ \A c \in Call :
        /\ DOMAIN call[c] = Fields
        /\ call[c].at \in {"ready", "trip", "pool", "distances", "save"} \cup Done
    /\ \A h \in handed : h = [call |-> h.call, given |-> h.given]

\* What a call has given away is noted as its own and was not noted before,
\* and it gives a task away once.
OwnChoices ==
    \A c \in Call :
        /\ call[c].at = "ready" => call[c].current = {}
        /\ call[c].current \cap call[c].seen = {}
        /\ \A g \in call[c].given : g.task \in call[c].current
        /\ \A g, h \in call[c].given : g.task = h.task => g = h

\* Only what a call has given away is answered, when it is over.
Answered ==
    \A h \in handed :
        /\ h.call \in Call
        /\ call[h.call].at = "answered"
        /\ h.given \in call[h.call].given

\* The cache holds what the calls that were answered gave away.
Cached == \A c \in Call : call[c].at = "answered" => call[c].current \subseteq cache

\* The call d began when c was over, and knows what c gave away.
After(c, d) ==
    /\ call[c].at \in Done
    /\ call[c].at = "answered" => call[c].current \subseteq call[d].seen

\* Of two calls that did not meet, one began when the other was over.
Separate ==
    \A c, d \in Call :
        (/\ c # d /\ <<c, d>> \notin met
         /\ call[c].at # "ready" /\ call[d].at # "ready") => After(c, d) \/ After(d, c)

\* Together: the inductive invariant of "once".
OnceInv == Shape /\ OwnChoices /\ Answered /\ Cached /\ Separate

\* It holds before any call asks.
LEMMA OnceInit == Init => OnceInv
<1> SUFFICES ASSUME AssigningInit PROVE OnceInv
  BY DEF Init
<1> QED
  BY DEF AssigningInit, NotCalled, OnceInv, Shape, Fields, Done, OwnChoices, Answered, Cached, Separate

\* A call that only goes on, from one place to the next, or that drops a
\* driver.
LEMMA GoingOn ==
    ASSUME OnceInv, NEW c \in Call,
           call[c].at \in {"trip", "pool", "distances"},
           DOMAIN call' = Call,
           \A d \in Call : DOMAIN call'[d] = Fields,
           \A d \in Call : call'[d].seen = call[d].seen
                           /\ call'[d].current = call[d].current
                           /\ call'[d].given = call[d].given,
           \A d \in Call \ {c} : call'[d].at = call[d].at,
           call'[c].at \in {"trip", "pool", "distances", "save"},
           UNCHANGED <<cache, handed, met>>
    PROVE  OnceInv'
<1>1. Shape' /\ OwnChoices'
  BY DEF OnceInv, Shape, OwnChoices
<1>2. Answered'
  BY DEF OnceInv, Answered
<1>3. Cached'
  BY DEF OnceInv, Cached
<1>4. Separate'
  <2> SUFFICES ASSUME NEW d \in Call, NEW e \in Call, d # e, <<d, e>> \notin met,
                      call'[d].at # "ready", call'[e].at # "ready"
               PROVE  After(d, e)' \/ After(e, d)'
    BY DEF Separate
  <2>1. After(d, e) \/ After(e, d)
    BY DEF OnceInv, Separate
  <2> QED
    BY <2>1 DEF After, Done
<1> QED
  BY <1>1, <1>2, <1>3, <1>4 DEF OnceInv

\* Reading the cache notes what was given out; no other call is under way then.
LEMMA ReadCacheOnce ==
    ASSUME OnceInv, NEW c \in Call, ReadCache(c)
    PROVE  OnceInv'
<1>1. /\ call[c].at = "ready"
      /\ call' = [call EXCEPT ![c].at = "trip", ![c].seen = cache]
      /\ UNCHANGED <<cache, handed>>
  BY DEF ReadCache
<1>2. Shape'
  BY <1>1 DEF OnceInv, Shape, Fields
<1>3. /\ \A d \in Call : /\ call'[d].current = call[d].current
                         /\ call'[d].given = call[d].given
      /\ \A d \in Call \ {c} : call'[d] = call[d]
      /\ call'[c].at = "trip" /\ call'[c].seen = cache
  BY <1>1 DEF OnceInv, Shape, Fields
<1>4. call[c].current = {}
  BY <1>1 DEF OnceInv, OwnChoices
<1>5. OwnChoices'
  BY <1>3, <1>4 DEF OnceInv, OwnChoices
<1>6. Answered'
  BY <1>1, <1>3 DEF OnceInv, Answered
<1>7. Cached'
  BY <1>1, <1>3 DEF OnceInv, Cached
<1>8. Separate'
  <2> SUFFICES ASSUME NEW d \in Call, NEW e \in Call, d # e, <<d, e>> \notin met',
                      call'[d].at # "ready", call'[e].at # "ready"
               PROVE  After(d, e)' \/ After(e, d)'
    BY DEF Separate
  <2>1. met' = met \cup UNION {{<<c, x>>, <<x, c>>} : x \in {y \in Call : CallActive(y)}}
    BY DEF ReadCache
  <2>2. \A x \in Call : call[x].at # "ready" /\ ~CallActive(x) => call[x].at \in Done
    BY DEF OnceInv, Shape, CallActive
  <2>3. CASE d = c
    <3>1. ~CallActive(e)
      BY <2>1, <2>3
    <3> QED
      BY <3>1, <2>2, <2>3, <1>3 DEF OnceInv, Cached, After
  <2>4. CASE e = c
    <3>1. ~CallActive(d)
      BY <2>1, <2>4
    <3> QED
      BY <3>1, <2>2, <2>4, <1>3 DEF OnceInv, Cached, After
  <2>5. CASE d # c /\ e # c
    <3>1. <<d, e>> \notin met
      BY <2>1
    <3> QED
      BY <3>1, <2>5, <1>3 DEF OnceInv, Separate, After
  <2> QED
    BY <2>3, <2>4, <2>5
<1> QED
  BY <1>2, <1>5, <1>6, <1>7, <1>8 DEF OnceInv

\* A driver for whom nothing is found.
LEMMA SkipOnce ==
    ASSUME OnceInv, NEW c \in Call, SkipStaff(c),
           call[c].at \in {"trip", "pool", "distances"},
           UNCHANGED <<cache, handed, met>>
    PROVE  OnceInv'
<1>1. call' = [call EXCEPT ![c].at = Onward(c), ![c].next = @ + 1]
  BY DEF SkipStaff
<1>2. Onward(c) \in {"trip", "pool", "distances", "save"}
  BY DEF Onward
<1>3. /\ DOMAIN call' = Call
      /\ \A d \in Call : DOMAIN call'[d] = Fields
      /\ \A d \in Call : call'[d].seen = call[d].seen
                        /\ call'[d].current = call[d].current
                        /\ call'[d].given = call[d].given
      /\ \A d \in Call \ {c} : call'[d].at = call[d].at
      /\ call'[c].at = Onward(c)
  BY <1>1 DEF OnceInv, Shape, Fields
<1> QED
  BY <1>2, <1>3, GoingOn

\* Reading the trip of a driver changes no choice.
LEMMA ReadTripOnce ==
    ASSUME OnceInv, NEW c \in Call, ReadTripOfStaff(c)
    PROVE  OnceInv'
<1>1. PICK trip : call' = [call EXCEPT ![c].at = "pool", ![c].trip = trip]
  BY DEF ReadTripOfStaff
<1>2. call[c].at = "trip" /\ UNCHANGED <<cache, handed, met>>
  BY DEF ReadTripOfStaff
<1>3. /\ DOMAIN call' = Call
      /\ \A d \in Call : DOMAIN call'[d] = Fields
      /\ \A d \in Call : call'[d].seen = call[d].seen
                        /\ call'[d].current = call[d].current
                        /\ call'[d].given = call[d].given
      /\ \A d \in Call \ {c} : call'[d].at = call[d].at
      /\ call'[c].at = "pool"
  BY <1>1 DEF OnceInv, Shape, Fields
<1> QED
  BY <1>2, <1>3, GoingOn

\* The pool that is read is free of what the call has seen or given out.
LEMMA ReadPoolOnce ==
    ASSUME OnceInv, NEW c \in Call, ReadTaskPool(c)
    PROVE  OnceInv'
<1>1. call[c].at = "pool" /\ UNCHANGED <<cache, handed, met>>
  BY DEF ReadTaskPool
<1>2. CASE SkipStaff(c)
  BY <1>1, <1>2, SkipOnce
<1>3. CASE ~SkipStaff(c)
  <2>1. PICK pool : call' = [call EXCEPT ![c].at = "distances", ![c].pool = pool]
    BY <1>3 DEF ReadTaskPool
  <2>2. /\ DOMAIN call' = Call
        /\ \A d \in Call : DOMAIN call'[d] = Fields
        /\ \A d \in Call : call'[d].seen = call[d].seen
                          /\ call'[d].current = call[d].current
                          /\ call'[d].given = call[d].given
        /\ \A d \in Call \ {c} : call'[d].at = call[d].at
        /\ call'[c].at = "distances"
    BY <2>1 DEF OnceInv, Shape, Fields
  <2> QED
    BY <1>1, <2>2, GoingOn
<1> QED
  BY <1>2, <1>3

\* A driver is given a task that neither this call nor an earlier one had.
LEMMA GiveOnce ==
    ASSUME OnceInv, NEW c \in Call, NEW g,
           call[c].at = "distances",
           g.task \notin call[c].current \cup call[c].seen,
           call' = [call EXCEPT ![c].at = Onward(c), ![c].next = @ + 1,
                                ![c].current = @ \cup {g.task},
                                ![c].given = @ \cup {g}],
           UNCHANGED <<cache, handed, met>>
    PROVE  OnceInv'
<1>1. Onward(c) \in {"trip", "save"}
  BY DEF Onward
<1>2. /\ DOMAIN call' = Call
      /\ \A d \in Call : DOMAIN call'[d] = Fields
      /\ \A d \in Call \ {c} : call'[d] = call[d]
      /\ call'[c].at = Onward(c)
      /\ call'[c].seen = call[c].seen
      /\ call'[c].current = call[c].current \cup {g.task}
      /\ call'[c].given = call[c].given \cup {g}
  BY DEF OnceInv, Shape, Fields
<1>3. Shape'
  BY <1>1, <1>2 DEF OnceInv, Shape
<1>4. OwnChoices'
  BY <1>1, <1>2 DEF OnceInv, OwnChoices
<1>5. Answered'
  BY <1>2 DEF OnceInv, Answered
<1>6. Cached'
  BY <1>1, <1>2 DEF OnceInv, Cached
<1>7. Separate'
  <2> SUFFICES ASSUME NEW d \in Call, NEW e \in Call, d # e, <<d, e>> \notin met,
                      call'[d].at # "ready", call'[e].at # "ready"
               PROVE  After(d, e)' \/ After(e, d)'
    BY DEF Separate
  <2>1. After(d, e) \/ After(e, d)
    BY <1>2 DEF OnceInv, Separate
  <2> QED
    BY <2>1, <1>2 DEF After, Done
<1> QED
  BY <1>3, <1>4, <1>5, <1>6, <1>7 DEF OnceInv

\* What a call gives out is from the pool it read, so it gave out none of it before.
LEMMA GetAssignTaskOnce ==
    ASSUME OnceInv, NEW c \in Call, GetAssignTask(c)
    PROVE  OnceInv'
<1>1. call[c].at = "distances" /\ UNCHANGED <<cache, handed, met>>
  BY DEF GetAssignTask
<1>2. CASE SkipStaff(c)
  BY <1>1, <1>2, SkipOnce
<1>3. CASE ~SkipStaff(c)
  <2> DEFINE slots == SlotsOf(Staff(c), call[c].trip)
             choices == Fitting(call[c].pool, slots, Staff(c).now, call[c].current \cup call[c].seen)
             Given(p) == [number |-> call[c].next, task |-> p[1],
                          trip |-> call[c].trip,
                          window |-> WindowTime(p[1], Staff(c).now,
                                                StartTime(Staff(c).now, slots[p[2]]))]
  <2>1. PICK p \in choices :
          call' = [call EXCEPT ![c].at = Onward(c), ![c].next = @ + 1,
                               ![c].current = @ \cup {p[1]},
                               ![c].given = @ \cup {Given(p)}]
    BY <1>3 DEF GetAssignTask
  <2>2. p[1] \notin call[c].current \cup call[c].seen
    BY DEF Fitting
  <2>3. Given(p).task = p[1]
    OBVIOUS
  <2> HIDE DEF Given
  <2> QED
    BY <1>1, <2>1, <2>2, <2>3, GiveOnce
<1> QED
  BY <1>2, <1>3

\* The end of a call: what it gave away is in the cache when it answers.
LEMMA EndOnce ==
    ASSUME OnceInv, NEW c \in Call, NEW place \in Done,
           call[c].at = "save",
           call' = [call EXCEPT ![c].at = place],
           cache \subseteq cache',
           place = "answered" => call[c].current \subseteq cache',
           handed \subseteq handed',
           \A h \in handed' \ handed :
               /\ place = "answered"
               /\ \E g \in call[c].given : h = [call |-> c, given |-> g],
           UNCHANGED met
    PROVE  OnceInv'
<1>1. /\ DOMAIN call' = Call
      /\ \A d \in Call : DOMAIN call'[d] = Fields
      /\ \A d \in Call \ {c} : call'[d] = call[d]
      /\ call'[c].at = place
      /\ call'[c].seen = call[c].seen
      /\ call'[c].current = call[c].current
      /\ call'[c].given = call[c].given
  BY DEF OnceInv, Shape, Fields
<1>2. Shape'
  BY <1>1 DEF OnceInv, Shape
<1>3. OwnChoices'
  BY <1>1 DEF OnceInv, OwnChoices, Done
<1>4. Answered'
  BY <1>1 DEF OnceInv, Answered
<1>5. Cached'
  BY <1>1 DEF OnceInv, Cached
<1>6. Separate'
  <2> SUFFICES ASSUME NEW d \in Call, NEW e \in Call, d # e, <<d, e>> \notin met,
                      call'[d].at # "ready", call'[e].at # "ready"
               PROVE  After(d, e)' \/ After(e, d)'
    BY DEF Separate
  <2>1. After(d, e) \/ After(e, d)
    BY <1>1 DEF OnceInv, Separate
  <2> QED
    BY <2>1, <1>1 DEF After, Done
<1> QED
  BY <1>2, <1>3, <1>4, <1>5, <1>6 DEF OnceInv

\* A call that saves leaves in the cache all that it gave out.
LEMMA SaveCacheOnce ==
    ASSUME OnceInv, NEW c \in Call, SaveCache(c)
    PROVE  OnceInv'
<1>1. /\ call[c].at = "save" /\ UNCHANGED met
      /\ cache' = cache \cup call[c].current
      /\ call' = [call EXCEPT ![c].at = "answered"]
      /\ handed' = handed \cup {[call |-> c, given |-> g] : g \in call[c].given}
  BY DEF SaveCache, Answer
<1>2. "answered" \in Done
  BY DEF Done
<1> QED
  BY <1>1, <1>2, EndOnce

\* A call that cannot save has answered nobody.
LEMMA SaveCacheThrowsOnce ==
    ASSUME OnceInv, NEW c \in Call, SaveCacheThrows(c)
    PROVE  OnceInv'
<1>1. /\ call[c].at = "save" /\ UNCHANGED <<met, handed>>
      /\ cache \subseteq cache'
      /\ call' = [call EXCEPT ![c].at = "thrown"]
  BY DEF SaveCacheThrows
<1>2. "thrown" \in Done
  BY DEF Done
<1> QED
  BY <1>1, <1>2, EndOnce

\* Every step keeps the invariant.
LEMMA OnceStep == OnceInv /\ [Next]_vars => OnceInv'
<1> SUFFICES ASSUME OnceInv, [Next]_vars PROVE OnceInv'
  OBVIOUS
<1>1. CASE UNCHANGED assigning
  BY <1>1 DEF assigning, OnceInv, Shape, OwnChoices, Answered, Cached, Separate, After
<1>2. ASSUME NEW c \in Call, CallStep(c) PROVE OnceInv'
  <2>1. CASE ReadThrows(c)
    BY <2>1, SkipOnce DEF ReadThrows
  <2> QED
    BY <1>2, <2>1, ReadCacheOnce, ReadTripOnce, ReadPoolOnce, GetAssignTaskOnce,
       SaveCacheOnce, SaveCacheThrowsOnce DEF CallStep
<1> QED
  BY <1>1, <1>2 DEF Next, vars

\* And it says that no task is given out twice.
LEMMA OnceFollows == OnceInv => AssignedOnce
<1> SUFFICES ASSUME OnceInv, NEW a \in handed, NEW b \in handed,
                    a.given.task = b.given.task, <<a.call, b.call>> \notin met
             PROVE  a = b
  BY DEF AssignedOnce
<1>1. CASE a.call = b.call
  <2>1. a.given = b.given
    BY <1>1 DEF OnceInv, Answered, OwnChoices
  <2> QED
    BY <1>1, <2>1 DEF OnceInv, Shape
<1>2. CASE a.call # b.call
  <2>1. /\ a.call \in Call /\ call[a.call].at = "answered"
        /\ a.given.task \in call[a.call].current
        /\ b.call \in Call /\ call[b.call].at = "answered"
        /\ b.given.task \in call[b.call].current
    BY DEF OnceInv, Answered, OwnChoices
  <2>2. After(a.call, b.call) \/ After(b.call, a.call)
    BY <1>2, <2>1 DEF OnceInv, Separate
  <2> QED
    BY <2>1, <2>2 DEF After, OnceInv, OwnChoices
<1> QED
  BY <1>1, <1>2

\* No task is handed out twice, by one call or by two that do not meet, however
\* many calls, drivers and tasks there are, whatever reads and writes fail and
\* however trips change meanwhile (assignTask of autoAssignTask.js).
THEOREM AssignedOnceHolds == Spec => []AssignedOnce
<1> QED
  BY OnceInit, OnceStep, OnceFollows, PTL DEF Spec

(***************************************************************************)
(* Types: documents, jobs, writes under way.                               *)
(***************************************************************************)
\* A trip with the numbers of its tasks, as a worker reads them.
Reading == [trip: TripDoc, numbers: [Task -> Nat]]
\* What a worker keeps for its compensation.
Noted == {NotFound} \cup [found: {TRUE}, trip: TripDoc, numbers: [Task -> Nat]]
\* The workers that read the trip before they write.
OnTrip == {"remove", "reorder", "number"}

\* What is kept of a job that is asked for w.
Shaped(w, x) ==
    /\ DOMAIN x = {"at", "step", "doc", "out"}
    /\ x.step \in Nat /\ x.out \in Seq(Noted) /\ Len(x.out) < x.step
    /\ \A n \in DOMAIN x.out : w.steps[n] = "remove" => x.out[n].found
    /\ x.at = "ready" => x.step = 1 /\ x.out = <<>>
    /\ x.at = "bind" => x.doc \in TripId /\ w.kind \in Creations \cup {"addTasks"}
    /\ x.at \in {"call", "write", "number", "stepFailed"} =>
          w.kind = "saga" /\ x.step = Len(x.out) + 1 /\ x.step <= Len(w.steps)
    /\ x.at = "number" => w.steps[x.step] = "number"
    /\ (x.at \in {"write", "number"} /\ w.steps[x.step] \in OnTrip) =>
          x.doc \in Reading /\ (w.steps[x.step] = "reorder" => x.doc.trip.tasks # <<>>)
    /\ x.at \in {"undo", "unnumber"} => x.out # <<>>

\* The writes to tasks nobody waits for one by one.
WriteDoc ==
    [by: Job \cup {NoJob}, op: {"number"}, task: Task, number: Nat]
    \cup [by: {NoJob}, op: {"unbind"}, tasks: SUBSET Task]

\* Trips are trip documents, and no more than there are names.
TripsTyped == trips \in Seq(TripDoc) /\ DOMAIN trips \subseteq TripId
\* Tasks are task documents.
TasksTyped == tasks \in [Task -> TaskDoc]
\* What a job is asked for is one of the requests.
WorkTyped == work \in [Job -> WorkDoc]
\* A job stands where its request can be.
JobsShaped == DOMAIN job = Job /\ \A j \in Job : Shaped(work[j], job[j])
\* A write under way is waited for by the job that began it.
FlightShaped ==
    \A w \in flight :
        /\ w \in WriteDoc
        /\ w.by # NoJob => w.by \in Job /\ job[w.by].at \in {"number", "unnumber"}
\* What a job found when it began.
BeforeTyped == before \in [Job -> [trips: Seq(TripDoc), tasks: [Task -> TaskDoc]]]
\* Faults are counted, jobs are marked.
MarksTyped == faults \in 0..MaxFaults /\ overlapped \subseteq Job /\ damaged \subseteq Job

\* Together: documents, jobs and writes have their shape.
PlanTyped ==
    /\ TripsTyped /\ TasksTyped /\ WorkTyped /\ JobsShaped /\ FlightShaped
    /\ BeforeTyped /\ MarksTyped

\* So they have before any request.
LEMMA PlanTypedInit == Init => PlanTyped
<1> SUFFICES ASSUME Init PROVE PlanTyped
  OBVIOUS
<1>1. PICK case \in Cases :
        trips = case.trips /\ tasks = case.tasks /\ work = case.work /\ asked = case.asked
  BY DEF Init
<1>2. TripsTyped /\ TasksTyped /\ WorkTyped
  BY <1>1, AssignAssumption DEF TripsTyped, TasksTyped, WorkTyped
<1>3. JobsShaped
  <2>1. \A j \in Job : Shaped(work[j], Waiting)
    BY DEF Shaped, Waiting
  <2> QED
    BY <2>1 DEF Init, PlanningInit, JobsShaped
<1>4. FlightShaped
  BY DEF Init, PlanningInit, FlightShaped
<1>5. BeforeTyped
  BY <1>2 DEF Init, PlanningInit, BeforeTyped, TripsTyped, TasksTyped
<1>6. MarksTyped
  BY PlanningAssumption DEF Init, PlanningInit, MarksTyped
<1> QED
  BY <1>2, <1>3, <1>4, <1>5, <1>6 DEF PlanTyped

\* One job goes on; what is under way for it is gone or it waits for it.
LEMMA OneJob ==
    ASSUME JobsShaped, FlightShaped, NEW j \in Job, UNCHANGED work,
           DOMAIN job' = Job, \A i \in Job \ {j} : job'[i] = job[i],
           Shaped(work[j], job'[j]),
           \A w \in flight' : w \in flight \/ (w \in WriteDoc /\ w.by \in {j, NoJob}),
           \A w \in flight' : w.by = j /\ w.by # NoJob => job'[j].at \in {"number", "unnumber"}
    PROVE  JobsShaped' /\ FlightShaped'
<1>1. JobsShaped'
  BY DEF JobsShaped
<1>2. FlightShaped'
  BY DEF FlightShaped
<1> QED
  BY <1>1, <1>2

\* No write of a job is under way that does not wait for one.
LEMMA NothingUnderWay ==
    ASSUME FlightShaped, NEW j \in Job, job[j].at \notin {"number", "unnumber"}
    PROVE  \A w \in flight : w.by = j => w.by = NoJob
BY DEF FlightShaped

\* Where a job may stand without more being known of it.
Quiet == {"check", "insert", "add", "ok", "failed", "undone", "broken"}

\* A job that only goes to its next step keeps its shape (submit, checkTasks, the
\* answers of the workers).
LEMMA JobGoes ==
    ASSUME JobsShaped, FlightShaped, NEW j \in Job, NEW place, UNCHANGED work, GoesTo(j, place),
           job[j].at \notin {"number", "unnumber"},
           \/ place \in Quiet
           \/ place = "stepFailed" /\ job[j].at \in {"call", "write"}
           \/ place = "call" /\ job[j].at = "stepFailed"
           \/ place = "undo" /\ job[j].out # <<>>,
           \A w \in flight' : w \in flight \/ (w \in WriteDoc /\ w.by = NoJob)
    PROVE  JobsShaped' /\ FlightShaped'
<1>1. /\ DOMAIN job' = Job /\ \A i \in Job \ {j} : job'[i] = job[i]
      /\ DOMAIN job'[j] = DOMAIN job[j]
      /\ job'[j].at = place /\ job'[j].step = job[j].step
      /\ job'[j].doc = job[j].doc /\ job'[j].out = job[j].out
  BY DEF GoesTo, JobsShaped, Shaped
<1>2. Shaped(work[j], job[j])
  BY DEF JobsShaped
<1>3. Shaped(work[j], job'[j])
  BY <1>1, <1>2 DEF Shaped, Quiet
<1>4. \A w \in flight' : w.by = j => w.by = NoJob
  BY NothingUnderWay
<1> QED
  BY <1>1, <1>3, <1>4, OneJob

\* The fields of a request by its kind.
LEMMA WorkIs ==
    ASSUME WorkTyped, NEW j \in Job
    PROVE  /\ work[j].kind \in Creations => /\ work[j].tasks \in Seq(Task) /\ work[j].window \in Slot
                                            /\ work[j].staffs \subseteq Driver
           /\ work[j].kind = "addTasks" => work[j].trip \in TripId /\ work[j].tasks \in Seq(Task)
           /\ work[j].kind = "saga" =>
                /\ work[j].trip \in TripId /\ work[j].task \in Task /\ work[j].tasks \in Seq(Task)
                /\ work[j].staff \in Driver
                /\ work[j].steps \in Seq(Workers) /\ 1 <= Len(work[j].steps)
           /\ work[j].kind \in Creations \cup {"none", "addTasks", "saga"}
<1>1. work[j] \in WorkDoc
  BY DEF WorkTyped
<1>2. work[j].kind = "saga" => work[j].steps \in Seq(Workers) /\ work[j].steps # <<>>
  BY <1>1 DEF WorkDoc, Creations
<1>3. \A s \in Seq(Workers) : s # <<>> => 1 <= Len(s)
  OBVIOUS
<1> QED
  BY <1>1, <1>2, <1>3 DEF WorkDoc, Creations

\* What is arranged keeps its members.
LEMMA ArrangedMembers ==
    ASSUME NEW S, NEW s \in Seq(S), NEW slots, NEW P \in SUBSET DOMAIN s, DOMAIN slots = DOMAIN s,
           \A i \in DOMAIN s : slots[i].start \in Int
    PROVE  /\ Arranged(s, P, slots) \in Seq(S)
           /\ ToSet(Arranged(s, P, slots)) = {s[i] : i \in P}
<1> DEFINE N == Cardinality(P)
           A == Arranged(s, P, slots)
<1>1. P \in SUBSET Nat /\ IsFiniteSet(P) /\ P \subseteq DOMAIN slots
  <2>1. IsFiniteSet(1..Len(s))
    BY FS_Interval
  <2> QED
    BY <2>1, FS_Subset
<1>2. N \in Nat
  BY <1>1, FS_CardinalityType
<1>3. PICK order : IsOrder(order, P, slots) /\ A = PlacedBy(s, order, P)
  BY <1>1, ArrangedIs
<1> HIDE DEF N, A
<1>4. /\ order \in [1..N -> P]
      /\ \A i \in P : \E n \in 1..N : order[n] = i
  BY <1>3 DEF IsOrder, N
<1>5. A = [n \in 1..N |-> s[order[n]]]
  BY <1>3 DEF PlacedBy, N
<1>6. DOMAIN A = 1..N /\ \A n \in 1..N : A[n] = s[order[n]] /\ order[n] \in P
  BY <1>4, <1>5
<1>7. A \in Seq(S)
  <2>1. \A n \in 1..N : A[n] \in S
    BY <1>6
  <2> QED
    BY <1>2, <1>5, <1>6, <2>1
<1>8. ToSet(A) = {s[i] : i \in P}
  BY <1>4, <1>6 DEF ToSet
<1> QED
  BY <1>7, <1>8 DEF A

\* Sorting the tasks by their windows keeps them (reorderTaskSequence).
LEMMA ByWindowIs ==
    ASSUME NEW s \in Seq(Task), NEW S
    PROVE  ByWindow(s, S) \in Seq(Task) /\ ToSet(ByWindow(s, S)) = ToSet(s) \cap S
<1> DEFINE P == {i \in DOMAIN s : s[i] \in S}
           slots == [i \in DOMAIN s |-> Window[s[i]]]
<1>1. P \in SUBSET DOMAIN s /\ DOMAIN slots = DOMAIN s /\ \A i \in DOMAIN s : slots[i].start \in Int
  <2>1. \A i \in DOMAIN s : s[i] \in Task /\ slots[i] \in Slot
    BY PlanningAssumption
  <2> QED
    BY <2>1, ClockIs DEF Slot
<1>2. ByWindow(s, S) = Arranged(s, P, slots)
  BY DEF ByWindow
<1> HIDE DEF P, slots
<1>3. ByWindow(s, S) \in Seq(Task) /\ ToSet(ByWindow(s, S)) = {s[i] : i \in P}
  BY <1>1, <1>2, ArrangedMembers
<1> QED
  BY <1>3 DEF P, ToSet

\* The window from the first start to the last end is a slot of the day.
LEMMA HullIs ==
    ASSUME NEW s \in Seq(Task), s # <<>>
    PROVE  Hull(s) \in Slot
<1>1. Len(s) \in DOMAIN s /\ 1 \in DOMAIN s /\ Last(s) = s[Len(s)]
  BY DEF Last
<1>2. Last(s) \in Task /\ s[1] \in Task
  BY <1>1
<1>3. Window[s[1]] \in Slot /\ Window[Last(s)] \in Slot
  BY <1>2, PlanningAssumption
<1> QED
  BY <1>3 DEF Hull, Slot

\* addTaskToTrip keeps what the trip held and adds the rest.
LEMMA AddedIs ==
    ASSUME NEW s \in Seq(Task), NEW more \in Seq(Task)
    PROVE  Added(s, more) \in Seq(Task) /\ ToSet(Added(s, more)) = ToSet(s) \cup ToSet(more)
<1> DEFINE P == {i \in DOMAIN more :
                    more[i] \notin ToSet(s) \cup {more[h] : h \in 1..(i - 1)}}
           slots == [i \in DOMAIN more |-> [start |-> i]]
           new == Arranged(more, P, slots)
<1>1. P \in SUBSET DOMAIN more /\ DOMAIN slots = DOMAIN more /\ \A i \in DOMAIN more : slots[i].start \in Int
  OBVIOUS
<1>2. Added(s, more) = s \o new
  BY DEF Added
<1> HIDE DEF P, slots, new
<1>3. new \in Seq(Task) /\ ToSet(new) = {more[i] : i \in P}
  BY <1>1, ArrangedMembers DEF new
<1>4. s \o new \in Seq(Task) /\ ToSet(s \o new) = ToSet(s) \cup ToSet(new)
  BY <1>3, ConcatIs
<1>5. ToSet(more) \subseteq ToSet(s) \cup {more[i] : i \in P}
  <2> DEFINE D == {i \in DOMAIN more : more[i] \notin ToSet(s) \cup {more[h] : h \in P}}
  <2>1. D = {}
    <3> SUFFICES ASSUME NEW d \in D PROVE FALSE
      OBVIOUS
    <3>1. PICK i \in D : \A h \in D : i <= h
      <4>1. D \in SUBSET Nat
        OBVIOUS
      <4> HIDE DEF D
      <4> QED
        BY <4>1, LeastNumber
    <3>2. PICK h \in 1..(i - 1) : more[h] = more[i]
      BY DEF P
    <3>3. h \in D
      BY <3>2
    <3> QED
      BY <3>1, <3>2, <3>3
  <2> QED
    BY <2>1 DEF ToSet
<1> QED
  BY <1>2, <1>3, <1>4, <1>5, <1>1 DEF ToSet

\* A trip is changed, or none when there is no such trip.
LEMMA TripChanged ==
    ASSUME TripsTyped, NEW t, DOMAIN trips' = DOMAIN trips, trips' = [u \in DOMAIN trips |-> trips'[u]],
           \A u \in DOMAIN trips \ {t} : trips'[u] = trips[u],
           t \in DOMAIN trips => trips'[t] \in TripDoc
    PROVE  TripsTyped'
<1>1. \A u \in DOMAIN trips : trips'[u] \in TripDoc
  BY DEF TripsTyped
<1>2. DOMAIN trips = 1..Len(trips) /\ Len(trips) \in Nat
  BY DEF TripsTyped
<1>3. trips' \in Seq(TripDoc)
  BY <1>1, <1>2
<1> QED
  BY <1>3 DEF TripsTyped

\* A trip is appended.
LEMMA TripAdded ==
    ASSUME TripsTyped, NEW doc \in TripDoc, Fresh \in TripId, trips' = Append(trips, doc)
    PROVE  TripsTyped'
<1>1. trips' \in Seq(TripDoc) /\ Len(trips') = Len(trips) + 1 /\ Len(trips) \in Nat
  BY DEF TripsTyped
<1>2. DOMAIN trips' = 1..(Len(trips) + 1)
  BY <1>1
<1>3. MaxTrips \in Nat /\ Len(trips) + 1 <= MaxTrips
  BY <1>1, PlanningAssumption DEF Fresh, TripId
<1> QED
  BY <1>1, <1>2, <1>3 DEF TripsTyped, TripId

\* A creation makes a trip document of its request.
LEMMA NewTripIs ==
    ASSUME WorkTyped, NEW j \in Job, work[j].kind \in Creations
    PROVE  NewTrip(j) \in TripDoc
BY WorkIs DEF NewTrip, TripDoc

\* A fault is counted, up to the bound.
LEMMA FaultIs == MarksTyped /\ Fault => faults' \in 0..MaxFaults
BY PlanningAssumption DEF MarksTyped, Fault

\* Once the trip is made, the job goes on to bind its tasks.
LEMMA MadeTyped ==
    ASSUME JobsShaped, FlightShaped, MarksTyped, NEW j \in Job, NEW t \in TripId, TripIsMade(j, t),
           job[j].at \in {"insert", "add"}, work[j].kind \in Creations \cup {"addTasks"},
           UNCHANGED <<work, flight, overlapped>>
    PROVE  JobsShaped' /\ FlightShaped' /\ MarksTyped'
<1>1. CASE GoesTo(j, "failed") /\ Fault /\ damaged' = damaged \cup {j}
  <2>1. JobsShaped' /\ FlightShaped'
    BY <1>1, JobGoes DEF Quiet
  <2> QED
    BY <2>1, <1>1, FaultIs DEF MarksTyped
<1>2. CASE job' = [job EXCEPT ![j].at = "bind", ![j].doc = t] /\ UNCHANGED <<faults, damaged>>
  <2>1. /\ DOMAIN job' = Job /\ \A i \in Job \ {j} : job'[i] = job[i]
        /\ DOMAIN job'[j] = DOMAIN job[j]
        /\ job'[j].at = "bind" /\ job'[j].step = job[j].step
        /\ job'[j].doc = t /\ job'[j].out = job[j].out
    BY <1>2 DEF JobsShaped, Shaped
  <2>2. Shaped(work[j], job'[j])
    BY <2>1 DEF JobsShaped, Shaped
  <2>3. \A w \in flight' : w.by = j => w.by = NoJob
    BY NothingUnderWay
  <2>4. JobsShaped' /\ FlightShaped'
    BY <2>1, <2>2, <2>3, OneJob
  <2> QED
    BY <2>4, <1>2 DEF MarksTyped
<1> QED
  BY <1>1, <1>2 DEF TripIsMade

\* A request is taken.
LEMMA SubmitTyped == ASSUME PlanTyped, NEW j \in Job, Submit(j) PROVE PlanTyped'
<1> USE DEF PlanTyped
<1>1. job[j].at = "ready" /\ work[j].kind # "none" /\ UNCHANGED <<trips, tasks, work, flight, faults, damaged>>
  BY DEF Submit
<1>2. PICK place : /\ GoesTo(j, place)
                   /\ place \in {"check", "add"} \/ (place = "call" /\ work[j].kind = "saga")
  BY <1>1, WorkIs DEF Submit
<1>3. JobsShaped' /\ FlightShaped'
  <2>1. CASE place \in {"check", "add"}
    BY <1>1, <1>2, <2>1, JobGoes DEF Quiet
  <2>2. CASE place = "call"
    <3>1. Shaped(work[j], job[j]) /\ work[j].kind = "saga" /\ 1 <= Len(work[j].steps)
      BY <1>2, <2>2, WorkIs DEF JobsShaped
    <3>2. job[j].step = 1 /\ Len(job[j].out) = 0
      BY <1>1, <3>1 DEF Shaped
    <3>3. /\ DOMAIN job' = Job /\ \A i \in Job \ {j} : job'[i] = job[i]
          /\ DOMAIN job'[j] = DOMAIN job[j]
          /\ job'[j].at = "call" /\ job'[j].step = job[j].step
          /\ job'[j].doc = job[j].doc /\ job'[j].out = job[j].out
      BY <1>2, <2>2 DEF GoesTo, JobsShaped, Shaped
    <3>4. Shaped(work[j], job'[j])
      BY <3>1, <3>2, <3>3 DEF Shaped
    <3>5. \A w \in flight' : w.by = j => w.by = NoJob
      BY <1>1, NothingUnderWay
    <3> QED
      BY <1>1, <3>3, <3>4, <3>5, OneJob
  <2> QED
    BY <1>2, <2>1, <2>2
<1>4. BeforeTyped'
  BY DEF Submit, BeforeTyped, TripsTyped, TasksTyped
<1>5. MarksTyped'
  BY <1>1 DEF Submit, MarksTyped
<1> QED
  BY <1>1, <1>3, <1>4, <1>5 DEF TripsTyped, TasksTyped, WorkTyped

\* The tasks are checked before a trip is made.
LEMMA CheckTyped == ASSUME PlanTyped, NEW j \in Job, CheckTasks(j) PROVE PlanTyped'
<1> USE DEF PlanTyped
<1>1. PICK place \in {"failed", "insert"} : GoesTo(j, place)
  BY DEF CheckTasks
<1>2. job[j].at = "check" /\ UNCHANGED <<trips, tasks, work, flight, faults, before, overlapped, damaged>>
  BY DEF CheckTasks, At
<1>3. JobsShaped' /\ FlightShaped'
  BY <1>1, <1>2, JobGoes DEF Quiet
<1> QED
  BY <1>2, <1>3 DEF TripsTyped, TasksTyped, WorkTyped, BeforeTyped, MarksTyped

\* A trip is inserted (createTrip).
LEMMA InsertTyped == ASSUME PlanTyped, NEW j \in Job, InsertTrip(j) PROVE PlanTyped'
<1> USE DEF PlanTyped
<1>1. /\ job[j].at = "insert" /\ work[j].kind \in Creations /\ Fresh \in TripId
      /\ trips' = Append(trips, NewTrip(j)) /\ TripIsMade(j, Fresh)
      /\ UNCHANGED <<tasks, work, flight, before, overlapped>>
  BY DEF InsertTrip, At, Creations
<1>2. JobsShaped' /\ FlightShaped' /\ MarksTyped'
  BY <1>1, MadeTyped
<1>3. TripsTyped'
  BY <1>1, NewTripIs, TripAdded
<1> QED
  BY <1>1, <1>2, <1>3 DEF TasksTyped, WorkTyped, BeforeTyped

\* A trip is found or inserted (createTripWithUpsert).
LEMMA UpsertTyped == ASSUME PlanTyped, NEW j \in Job, UpsertTrip(j) PROVE PlanTyped'
<1> USE DEF PlanTyped
<1>1. /\ job[j].at = "insert" /\ work[j].kind \in Creations
      /\ UNCHANGED <<tasks, work, flight, before, overlapped>>
  BY DEF UpsertTrip, At, Creations
<1>2. CASE /\ Fresh \in TripId /\ trips' = Append(trips, NewTrip(j)) /\ TripIsMade(j, Fresh)
  <2>1. JobsShaped' /\ FlightShaped' /\ MarksTyped'
    BY <1>1, <1>2, MadeTyped
  <2>2. TripsTyped'
    BY <1>1, <1>2, NewTripIs, TripAdded
  <2> QED
    BY <1>1, <2>1, <2>2 DEF TasksTyped, WorkTyped, BeforeTyped
<1>3. ASSUME NEW t \in DOMAIN trips, TripIsMade(j, t),
             trips' = [trips EXCEPT ![t].tasks = work[j].tasks, ![t].window = work[j].window,
                                    ![t].staffs = work[j].staffs]
      PROVE  PlanTyped'
  <2>1. t \in TripId /\ trips[t] \in TripDoc
    BY DEF TripsTyped
  <2>2. JobsShaped' /\ FlightShaped' /\ MarksTyped'
    BY <1>1, <1>3, <2>1, MadeTyped
  <2>3. trips'[t] = [trips[t] EXCEPT !.tasks = work[j].tasks, !.window = work[j].window,
                                     !.staffs = work[j].staffs]
    BY <1>3, <2>1 DEF TripDoc
  <2>4. trips'[t] \in TripDoc
    BY <1>1, <2>1, <2>3, WorkIs DEF TripDoc
  <2>5. TripsTyped'
    BY <1>3, <2>4, TripChanged
  <2> QED
    BY <1>1, <2>2, <2>5 DEF TasksTyped, WorkTyped, BeforeTyped
<1> QED
  BY <1>2, <1>3 DEF UpsertTrip

\* Tasks are added to a trip by $addToSet.
LEMMA AddTyped == ASSUME PlanTyped, NEW j \in Job, AddToSet(j) PROVE PlanTyped'
<1> USE DEF PlanTyped
<1> DEFINE t == work[j].trip
<1>1. /\ job[j].at = "add" /\ work[j].kind = "addTasks" /\ TripIsMade(j, t)
      /\ UNCHANGED <<tasks, work, flight, before, overlapped>>
  BY DEF AddToSet, At
<1>2. t \in TripId /\ work[j].tasks \in Seq(Task)
  BY <1>1, WorkIs
<1>3. JobsShaped' /\ FlightShaped' /\ MarksTyped'
  BY <1>1, <1>2, MadeTyped
<1>4. TripsTyped'
  <2>1. CASE t \in DOMAIN trips
    <3>1. trips' = [trips EXCEPT ![t].tasks = Added(@, work[j].tasks)]
      BY <2>1 DEF AddToSet
    <3>2. trips[t] \in TripDoc
      BY <2>1 DEF TripsTyped
    <3>3. Added(trips[t].tasks, work[j].tasks) \in Seq(Task)
      BY <1>2, <3>2, AddedIs DEF TripDoc
    <3>4. trips'[t] \in TripDoc
      BY <2>1, <3>1, <3>2, <3>3 DEF TripDoc
    <3> HIDE DEF t
    <3> QED
      BY <2>1, <3>1, <3>4, TripChanged
  <2>2. CASE t \notin DOMAIN trips
    BY <2>2 DEF AddToSet, TripsTyped
  <2> QED
    BY <2>1, <2>2
<1> QED
  BY <1>1, <1>3, <1>4 DEF TasksTyped, WorkTyped, BeforeTyped

\* Binding the tasks fails half way.
LEMMA BindThrowsTyped ==
    ASSUME PlanTyped, NEW j \in Job, BindThrows(j), Fault, job[j].at = "bind",
           work[j].kind \in Creations \cup {"addTasks"}, UNCHANGED <<work, overlapped>>
    PROVE  JobsShaped' /\ FlightShaped' /\ MarksTyped'
<1>1. work[j].tasks \in Seq(Task)
  BY WorkIs DEF PlanTyped
<1>2. ToSet(work[j].tasks) \in SUBSET Task
  BY <1>1 DEF ToSet
<1>3. \A w \in flight' : w \in flight \/ (w \in WriteDoc /\ w.by = NoJob)
  <2> DEFINE new == [by |-> NoJob, op |-> "unbind", tasks |-> ToSet(work[j].tasks)]
  <2>1. new \in WriteDoc /\ new.by = NoJob
    BY <1>2 DEF WriteDoc
  <2>2. flight' = flight \/ flight' = flight \cup {new}
    BY DEF BindThrows
  <2> QED
    BY <2>1, <2>2
<1>4. JobsShaped' /\ FlightShaped'
  BY <1>3, JobGoes DEF PlanTyped, BindThrows, Quiet
<1>5. MarksTyped'
  BY FaultIs DEF PlanTyped, MarksTyped, BindThrows
<1> QED
  BY <1>4, <1>5

\* The tasks are bound to the trip.
LEMMA BindTyped == ASSUME PlanTyped, NEW j \in Job, BindTripToTask(j) PROVE PlanTyped'
<1> USE DEF PlanTyped
<1>1. /\ job[j].at = "bind" /\ work[j].kind \in Creations \cup {"addTasks"}
      /\ UNCHANGED <<trips, work, before, overlapped>>
  BY DEF BindTripToTask, At
<1>2. JobsShaped' /\ FlightShaped' /\ MarksTyped'
  <2>1. CASE GoesTo(j, "ok") /\ UNCHANGED <<flight, faults, damaged>>
    <3>1. JobsShaped' /\ FlightShaped'
      BY <1>1, <2>1, JobGoes DEF Quiet
    <3> QED
      BY <1>1, <2>1, <3>1 DEF MarksTyped
  <2>2. CASE Fault /\ BindThrows(j)
    BY <1>1, <2>2, BindThrowsTyped
  <2> QED
    BY <2>1, <2>2 DEF BindTripToTask
<1>3. TasksTyped'
  <2>1. job[j].doc \in TripId
    BY <1>1 DEF JobsShaped, Shaped
  <2> QED
    BY <2>1 DEF TasksTyped, BindTripToTask, TaskDoc
<1> QED
  BY <1>1, <1>2, <1>3 DEF TripsTyped, WorkTyped, BeforeTyped

\* Jobs that are not sagas are in these places.
LEMMA RequestThrowsTyped == ASSUME PlanTyped, NEW j \in Job, RequestThrows(j) PROVE PlanTyped'
<1> USE DEF PlanTyped
<1>1. /\ job[j].at \in {"check", "insert", "add", "bind"} /\ Fault
      /\ UNCHANGED <<trips, tasks, work, before, overlapped>>
  BY DEF RequestThrows
<1>2. JobsShaped' /\ FlightShaped' /\ MarksTyped'
  <2>1. CASE job[j].at = "bind"
    <3>1. Shaped(work[j], job[j])
      BY DEF JobsShaped
    <3>2. work[j].kind \in Creations \cup {"addTasks"}
      BY <2>1, <3>1 DEF Shaped
    <3>3. BindThrows(j)
      BY <2>1 DEF RequestThrows
    <3> QED
      BY <1>1, <2>1, <3>2, <3>3, BindThrowsTyped
  <2>2. CASE job[j].at # "bind"
    <3>1. GoesTo(j, "failed") /\ UNCHANGED <<flight, damaged>>
      BY <2>2 DEF RequestThrows
    <3>2. JobsShaped' /\ FlightShaped'
      BY <1>1, <3>1, JobGoes DEF Quiet
    <3> QED
      BY <1>1, <3>1, <3>2, FaultIs DEF MarksTyped
  <2> QED
    BY <2>1, <2>2
<1> QED
  BY <1>1, <1>2 DEF TripsTyped, TasksTyped, WorkTyped, BeforeTyped

\* Where a saga stands.
LEMMA AtStep ==
    ASSUME PlanTyped, NEW j \in Job, job[j].at \in {"call", "write", "number"}
    PROVE  /\ work[j].kind = "saga" /\ job[j].step = Len(job[j].out) + 1
           /\ job[j].step \in DOMAIN work[j].steps
           /\ job[j].at = "number" => Worker(j) = "number"
           /\ job[j].at \in {"write", "number"} /\ Worker(j) \in OnTrip =>
                job[j].doc \in Reading /\ (Worker(j) = "reorder" => job[j].doc.trip.tasks # <<>>)
<1>1. Shaped(work[j], job[j])
  BY DEF PlanTyped, JobsShaped
<1>2. /\ work[j].kind = "saga" /\ job[j].step = Len(job[j].out) + 1 /\ job[j].step <= Len(work[j].steps)
      /\ job[j].out \in Seq(Noted)
  BY <1>1 DEF Shaped
<1>3. work[j].steps \in Seq(Workers)
  BY <1>2, WorkIs DEF PlanTyped
<1>4. job[j].step \in DOMAIN work[j].steps
  BY <1>2, <1>3
<1> QED
  BY <1>1, <1>2, <1>4 DEF Shaped, Worker

\* A worker that completes leaves its job one step further.
LEMMA CompletedShaped ==
    ASSUME PlanTyped, NEW j \in Job, NEW output \in Noted, Completed(j, output),
           job[j].at \in {"call", "write", "number"},
           Worker(j) = "remove" => output.found, UNCHANGED <<work, flight>>,
           \A w \in flight : w.by = j => w.by = NoJob
    PROVE  JobsShaped' /\ FlightShaped'
<1> DEFINE s == job[j].step
           out == job[j].out
           steps == work[j].steps
<1>1. Shaped(work[j], job[j]) /\ JobsShaped /\ FlightShaped /\ WorkTyped
  BY DEF PlanTyped, JobsShaped
<1>2. /\ work[j].kind = "saga" /\ s = Len(out) + 1 /\ s <= Len(steps) /\ s \in Nat
      /\ out \in Seq(Noted)
      /\ \A n \in DOMAIN out : steps[n] = "remove" => out[n].found
  BY <1>1 DEF Shaped
<1>3. /\ DOMAIN job' = Job /\ \A i \in Job \ {j} : job'[i] = job[i]
      /\ DOMAIN job'[j] = DOMAIN job[j]
      /\ job'[j].at = IF s = Len(steps) THEN "ok" ELSE "call"
      /\ job'[j].step = s + 1
      /\ job'[j].doc = job[j].doc /\ job'[j].out = Append(out, output)
  BY <1>1 DEF Completed, JobsShaped, Shaped
<1>4. steps \in Seq(Workers)
  BY <1>1, <1>2, WorkIs
<1> DEFINE more == Append(out, output)
<1> HIDE DEF s, out, steps
<1>5. more \in Seq(Noted) /\ Len(more) = s /\ Len(more) < s + 1 /\ s + 1 = Len(more) + 1
  BY <1>2
<1>6. ASSUME NEW n \in DOMAIN more, steps[n] = "remove" PROVE more[n].found
  <2>1. CASE n \in DOMAIN out
    BY <1>2, <1>6, <2>1
  <2>2. CASE n \notin DOMAIN out
    <3>1. n = s /\ more[n] = output
      BY <1>2, <2>2
    <3> QED
      BY <1>6, <3>1 DEF Worker, s, steps
  <2> QED
    BY <2>1, <2>2
<1>7. s # Len(steps) => s + 1 <= Len(steps)
  <2>1. Len(steps) \in Nat
    BY <1>4
  <2> QED
    BY <2>1, <1>2
<1>8. DOMAIN job'[j] = {"at", "step", "doc", "out"} /\ s + 1 \in Nat
  BY <1>1, <1>2, <1>3 DEF Shaped
<1> HIDE DEF more
<1>9. Shaped(work[j], job'[j])
  <2>1. job'[j].out = more
    BY <1>3 DEF more
  <2>2. \A n \in DOMAIN job'[j].out : work[j].steps[n] = "remove" => job'[j].out[n].found
    BY <1>6, <2>1 DEF steps
  <2>3. job'[j].at \in {"ok", "call"} /\ (job'[j].at = "call" => s + 1 <= Len(work[j].steps))
    BY <1>3, <1>7 DEF steps
  <2> QED
    BY <1>2, <1>3, <1>5, <1>8, <2>1, <2>2, <2>3 DEF Shaped
<1> QED
  BY <1>1, <1>3, <1>9, OneJob

\* A worker answers, or its answer is lost.
LEMMA AnswersTyped ==
    ASSUME PlanTyped, NEW j \in Job, NEW output \in Noted, Answers(j, output),
           job[j].at \in {"call", "write"},
           Worker(j) = "remove" => output.found, UNCHANGED <<work, flight, overlapped>>
    PROVE  JobsShaped' /\ FlightShaped' /\ MarksTyped'
<1>1. \A w \in flight : w.by = j => w.by = NoJob
  BY NothingUnderWay DEF PlanTyped
<1>2. CASE Completed(j, output) /\ UNCHANGED <<faults, damaged>>
  <2>1. JobsShaped' /\ FlightShaped'
    BY <1>1, <1>2, CompletedShaped
  <2> QED
    BY <1>2, <2>1 DEF PlanTyped, MarksTyped
<1>3. CASE Fault /\ GoesTo(j, "stepFailed") /\ damaged' = damaged \cup {j}
  <2>1. JobsShaped' /\ FlightShaped'
    BY <1>3, JobGoes DEF PlanTyped
  <2> QED
    BY <1>3, <2>1, FaultIs DEF PlanTyped, MarksTyped
<1> QED
  BY <1>2, <1>3 DEF Answers

\* What is noted of the trip a worker has read.
LEMMA NotedIs ==
    /\ NotFound \in Noted /\ NotFound.found = FALSE
    /\ \A j \in Job : job[j].doc \in Reading => Found(j) \in Noted /\ Found(j).found
<1>1. NotFound \in Noted /\ NotFound.found = FALSE
  BY DEF NotFound, Noted
<1>2. ASSUME NEW j \in Job, job[j].doc \in Reading PROVE Found(j) \in Noted /\ Found(j).found
  BY <1>2 DEF Found, Noted, Reading
<1> QED
  BY <1>1, <1>2

\* A worker reads the trip it is going to write.
LEMMA ReadTripTyped == ASSUME PlanTyped, NEW j \in Job, ReadTrip(j) PROVE PlanTyped'
<1> USE DEF PlanTyped
<1> DEFINE t == work[j].trip
<1>1. /\ job[j].at = "call" /\ Worker(j) \in OnTrip
      /\ UNCHANGED <<trips, tasks, work, flight, faults, before, overlapped, damaged>>
  BY DEF ReadTrip, Called, At, OnTrip
<1>2. \A w \in flight : w.by = j => w.by = NoJob
  BY <1>1, NothingUnderWay
<1> SUFFICES JobsShaped' /\ FlightShaped'
  BY <1>1 DEF TripsTyped, TasksTyped, WorkTyped, BeforeTyped, MarksTyped
<1>3. CASE GoesTo(j, "stepFailed")
  BY <1>1, <1>3, JobGoes
<1>4. CASE ~GoesTo(j, "stepFailed") /\ ~Live(t)
  <2>1. Completed(j, NotFound) /\ Worker(j) # "remove"
    BY <1>4 DEF ReadTrip
  <2> QED
    BY <1>1, <1>2, <2>1, NotedIs, CompletedShaped
<1>5. CASE ~GoesTo(j, "stepFailed") /\ Live(t)
  <2> DEFINE doc == [trip |-> trips[t], numbers |-> [k \in Task |-> tasks[k].number]]
  <2>1. /\ job' = [job EXCEPT ![j].at = "write", ![j].doc = doc]
        /\ Worker(j) = "reorder" => trips[t].tasks # <<>>
    BY <1>5 DEF ReadTrip
  <2>2. doc \in Reading /\ (Worker(j) = "reorder" => doc.trip.tasks # <<>>)
    <3>1. trips[t] \in TripDoc
      BY <1>5 DEF Live, TripsTyped
    <3>2. [k \in Task |-> tasks[k].number] \in [Task -> Nat]
      BY DEF TasksTyped, TaskDoc
    <3> QED
      BY <2>1, <3>1, <3>2 DEF Reading
  <2> HIDE DEF doc
  <2>3. Shaped(work[j], job[j])
    BY DEF JobsShaped
  <2>4. /\ DOMAIN job' = Job /\ \A i \in Job \ {j} : job'[i] = job[i]
        /\ DOMAIN job'[j] = DOMAIN job[j]
        /\ job'[j].at = "write" /\ job'[j].step = job[j].step
        /\ job'[j].doc = doc /\ job'[j].out = job[j].out
    BY <2>1, <2>3 DEF JobsShaped, Shaped
  <2>5. Shaped(work[j], job'[j])
    BY <1>1, <2>2, <2>3, <2>4 DEF Shaped, Worker
  <2> QED
    BY <1>1, <1>2, <2>4, <2>5, OneJob
<1> QED
  BY <1>3, <1>4, <1>5

\* The trip a worker has read, and its tasks.
LEMMA ReadIs ==
    ASSUME PlanTyped, NEW j \in Job, job[j].at \in {"write", "number"}, Worker(j) \in OnTrip
    PROVE  /\ job[j].doc \in Reading /\ job[j].doc.trip \in TripDoc
           /\ job[j].doc.trip.tasks \in Seq(Task)
           /\ Worker(j) = "reorder" => job[j].doc.trip.tasks # <<>>
           /\ Found(j) \in Noted /\ Found(j).found
<1>1. job[j].doc \in Reading /\ (Worker(j) = "reorder" => job[j].doc.trip.tasks # <<>>)
  BY AtStep
<1>2. job[j].doc.trip \in TripDoc
  BY <1>1 DEF Reading
<1> QED
  BY <1>1, <1>2, NotedIs DEF TripDoc

\* Tasks and window of a trip are changed.
LEMMA TripRewritten ==
    ASSUME TripsTyped, NEW t, NEW ks \in Seq(Task), NEW window \in Slot, NEW done \in BOOLEAN,
           \/ trips' = [trips EXCEPT ![t].tasks = ks, ![t].window = window, ![t].done = done]
           \/ trips' = [trips EXCEPT ![t].tasks = ks, ![t].window = window]
           \/ trips' = [trips EXCEPT ![t].tasks = ks, ![t].done = done, ![t].window = window]
           \/ \E deleted \in BOOLEAN : trips' = [trips EXCEPT ![t].deleted = deleted]
           \/ trips' = trips
    PROVE  TripsTyped'
<1>1. /\ DOMAIN trips' = DOMAIN trips
      /\ trips' = [u \in DOMAIN trips |-> trips'[u]]
      /\ \A u \in DOMAIN trips \ {t} : trips'[u] = trips[u]
  BY DEF TripsTyped
<1>2. ASSUME t \in DOMAIN trips PROVE trips'[t] \in TripDoc
  <2>1. trips[t] \in TripDoc
    BY <1>2 DEF TripsTyped
  <2> QED
    BY <1>2, <2>1 DEF TripDoc
<1> QED
  BY <1>1, <1>2, TripChanged

\* removeTaskFromTrip writes the trip without the task.
LEMMA RemoveTyped == ASSUME PlanTyped, NEW j \in Job, RemoveTaskFromTrip(j) PROVE PlanTyped'
<1> USE DEF PlanTyped
<1>1. /\ job[j].at = "write" /\ Worker(j) = "remove" /\ Answers(j, Found(j))
      /\ UNCHANGED <<tasks, work, flight, before, overlapped>>
  BY DEF RemoveTaskFromTrip, Writing, At
<1>2. /\ job[j].doc.trip \in TripDoc /\ job[j].doc.trip.tasks \in Seq(Task)
      /\ Found(j) \in Noted /\ Found(j).found
  BY <1>1, ReadIs DEF OnTrip
<1>3. JobsShaped' /\ FlightShaped' /\ MarksTyped'
  BY <1>1, <1>2, AnswersTyped
<1>4. Rest(j) \in Seq(Task)
  BY <1>2, ByWindowIs DEF Rest
<1> DEFINE t == work[j].trip
           ks == Rest(j)
           done == job[j].doc.trip.done \/ ToSet(Rest(j)) \cap Open = {}
<1>5. TripsTyped'
  <2>1. CASE ks = <<>>
    <3>1. trips' = [trips EXCEPT ![t].deleted = TRUE]
      BY <2>1 DEF RemoveTaskFromTrip
    <3>2. <<>> \in Seq(Task) /\ TRUE \in BOOLEAN /\ job[j].doc.trip.window \in Slot
      BY <1>2 DEF TripDoc
    <3> QED
      BY <3>1, <3>2, TripRewritten
  <2>2. CASE ks # <<>>
    <3>1. trips' = [trips EXCEPT ![t].tasks = ks, ![t].window = Hull(ks), ![t].done = done]
      BY <2>2 DEF RemoveTaskFromTrip
    <3>2. done \in BOOLEAN /\ Hull(ks) \in Slot
      BY <1>2, <1>4, <2>2, HullIs DEF TripDoc
    <3> HIDE DEF done, ks, t
    <3> QED
      BY <3>1, <3>2, <1>4, TripRewritten DEF ks
  <2> QED
    BY <2>1, <2>2
<1> QED
  BY <1>1, <1>3, <1>5 DEF TasksTyped, WorkTyped, BeforeTyped

\* reorderTaskSequenceInTrip writes the trip with its tasks by their windows.
LEMMA ReorderTyped == ASSUME PlanTyped, NEW j \in Job, ReorderTaskSequenceInTrip(j) PROVE PlanTyped'
<1> USE DEF PlanTyped
<1>1. /\ job[j].at = "write" /\ Worker(j) = "reorder" /\ Answers(j, Found(j))
      /\ UNCHANGED <<tasks, work, flight, before, overlapped>>
  BY DEF ReorderTaskSequenceInTrip, Writing, At
<1> DEFINE t == work[j].trip
           read == job[j].doc.trip.tasks
           ks == ByWindow(read, Task)
<1>2. read \in Seq(Task) /\ read # <<>> /\ Found(j) \in Noted /\ Found(j).found
  BY <1>1, ReadIs DEF OnTrip
<1>3. JobsShaped' /\ FlightShaped' /\ MarksTyped'
  BY <1>1, <1>2, AnswersTyped
<1>4. trips' = [trips EXCEPT ![t].tasks = ks, ![t].window = Hull(ks)] \/ trips' = trips
  BY DEF ReorderTaskSequenceInTrip
<1> HIDE DEF read, t
<1>5. ks \in Seq(Task) /\ ToSet(ks) = ToSet(read) \cap Task
  BY <1>2, ByWindowIs
<1>6. read[1] \in ToSet(read) \cap Task
  BY <1>2 DEF ToSet
<1>7. ks # <<>>
  BY <1>5, <1>6 DEF ToSet
<1> HIDE DEF ks
<1>8. Hull(ks) \in Slot
  BY <1>5, <1>7, HullIs
<1>9. TripsTyped'
  <2>1. TRUE \in BOOLEAN
    OBVIOUS
  <2> QED
    BY <1>4, <1>5, <1>8, <2>1, TripRewritten
<1> QED
  BY <1>1, <1>3, <1>9 DEF TasksTyped, WorkTyped, BeforeTyped

\* setTaskSequenceSystemByTrip sends one write for each task.
LEMMA NumberTyped == ASSUME PlanTyped, NEW j \in Job, SetTaskSequenceSystemByTrip(j) PROVE PlanTyped'
<1> USE DEF PlanTyped
<1> DEFINE read == job[j].doc.trip.tasks
           sorted == ByWindow(read, Task)
           number == [k \in ToSet(sorted) |-> CHOOSE i \in DOMAIN sorted : sorted[i] = k]
<1>1. /\ job[j].at = "write" /\ Worker(j) = "number" /\ GoesTo(j, "number")
      /\ UNCHANGED <<trips, tasks, work, faults, before, overlapped, damaged>>
      /\ flight' = flight \cup Numbering(j, number)
  BY DEF SetTaskSequenceSystemByTrip, Writing, At
<1>2. read \in Seq(Task) /\ job[j].doc \in Reading
  BY <1>1, ReadIs DEF OnTrip
<1>3. sorted \in Seq(Task) /\ ToSet(sorted) = ToSet(read) \cap Task
  BY <1>2, ByWindowIs
<1>4. ToSet(read) \subseteq Task
  BY <1>2 DEF ToSet
<1> HIDE DEF sorted
<1>5. \A k \in ToSet(read) : number[k] \in Nat
  <2> SUFFICES ASSUME NEW k \in ToSet(read) PROVE number[k] \in Nat
    OBVIOUS
  <2>1. k \in ToSet(sorted)
    BY <1>3, <1>4
  <2>2. \E i \in DOMAIN sorted : sorted[i] = k
    BY <2>1 DEF ToSet
  <2>3. number[k] \in DOMAIN sorted
    BY <2>1, <2>2
  <2>4. DOMAIN sorted \subseteq Nat
    BY <1>3
  <2> QED
    BY <2>3, <2>4
<1> HIDE DEF number
<1>6. \A w \in Numbering(j, number) : w \in WriteDoc /\ w.by = j
  BY <1>4, <1>5 DEF Numbering, WriteDoc
<1>7. Shaped(work[j], job[j])
  BY DEF JobsShaped
<1>8. /\ DOMAIN job' = Job /\ \A i \in Job \ {j} : job'[i] = job[i]
      /\ DOMAIN job'[j] = DOMAIN job[j]
      /\ job'[j].at = "number" /\ job'[j].step = job[j].step
      /\ job'[j].doc = job[j].doc /\ job'[j].out = job[j].out
  BY <1>1, <1>7 DEF GoesTo, JobsShaped, Shaped
<1>9. Shaped(work[j], job'[j])
  BY <1>1, <1>7, <1>8 DEF Shaped, Worker
<1>10. JobsShaped' /\ FlightShaped'
  <2>1. \A w \in flight' : w \in flight \/ (w \in WriteDoc /\ w.by \in {j, NoJob})
    BY <1>1, <1>6
  <2> QED
    BY <1>1, <1>8, <1>9, <2>1, OneJob
<1> QED
  BY <1>1, <1>10 DEF TripsTyped, TasksTyped, WorkTyped, BeforeTyped, MarksTyped

\* It answers when all of them have landed.
LEMMA NumberedTyped == ASSUME PlanTyped, NEW j \in Job, TasksAreNumbered(j) PROVE PlanTyped'
<1> USE DEF PlanTyped
<1>1. /\ job[j].at = "number" /\ Completed(j, Found(j)) /\ ~\E w \in flight : w.by = j
      /\ UNCHANGED <<trips, tasks, work, flight, faults, before, overlapped, damaged>>
  BY DEF TasksAreNumbered, At
<1>2. Worker(j) = "number"
  BY <1>1, AtStep
<1>3. Found(j) \in Noted
  BY <1>1, <1>2, ReadIs DEF OnTrip
<1>4. JobsShaped' /\ FlightShaped'
  BY <1>1, <1>2, <1>3, CompletedShaped
<1> QED
  BY <1>1, <1>4 DEF TripsTyped, TasksTyped, WorkTyped, BeforeTyped, MarksTyped

\* A worker whose answer notes nothing: it changes no trip.
LEMMA PlainStepTyped ==
    ASSUME PlanTyped, NEW j \in Job, Answers(j, NotFound), job[j].at \in {"call", "write"},
           Worker(j) # "remove", TasksTyped',
           UNCHANGED <<trips, work, flight, before, overlapped>>
    PROVE  PlanTyped'
<1>1. JobsShaped' /\ FlightShaped' /\ MarksTyped'
  BY NotedIs, AnswersTyped
<1> QED
  BY <1>1 DEF PlanTyped, TripsTyped, WorkTyped, BeforeTyped

\* The workers that change the task, the staff or the todos.
LEMMA OtherWorkersTyped ==
    ASSUME PlanTyped, NEW j \in Job,
           AssignStaffToTasks(j) \/ DeleteTodosByTask(j) \/ DeleteTaskById(j)
    PROVE  PlanTyped'
<1>1. /\ job[j].at \in {"call", "write"} /\ Worker(j) # "remove" /\ Answers(j, NotFound)
      /\ UNCHANGED <<trips, work, flight, before, overlapped>>
  BY DEF AssignStaffToTasks, DeleteTodosByTask, DeleteTaskById, Called, Writing, At
<1>2. work[j].staff \in Driver
  <2>1. work[j].kind = "saga"
    BY <1>1, AtStep
  <2> QED
    BY <2>1, WorkIs DEF PlanTyped
<1>3. TasksTyped'
  <2>1. CASE AssignStaffToTasks(j)
    BY <2>1, <1>2 DEF AssignStaffToTasks, PlanTyped, TasksTyped, TaskDoc
  <2>2. CASE DeleteTodosByTask(j)
    BY <2>2 DEF DeleteTodosByTask, PlanTyped, TasksTyped, TaskDoc
  <2>3. CASE DeleteTaskById(j)
    BY <2>3 DEF DeleteTaskById, PlanTyped, TasksTyped, TaskDoc
  <2> QED
    BY <2>1, <2>2, <2>3
<1> QED
  BY <1>1, <1>3, PlainStepTyped

\* A step of another worker of the saga.
LEMMA OtherTyped == ASSUME PlanTyped, NEW j \in Job, OtherStep(j) PROVE PlanTyped'
<1>1. /\ job[j].at = "call" /\ Worker(j) # "remove" /\ Completed(j, NotFound)
      /\ UNCHANGED <<trips, tasks, work, flight, faults, before, overlapped, damaged>>
  BY DEF OtherStep, Called, At
<1>2. Answers(j, NotFound)
  BY <1>1 DEF Answers
<1>3. TasksTyped'
  BY <1>1 DEF PlanTyped, TasksTyped
<1> QED
  BY <1>1, <1>2, <1>3, PlainStepTyped

\* Steps that only move a saga on.
LEMMA MovesTyped ==
    ASSUME PlanTyped, NEW j \in Job,
           ReadTodos(j) \/ StepThrows(j) \/ Again(j) \/ Compensate(j) \/ NothingToRestore(j)
    PROVE  PlanTyped'
<1> USE DEF PlanTyped
<1>1. UNCHANGED <<trips, tasks, work, flight, before, overlapped, damaged>>
  BY DEF ReadTodos, StepThrows, Again, Compensate, NothingToRestore
<1>2. faults' \in 0..MaxFaults
  BY FaultIs DEF ReadTodos, StepThrows, Again, Compensate, NothingToRestore, MarksTyped
<1> SUFFICES JobsShaped' /\ FlightShaped'
  BY <1>1, <1>2 DEF TripsTyped, TasksTyped, WorkTyped, BeforeTyped, MarksTyped
<1>3. CASE ReadTodos(j)
  <2>1. job[j].at = "call" /\ Worker(j) = "deleteTodos"
    BY <1>3 DEF ReadTodos, Called, At
  <2>2. CASE GoesTo(j, "stepFailed")
    BY <1>1, <2>1, <2>2, JobGoes
  <2>3. CASE GoesTo(j, "write")
    <3>1. Shaped(work[j], job[j])
      BY DEF JobsShaped
    <3>2. /\ DOMAIN job' = Job /\ \A i \in Job \ {j} : job'[i] = job[i]
          /\ DOMAIN job'[j] = DOMAIN job[j]
          /\ job'[j].at = "write" /\ job'[j].step = job[j].step
          /\ job'[j].doc = job[j].doc /\ job'[j].out = job[j].out
      BY <2>3, <3>1 DEF GoesTo, JobsShaped, Shaped
    <3>3. Shaped(work[j], job'[j])
      BY <2>1, <3>1, <3>2 DEF Shaped, Worker, OnTrip
    <3>4. \A w \in flight : w.by = j => w.by = NoJob
      BY <2>1, NothingUnderWay
    <3> QED
      BY <1>1, <3>2, <3>3, <3>4, OneJob
  <2> QED
    BY <1>3, <2>2, <2>3 DEF ReadTodos
<1>4. CASE StepThrows(j)
  <2>1. job[j].at \in {"call", "write"} /\ GoesTo(j, "stepFailed")
    BY <1>4 DEF StepThrows, At
  <2> QED
    BY <1>1, <2>1, JobGoes
<1>5. CASE Again(j)
  <2>1. job[j].at = "stepFailed" /\ GoesTo(j, "call")
    BY <1>5 DEF Again
  <2> QED
    BY <1>1, <2>1, JobGoes
<1>6. CASE Compensate(j)
  <2>1. job[j].at = "stepFailed"
    BY <1>6 DEF Compensate
  <2>2. CASE job[j].out = <<>>
    <3>1. GoesTo(j, "undone")
      BY <1>6, <2>2 DEF Compensate
    <3> QED
      BY <1>1, <2>1, <3>1, JobGoes DEF Quiet
  <2>3. CASE job[j].out # <<>>
    <3>1. GoesTo(j, "undo")
      BY <1>6, <2>3 DEF Compensate
    <3> QED
      BY <1>1, <2>1, <2>3, <3>1, JobGoes
  <2> QED
    BY <2>2, <2>3
<1>7. CASE NothingToRestore(j)
  <2>1. job[j].at = "undo" /\ GoesTo(j, "broken")
    BY <1>7 DEF NothingToRestore, Undoing, At
  <2> QED
    BY <1>1, <2>1, JobGoes DEF Quiet
<1> QED
  BY <1>3, <1>4, <1>5, <1>6, <1>7

\* What the last worker noted that is not undone yet.
LEMMA OutputIs ==
    ASSUME PlanTyped, NEW j \in Job, job[j].at \in {"undo", "unnumber"}
    PROVE  /\ job[j].out \in Seq(Noted) /\ job[j].out # <<>>
           /\ Len(job[j].out) \in DOMAIN job[j].out
           /\ Output(j) = job[j].out[Len(job[j].out)] /\ Output(j) \in Noted
           /\ work[j].steps[Len(job[j].out)] = "remove" => Output(j).found
           /\ Output(j).found => /\ Output(j).trip \in TripDoc /\ Output(j).trip.tasks \in Seq(Task)
                                 /\ Output(j).numbers \in [Task -> Nat]
<1>1. Shaped(work[j], job[j])
  BY DEF PlanTyped, JobsShaped
<1>2. /\ job[j].out \in Seq(Noted) /\ job[j].out # <<>>
      /\ \A n \in DOMAIN job[j].out : work[j].steps[n] = "remove" => job[j].out[n].found
  BY <1>1 DEF Shaped
<1>3. Len(job[j].out) \in DOMAIN job[j].out /\ job[j].out[Len(job[j].out)] \in Noted
  BY <1>2
<1>4. \A x \in Noted : x.found => x.trip \in TripDoc /\ x.numbers \in [Task -> Nat]
  BY NotedIs DEF Noted
<1>5. \A x \in TripDoc : x.tasks \in Seq(Task)
  BY DEF TripDoc
<1> QED
  BY <1>2, <1>3, <1>4, <1>5 DEF Output, Last

\* A compensation that is done leaves its job one step back.
LEMMA CompensatedShaped ==
    ASSUME PlanTyped, NEW j \in Job, Compensated(j), job[j].at \in {"undo", "unnumber"},
           UNCHANGED <<work, flight>>, \A w \in flight : w.by = j => w.by = NoJob
    PROVE  JobsShaped' /\ FlightShaped'
<1> DEFINE out == job[j].out
           less == Front(out)
<1>1. Shaped(work[j], job[j]) /\ JobsShaped /\ FlightShaped
  BY DEF PlanTyped, JobsShaped
<1>2. /\ out \in Seq(Noted) /\ out # <<>> /\ Len(out) < job[j].step /\ job[j].step \in Nat
      /\ \A n \in DOMAIN out : work[j].steps[n] = "remove" => out[n].found
  BY <1>1, OutputIs DEF Shaped
<1>3. /\ DOMAIN job' = Job /\ \A i \in Job \ {j} : job'[i] = job[i]
      /\ DOMAIN job'[j] = DOMAIN job[j]
      /\ job'[j].at = IF Len(out) = 1 THEN "undone" ELSE "undo"
      /\ job'[j].step = job[j].step
      /\ job'[j].doc = job[j].doc /\ job'[j].out = less
  BY <1>1 DEF Compensated, JobsShaped, Shaped
<1> HIDE DEF out
<1>4. /\ less \in Seq(Noted) /\ Len(less) = Len(out) - 1
      /\ \A n \in DOMAIN less : n \in DOMAIN out /\ less[n] = out[n]
  <2>1. Len(out) \in Nat /\ Len(out) >= 1
    BY <1>2
  <2>2. less = [n \in 1..(Len(out) - 1) |-> out[n]]
    BY <2>1 DEF Front, SubSeq
  <2> QED
    BY <1>2, <2>1, <2>2
<1>5. Len(out) \in Nat /\ (Len(out) # 1 => less # <<>>)
  BY <1>2, <1>4
<1> HIDE DEF less
<1>6. \A n \in DOMAIN less : work[j].steps[n] = "remove" => less[n].found
  BY <1>2, <1>4
<1>7. job'[j].at \in {"undone", "undo"} /\ (job'[j].at = "undo" => less # <<>>)
  BY <1>3, <1>5
<1>8. Len(less) < job[j].step
  BY <1>2, <1>4, <1>5
<1>9. DOMAIN job'[j] = {"at", "step", "doc", "out"}
  BY <1>1, <1>3 DEF Shaped
<1>10. Shaped(work[j], job'[j])
  BY <1>2, <1>3, <1>4, <1>6, <1>7, <1>8, <1>9 DEF Shaped
<1> QED
  BY <1>1, <1>3, <1>10, OneJob

\* A compensation is done, or throws.
LEMMA CompensationTyped ==
    ASSUME PlanTyped, NEW j \in Job, job[j].at = "undo",
           (Compensated(j) /\ UNCHANGED faults) \/ CompensationThrows(j),
           UNCHANGED <<work, flight, overlapped, damaged>>
    PROVE  JobsShaped' /\ FlightShaped' /\ MarksTyped'
<1>1. CASE Compensated(j) /\ UNCHANGED faults
  <2>1. \A w \in flight : w.by = j => w.by = NoJob
    BY NothingUnderWay DEF PlanTyped
  <2>2. JobsShaped' /\ FlightShaped'
    BY <1>1, <2>1, CompensatedShaped
  <2> QED
    BY <1>1, <2>2 DEF PlanTyped, MarksTyped
<1>2. CASE CompensationThrows(j)
  <2>1. PICK place \in {"undo", "broken"} : GoesTo(j, place)
    BY <1>2 DEF CompensationThrows
  <2>2. job[j].out # <<>>
    BY OutputIs
  <2>3. JobsShaped' /\ FlightShaped'
    BY <2>1, <2>2, JobGoes DEF PlanTyped, Quiet
  <2>4. faults' \in 0..MaxFaults
    BY <1>2, FaultIs DEF CompensationThrows, PlanTyped
  <2> QED
    BY <2>3, <2>4 DEF PlanTyped, MarksTyped
<1> QED
  BY <1>1, <1>2

\* The trip is written back as it was noted.
LEMMA RestoreTripTyped ==
    ASSUME PlanTyped, NEW j \in Job, RestoreTrip(j) \/ RestoreSequence(j)
    PROVE  PlanTyped'
<1> USE DEF PlanTyped
<1> DEFINE t == work[j].trip
           old == Output(j).trip
<1>1. /\ job[j].at = "undo" /\ CompensationAnswers(j)
      /\ UNCHANGED <<tasks, work, flight, before, overlapped, damaged>>
  BY DEF RestoreTrip, RestoreSequence, Undoing, At
<1>2. JobsShaped' /\ FlightShaped' /\ MarksTyped'
  BY <1>1, CompensationTyped DEF CompensationAnswers
<1>3. Output(j).found
  BY <1>1, OutputIs DEF RestoreTrip, RestoreSequence, Undoing
<1>4. old \in TripDoc
  BY <1>1, <1>3, OutputIs
<1>5. \/ trips' = [trips EXCEPT ![t].deleted = FALSE]
      \/ trips' = [trips EXCEPT ![t].tasks = old.tasks, ![t].done = old.done,
                                ![t].window = old.window]
      \/ trips' = [trips EXCEPT ![t].tasks = old.tasks, ![t].window = old.window]
      \/ trips' = trips
  BY DEF RestoreTrip, RestoreSequence
<1> HIDE DEF t, old
<1>6. old.tasks \in Seq(Task) /\ old.done \in BOOLEAN /\ old.window \in Slot /\ FALSE \in BOOLEAN
  BY <1>4 DEF TripDoc
<1> DEFINE ks == old.tasks
           done == old.done
           window == old.window
<1>7. /\ ks \in Seq(Task) /\ done \in BOOLEAN /\ window \in Slot
      /\ \/ \E deleted \in BOOLEAN : trips' = [trips EXCEPT ![t].deleted = deleted]
         \/ trips' = [trips EXCEPT ![t].tasks = ks, ![t].done = done, ![t].window = window]
         \/ trips' = [trips EXCEPT ![t].tasks = ks, ![t].window = window]
         \/ trips' = trips
  BY <1>5, <1>6
<1> HIDE DEF ks, done, window
<1>8. TripsTyped'
  <2>0. TripsTyped
    OBVIOUS
  <2>1. CASE \E deleted \in BOOLEAN : trips' = [trips EXCEPT ![t].deleted = deleted]
    BY <1>7, <2>0, <2>1, TripRewritten
  <2>2. CASE trips' = [trips EXCEPT ![t].tasks = ks, ![t].done = done, ![t].window = window]
    BY <1>7, <2>0, <2>2, TripRewritten
  <2>3. CASE trips' = [trips EXCEPT ![t].tasks = ks, ![t].window = window]
    BY <1>7, <2>0, <2>3, TripRewritten
  <2>4. CASE trips' = trips
    BY <1>7, <2>0, <2>4, TripRewritten
  <2> QED
    BY <1>7, <2>1, <2>2, <2>3, <2>4
<1> QED
  BY <1>1, <1>2, <1>8 DEF TasksTyped, WorkTyped, BeforeTyped

\* The numbers are written back, one write for each task.
LEMMA RestoreNumbersTyped ==
    ASSUME PlanTyped, NEW j \in Job, RestoreNumbers(j)
    PROVE  PlanTyped'
<1> USE DEF PlanTyped
<1> DEFINE new == {[by |-> j, op |-> "number", task |-> k, number |-> Output(j).numbers[k]] :
                       k \in ToSet(Output(j).trip.tasks)}
<1>1. /\ job[j].at = "undo" /\ Output(j).found /\ flight' = flight \cup new
      /\ GoesTo(j, "unnumber")
      /\ UNCHANGED <<trips, tasks, work, faults, before, overlapped, damaged>>
  BY DEF RestoreNumbers, Undoing, At
<1>2. /\ Output(j).trip.tasks \in Seq(Task) /\ Output(j).numbers \in [Task -> Nat]
      /\ job[j].out # <<>>
  BY <1>1, OutputIs
<1>3. \A k \in ToSet(Output(j).trip.tasks) : k \in Task /\ Output(j).numbers[k] \in Nat
  BY <1>2 DEF ToSet
<1>4. \A w \in new : w \in WriteDoc /\ w.by = j
  BY <1>3 DEF WriteDoc
<1> HIDE DEF new
<1>5. Shaped(work[j], job[j])
  BY DEF JobsShaped
<1>6. /\ DOMAIN job' = Job /\ \A i \in Job \ {j} : job'[i] = job[i]
      /\ DOMAIN job'[j] = DOMAIN job[j]
      /\ job'[j].at = "unnumber" /\ job'[j].step = job[j].step
      /\ job'[j].doc = job[j].doc /\ job'[j].out = job[j].out
  BY <1>1, <1>5 DEF GoesTo, JobsShaped, Shaped
<1>7. Shaped(work[j], job'[j])
  BY <1>2, <1>5, <1>6 DEF Shaped
<1>8. \A w \in flight' : w \in flight \/ (w \in WriteDoc /\ w.by \in {j, NoJob})
  BY <1>1, <1>4
<1>9. JobsShaped' /\ FlightShaped'
  BY <1>1, <1>6, <1>7, <1>8, OneJob
<1> QED
  BY <1>1, <1>9 DEF TripsTyped, TasksTyped, WorkTyped, BeforeTyped, MarksTyped

\* The other compensations.
LEMMA OtherUndoTyped ==
    ASSUME PlanTyped, NEW j \in Job,
           \/ NumbersAreRestored(j) \/ RestoreStaff(j) \/ RestoreTodos(j) \/ RestoreTask(j)
           \/ UndoOther(j) \/ UndoThrows(j)
    PROVE  PlanTyped'
<1> USE DEF PlanTyped
<1>1. UNCHANGED <<trips, work, flight, before, overlapped, damaged>>
  BY DEF NumbersAreRestored, RestoreStaff, RestoreTodos, RestoreTask, UndoOther, UndoThrows
<1>2. JobsShaped' /\ FlightShaped' /\ MarksTyped'
  <2>1. CASE NumbersAreRestored(j)
    <3>1. job[j].at = "unnumber" /\ ~(\E w \in flight : w.by = j) /\ Compensated(j) /\ UNCHANGED faults
      BY <2>1 DEF NumbersAreRestored, At
    <3>2. JobsShaped' /\ FlightShaped'
      BY <1>1, <3>1, CompensatedShaped
    <3> QED
      BY <1>1, <3>1, <3>2 DEF MarksTyped
  <2>2. CASE ~NumbersAreRestored(j)
    <3>1. job[j].at = "undo"
      BY <2>2 DEF RestoreStaff, RestoreTodos, RestoreTask, UndoOther, UndoThrows, Undoing, At
    <3>2. (Compensated(j) /\ UNCHANGED faults) \/ CompensationThrows(j)
      BY <2>2 DEF RestoreStaff, RestoreTodos, RestoreTask, UndoOther, UndoThrows, CompensationAnswers
    <3> QED
      BY <1>1, <3>1, <3>2, CompensationTyped
  <2> QED
    BY <2>1, <2>2
<1>3. TasksTyped'
  <2>1. CASE UNCHANGED tasks
    BY <2>1 DEF TasksTyped
  <2>2. CASE RestoreStaff(j)
    <3>1. before[j].tasks \in [Task -> TaskDoc]
      BY DEF BeforeTyped
    <3>2. tasks' = [k \in Task |-> IF k \in ToSet(work[j].tasks)
                                   THEN [tasks[k] EXCEPT !.staffs = before[j].tasks[k].staffs,
                                                         !.trip = before[j].tasks[k].trip]
                                   ELSE tasks[k]]
      BY <2>2 DEF RestoreStaff
    <3>3. ASSUME NEW k \in Task PROVE tasks'[k] \in TaskDoc
      <4>1. before[j].tasks[k] \in TaskDoc /\ tasks[k] \in TaskDoc
        BY <3>1 DEF TasksTyped
      <4> QED
        BY <3>2, <4>1 DEF TaskDoc
    <3> QED
      BY <3>2, <3>3 DEF TasksTyped
  <2>3. CASE RestoreTodos(j)
    BY <2>3 DEF RestoreTodos, TasksTyped, TaskDoc
  <2>4. CASE RestoreTask(j)
    BY <2>4 DEF RestoreTask, TasksTyped, TaskDoc
  <2> QED
    BY <2>1, <2>2, <2>3, <2>4 DEF NumbersAreRestored, UndoOther, UndoThrows
<1> QED
  BY <1>1, <1>2, <1>3 DEF TripsTyped, WorkTyped, BeforeTyped

\* A write under way lands.
LEMMA LandTyped == ASSUME PlanTyped, NEW w \in flight, Land(w) PROVE PlanTyped'
<1> USE DEF PlanTyped
<1>1. flight' \subseteq flight /\ UNCHANGED <<trips, work, job, faults, before, overlapped, damaged>>
  BY DEF Land
<1>2. w \in WriteDoc
  BY DEF FlightShaped
<1>3. TasksTyped'
  <2>1. CASE w.op = "number"
    BY <1>2, <2>1 DEF Land, TasksTyped, TaskDoc, WriteDoc
  <2>2. CASE w.op # "number"
    BY <1>2, <2>2 DEF Land, TasksTyped, TaskDoc
  <2> QED
    BY <2>1, <2>2
<1> QED
  BY <1>1, <1>3 DEF TripsTyped, WorkTyped, BeforeTyped, MarksTyped, JobsShaped, FlightShaped

\* A write under way fails.
LEMMA WriteThrowsTyped == ASSUME PlanTyped, NEW w \in flight, WriteThrows(w) PROVE PlanTyped'
<1> USE DEF PlanTyped
<1> DEFINE i == w.by
<1>1. /\ Fault /\ UNCHANGED <<trips, tasks, work, before, overlapped>>
      /\ flight' = {IF v.by = i THEN [v EXCEPT !.by = NoJob] ELSE v : v \in flight \ {w}}
  BY DEF WriteThrows
<1>2. \A v \in WriteDoc : [v EXCEPT !.by = NoJob] \in WriteDoc /\ [v EXCEPT !.by = NoJob].by = NoJob
  BY DEF WriteDoc
<1>3. \A v \in flight' : \/ v \in flight /\ v.by # i
                         \/ v \in WriteDoc /\ v.by = NoJob
  BY <1>1, <1>2 DEF FlightShaped
<1>4. CASE i = NoJob
  <2>1. UNCHANGED <<job, damaged>>
    BY <1>4 DEF WriteThrows
  <2>2. FlightShaped'
    BY <1>3, <2>1 DEF FlightShaped
  <2> QED
    BY <1>1, <2>1, <2>2, FaultIs
    DEF TripsTyped, TasksTyped, WorkTyped, BeforeTyped, MarksTyped, JobsShaped
<1>5. CASE i # NoJob
  <2>1. i \in Job /\ job[i].at \in {"number", "unnumber"}
    BY <1>5 DEF FlightShaped
  <2>2. PICK place \in IF job[i].at = "number" THEN {"stepFailed"} ELSE {"undo", "broken"} :
          GoesTo(i, place)
    BY <1>5 DEF WriteThrows
  <2>3. damaged' = damaged \cup {i}
    BY <1>5 DEF WriteThrows
  <2> HIDE DEF i
  <2>4. Shaped(work[i], job[i])
    BY <2>1 DEF JobsShaped
  <2>5. /\ DOMAIN job' = Job /\ \A k \in Job \ {i} : job'[k] = job[k]
        /\ DOMAIN job'[i] = DOMAIN job[i]
        /\ job'[i].at = place /\ job'[i].step = job[i].step
        /\ job'[i].doc = job[i].doc /\ job'[i].out = job[i].out
    BY <2>1, <2>2, <2>4 DEF GoesTo, JobsShaped, Shaped
  <2>6. Shaped(work[i], job'[i])
    <3>1. CASE place = "stepFailed"
      <4>1. job[i].at = "number"
        BY <2>1, <2>2, <3>1
      <4> QED
        BY <2>4, <2>5, <3>1, <4>1 DEF Shaped
    <3>2. CASE place \in {"undo", "broken"}
      <4>1. job[i].at = "unnumber"
        BY <2>1, <2>2, <3>2
      <4> QED
        BY <2>4, <2>5, <3>2, <4>1 DEF Shaped
    <3> QED
      BY <2>2, <3>1, <3>2
  <2>7. JobsShaped' /\ FlightShaped'
    BY <1>1, <1>3, <2>1, <2>5, <2>6, OneJob
  <2>8. MarksTyped'
    BY <1>1, <2>1, <2>3, FaultIs DEF MarksTyped
  <2> QED
    BY <1>1, <2>7, <2>8 DEF TripsTyped, TasksTyped, WorkTyped, BeforeTyped
<1> QED
  BY <1>4, <1>5

\* Every step, of planning and of calls, keeps documents, jobs and writes in shape.
LEMMA PlanTypedStep == PlanTyped /\ [Next]_vars => PlanTyped'
<1> SUFFICES ASSUME PlanTyped, [Next]_vars PROVE PlanTyped'
  OBVIOUS
<1>1. CASE UNCHANGED planning
  BY <1>1 DEF planning, PlanTyped, TripsTyped, TasksTyped, WorkTyped, JobsShaped, FlightShaped,
              BeforeTyped, MarksTyped
<1>2. ASSUME NEW j \in Job, JobStep(j) PROVE PlanTyped'
  BY <1>2, SubmitTyped, CheckTyped, InsertTyped, UpsertTyped, AddTyped, BindTyped, RequestThrowsTyped,
     ReadTripTyped, RemoveTyped, ReorderTyped, NumberTyped, NumberedTyped, OtherWorkersTyped, OtherTyped,
     MovesTyped, RestoreTripTyped, RestoreNumbersTyped, OtherUndoTyped DEF JobStep
<1>3. ASSUME NEW w \in flight, Land(w) \/ WriteThrows(w) PROVE PlanTyped'
  BY <1>3, LandTyped, WriteThrowsTyped
<1>4. ASSUME NEW c \in Call, CallStep(c) PROVE PlanTyped'
  <2>1. UNCHANGED <<trips, tasks, work, job, flight, before, overlapped, damaged>>
    BY <1>4 DEF CallStep, ReadCache, ReadTripOfStaff, ReadTaskPool, GetAssignTask, ReadThrows, SaveCache,
                SaveCacheThrows, planning
  <2>2. faults' = faults \/ Fault
    BY <1>4 DEF CallStep, ReadCache, ReadTripOfStaff, ReadTaskPool, GetAssignTask, ReadThrows, SaveCache,
                SaveCacheThrows, planning
  <2>3. MarksTyped'
    BY <2>1, <2>2, FaultIs DEF PlanTyped, MarksTyped
  <2> QED
    BY <2>1, <2>3 DEF PlanTyped, TripsTyped, TasksTyped, WorkTyped, JobsShaped, FlightShaped, BeforeTyped
<1> QED
  BY <1>1, <1>2, <1>3, <1>4 DEF Next, PlanningNext, vars

(***************************************************************************)
(* Types: calls, and where what they give away comes from.                 *)
(***************************************************************************)
\* What a call reads of the trip of a driver: none, or a trip document.
TripRead(trip) == trip = <<>> \/ \E doc \in TripDoc : trip = <<doc>>

\* The task was in the pool and fitted into a slot the driver had.
GivenRight(c, g) ==
    LET staff == asked[c][g.number]
    IN  /\ g.number \in DOMAIN asked[c] /\ g.task \in Pool /\ TripRead(g.trip)
        /\ \E slot \in ToSet(SlotsOf(staff, g.trip)) :
            /\ Fits(g.task, slot, staff.now)
            /\ g.window = WindowTime(g.task, staff.now, StartTime(staff.now, slot))

\* The drivers a call asks for, with shifts in parts that are apart.
AskedTyped ==
    /\ asked \in [Call -> Seq(StaffDoc)]
    /\ \A c \in Call : \A n \in DOMAIN asked[c] :
        /\ asked[c][n].shift \in Seq(Span) /\ Apart(asked[c][n].shift)
        /\ asked[c][n].reserved \in Seq(Span)

\* A call is at a driver it asks for, and what it gave away was given right.
CallTyped(c) ==
    /\ call[c].next \in 1..(Len(asked[c]) + 1)
    /\ call[c].at = "ready" => call[c].next = 1
    /\ call[c].at \in {"trip", "pool", "distances"} => call[c].next \in DOMAIN asked[c]
    /\ call[c].current = {g.task : g \in call[c].given}
    /\ call[c].pool \subseteq Pool
    /\ TripRead(call[c].trip)
    /\ \A g \in call[c].given : GivenRight(c, g)

\* Together: the calls have their shape.
CallsTyped == AskedTyped /\ (\A c \in Call : CallTyped(c)) /\ cache \subseteq Pool

\* So they have before any of them begins.
LEMMA CallsTypedInit == Init => CallsTyped
<1> SUFFICES ASSUME Init PROVE CallsTyped
  OBVIOUS
<1>1. PICK case \in Cases :
        trips = case.trips /\ tasks = case.tasks /\ work = case.work /\ asked = case.asked
  BY DEF Init
<1>2. asked \in [Call -> Seq(StaffDoc)]
  BY <1>1, AssignAssumption
<1>3. ASSUME NEW c \in Call, NEW n \in DOMAIN asked[c]
      PROVE  /\ asked[c][n].shift \in Seq(Span) /\ Apart(asked[c][n].shift)
             /\ asked[c][n].reserved \in Seq(Span)
  <2> DEFINE staff == asked[c][n]
  <2>1. staff \in StaffDoc
    BY <1>2
  <2>2. staff.shift \in Seq(Slot) /\ staff.reserved \in Seq(Slot)
    BY <2>1 DEF StaffDoc
  <2>3. /\ \A s \in ToSet(staff.shift) \cup ToSet(staff.reserved) : s.start < s.end
        /\ \A i, m \in DOMAIN staff.shift : i # m => Disjoint(staff.shift[i], staff.shift[m])
    BY <1>1, AssignAssumption
  <2> HIDE DEF staff
  <2>4. \A i \in DOMAIN staff.shift : staff.shift[i] \in Span
    BY <2>2, <2>3 DEF ToSet, Span
  <2>5. \A i \in DOMAIN staff.reserved : staff.reserved[i] \in Span
    BY <2>2, <2>3 DEF ToSet, Span
  <2>6. staff.shift \in Seq(Span) /\ staff.reserved \in Seq(Span)
    BY <2>2, <2>4, <2>5
  <2> QED
    BY <2>3, <2>6 DEF staff, Apart
<1>4. AskedTyped
  BY <1>2, <1>3 DEF AskedTyped
<1>5. ASSUME NEW c \in Call PROVE CallTyped(c)
  <2>1. call[c] = NotCalled
    BY <1>5 DEF Init, AssigningInit
  <2>2. Len(asked[c]) \in Nat
    BY <1>2
  <2> QED
    BY <2>1, <2>2 DEF NotCalled, CallTyped, TripRead
<1> QED
  BY <1>4, <1>5 DEF CallsTyped, Init, AssigningInit

\* A call keeps what it has worked out until it is over with a driver.
LEMMA CallMoves ==
    ASSUME CallsTyped, NEW c \in Call, UNCHANGED asked, cache' \subseteq Pool,
           \A d \in Call \ {c} : call'[d] = call[d],
           CallTyped(c)'
    PROVE  CallsTyped'
<1>1. AskedTyped'
  BY DEF CallsTyped, AskedTyped
<1>2. \A d \in Call : CallTyped(d)'
  <2> SUFFICES ASSUME NEW d \in Call, d # c PROVE CallTyped(d)'
    OBVIOUS
  <2>1. CallTyped(d) /\ call'[d] = call[d] /\ asked' = asked
    BY DEF CallsTyped
  <2> QED
    BY <2>1 DEF CallTyped, GivenRight
<1> QED
  BY <1>1, <1>2 DEF CallsTyped

\* The cache is read.
LEMMA ReadCacheTyped ==
    ASSUME CallsTyped, Shape, NEW c \in Call, ReadCache(c)
    PROVE  CallsTyped'
<1>1. /\ call[c].at = "ready" /\ asked[c] # <<>> /\ UNCHANGED <<asked, cache>>
      /\ call' = [call EXCEPT ![c].at = "trip", ![c].seen = cache]
  BY DEF ReadCache
<1>2. /\ \A d \in Call \ {c} : call'[d] = call[d]
      /\ call'[c].at = "trip" /\ call'[c].next = call[c].next /\ call'[c].current = call[c].current
      /\ call'[c].pool = call[c].pool /\ call'[c].trip = call[c].trip /\ call'[c].given = call[c].given
  BY <1>1 DEF Shape, Fields
<1>3. CallTyped(c) /\ asked[c] \in Seq(StaffDoc)
  BY DEF CallsTyped, AskedTyped
<1>4. call[c].next \in DOMAIN asked[c]
  BY <1>1, <1>3 DEF CallTyped
<1>5. CallTyped(c)'
  BY <1>1, <1>2, <1>3, <1>4 DEF CallTyped, GivenRight
<1> QED
  BY <1>1, <1>2, <1>5, CallMoves DEF CallsTyped

\* The trip of the driver is read.
LEMMA ReadTripOfStaffTyped ==
    ASSUME CallsTyped, Shape, TripsTyped, NEW c \in Call, ReadTripOfStaff(c)
    PROVE  CallsTyped'
<1>1. call[c].at = "trip" /\ UNCHANGED <<asked, cache>>
  BY DEF ReadTripOfStaff
<1>2. PICK trip : call' = [call EXCEPT ![c].at = "pool", ![c].trip = trip] /\ TripRead(trip)
  <2>1. \A t \in DOMAIN trips : trips[t] \in TripDoc
    BY DEF TripsTyped
  <2> QED
    BY <2>1 DEF ReadTripOfStaff, TripRead
<1>3. /\ \A d \in Call \ {c} : call'[d] = call[d]
      /\ call'[c].at = "pool" /\ call'[c].next = call[c].next /\ call'[c].current = call[c].current
      /\ call'[c].pool = call[c].pool /\ call'[c].trip = trip /\ call'[c].given = call[c].given
  BY <1>2 DEF Shape, Fields
<1>4. CallTyped(c)
  BY DEF CallsTyped
<1>5. CallTyped(c)'
  BY <1>1, <1>2, <1>3, <1>4 DEF CallTyped, GivenRight
<1> QED
  BY <1>1, <1>3, <1>5, CallMoves DEF CallsTyped

\* After a driver comes the next, or the end.
LEMMA OnwardIs ==
    ASSUME CallsTyped, NEW c \in Call, call[c].at \in {"trip", "pool", "distances"}
    PROVE  /\ call[c].next \in DOMAIN asked[c] /\ call[c].next + 1 \in 1..(Len(asked[c]) + 1)
           /\ Onward(c) \in {"trip", "save"}
           /\ Onward(c) = "trip" => call[c].next + 1 \in DOMAIN asked[c]
           /\ Staff(c) \in StaffDoc
<1>1. asked[c] \in Seq(StaffDoc) /\ call[c].next \in DOMAIN asked[c]
  BY DEF CallsTyped, AskedTyped, CallTyped
<1> QED
  BY <1>1 DEF Onward, Staff

\* A driver is skipped.
LEMMA SkipTyped ==
    ASSUME CallsTyped, Shape, NEW c \in Call, SkipStaff(c),
           call[c].at \in {"trip", "pool", "distances"}, UNCHANGED <<asked, cache>>
    PROVE  CallsTyped'
<1>1. call' = [call EXCEPT ![c].at = Onward(c), ![c].next = @ + 1]
  BY DEF SkipStaff
<1>2. /\ \A d \in Call \ {c} : call'[d] = call[d]
      /\ call'[c].at = Onward(c) /\ call'[c].next = call[c].next + 1
      /\ call'[c].current = call[c].current
      /\ call'[c].pool = call[c].pool /\ call'[c].trip = call[c].trip /\ call'[c].given = call[c].given
  BY <1>1 DEF Shape, Fields
<1>3. CallTyped(c)
  BY DEF CallsTyped
<1>4. CallTyped(c)'
  BY <1>2, <1>3, OnwardIs DEF CallTyped, GivenRight
<1> QED
  BY <1>2, <1>4, CallMoves DEF CallsTyped

\* The pool of tasks is read.
LEMMA ReadPoolTyped ==
    ASSUME CallsTyped, Shape, NEW c \in Call, ReadTaskPool(c)
    PROVE  CallsTyped'
<1> DEFINE found == GetUnassignedTasksFromTaskPool(Staff(c), SlotsOf(Staff(c), call[c].trip))
<1>1. call[c].at = "pool" /\ UNCHANGED <<asked, cache>>
  BY DEF ReadTaskPool
<1>2. found \subseteq Pool
  BY DEF GetUnassignedTasksFromTaskPool
<1>3. SkipStaff(c) \/ call' = [call EXCEPT ![c].at = "distances", ![c].pool = found]
  BY DEF ReadTaskPool
<1> HIDE DEF found
<1>4. CASE SkipStaff(c)
  BY <1>1, <1>4, SkipTyped
<1>5. CASE call' = [call EXCEPT ![c].at = "distances", ![c].pool = found]
  <2>1. /\ \A d \in Call \ {c} : call'[d] = call[d]
        /\ call'[c].at = "distances" /\ call'[c].next = call[c].next
        /\ call'[c].current = call[c].current
        /\ call'[c].pool = found /\ call'[c].trip = call[c].trip /\ call'[c].given = call[c].given
    BY <1>5 DEF Shape, Fields
  <2>2. CallTyped(c)
    BY DEF CallsTyped
  <2>3. CallTyped(c)'
    BY <1>1, <1>2, <2>1, <2>2 DEF CallTyped, GivenRight
  <2> QED
    BY <1>1, <2>1, <2>3, CallMoves DEF CallsTyped
<1> QED
  BY <1>3, <1>4, <1>5

\* A task is given to the driver: it was in the pool that was read, and fits into a
\* slot of his (getAssignTask).
LEMMA GiveTyped ==
    ASSUME CallsTyped, Shape, NEW c \in Call, GetAssignTask(c)
    PROVE  CallsTyped'
<1>1. call[c].at = "distances" /\ UNCHANGED <<asked, cache>>
  BY DEF GetAssignTask
<1>2. CASE SkipStaff(c)
  BY <1>1, <1>2, SkipTyped
<1>3. CASE ~SkipStaff(c)
  <2> DEFINE staff == Staff(c)
             trip == call[c].trip
             slots == SlotsOf(staff, trip)
             choices == Fitting(call[c].pool, slots, staff.now, call[c].current \cup call[c].seen)
             Given(p) == [number |-> call[c].next, task |-> p[1], trip |-> call[c].trip,
                          window |-> WindowTime(p[1], Staff(c).now,
                                                StartTime(Staff(c).now, slots[p[2]]))]
  <2>1. PICK p \in choices :
          call' = [call EXCEPT ![c].at = Onward(c), ![c].next = @ + 1,
                               ![c].current = @ \cup {p[1]},
                               ![c].given = @ \cup {Given(p)}]
    BY <1>3 DEF GetAssignTask
  <2> DEFINE g == Given(p)
             slot == slots[p[2]]
  <2>2. p[1] \in call[c].pool /\ p[2] \in DOMAIN slots /\ Fits(p[1], slots[p[2]], staff.now)
    BY DEF Fitting
  <2>3. CallTyped(c)
    BY DEF CallsTyped
  <2>4. slot \in ToSet(slots)
    BY <2>2 DEF ToSet
  <2>5. /\ g.number = call[c].next /\ g.task = p[1] /\ g.trip = trip
        /\ g.window = WindowTime(p[1], staff.now, StartTime(staff.now, slot))
    OBVIOUS
  <2>6. asked[c][call[c].next] = staff /\ call[c].next \in DOMAIN asked[c]
    BY <1>1, OnwardIs DEF Staff
  <2>7. p[1] \in Pool /\ TripRead(trip)
    BY <2>2, <2>3 DEF CallTyped
  <2> HIDE DEF Given, g, choices
  <2>8. GivenRight(c, g)
    <3>1. asked[c][g.number] = staff /\ SlotsOf(staff, g.trip) = slots
      BY <2>5, <2>6
    <3> HIDE DEF slots, staff, slot
    <3> QED
      BY <2>2, <2>4, <2>5, <2>6, <2>7, <3>1 DEF GivenRight, slot
  <2>9. /\ \A d \in Call \ {c} : call'[d] = call[d]
        /\ call'[c].at = Onward(c) /\ call'[c].next = call[c].next + 1
        /\ call'[c].current = call[c].current \cup {g.task}
        /\ call'[c].pool = call[c].pool /\ call'[c].trip = call[c].trip
        /\ call'[c].given = call[c].given \cup {g}
    BY <2>1, <2>5 DEF Shape, Fields, g
  <2>10. CallTyped(c)'
    <3>1. \A h \in call'[c].given : GivenRight(c, h)'
      BY <1>1, <2>3, <2>8, <2>9 DEF CallTyped, GivenRight
    <3>2. call'[c].current = {h.task : h \in call'[c].given}
      BY <2>3, <2>9 DEF CallTyped
    <3> QED
      BY <1>1, <2>3, <2>9, <3>1, <3>2, OnwardIs DEF CallTyped
  <2> QED
    BY <1>1, <2>9, <2>10, CallMoves DEF CallsTyped
<1> QED
  BY <1>2, <1>3

\* The call ends.
LEMMA EndTyped ==
    ASSUME CallsTyped, Shape, NEW c \in Call, SaveCache(c) \/ SaveCacheThrows(c)
    PROVE  CallsTyped'
<1>1. PICK place \in {"answered", "thrown"} : call' = [call EXCEPT ![c].at = place]
  BY DEF SaveCache, Answer, SaveCacheThrows
<1>2. UNCHANGED asked /\ cache' \subseteq cache \cup call[c].current
  BY DEF SaveCache, SaveCacheThrows
<1>3. /\ \A d \in Call \ {c} : call'[d] = call[d]
      /\ call'[c].at = place /\ call'[c].next = call[c].next
      /\ call'[c].current = call[c].current
      /\ call'[c].pool = call[c].pool /\ call'[c].trip = call[c].trip /\ call'[c].given = call[c].given
  BY <1>1 DEF Shape, Fields
<1>4. CallTyped(c)
  BY DEF CallsTyped
<1>5. call[c].current \subseteq Pool
  BY <1>4 DEF CallTyped, GivenRight
<1>6. CallTyped(c)'
  BY <1>2, <1>3, <1>4 DEF CallTyped, GivenRight
<1> QED
  BY <1>2, <1>3, <1>5, <1>6, CallMoves DEF CallsTyped

\* Every step, of planning and of calls, keeps the calls in shape.
LEMMA CallsTypedStep == CallsTyped /\ Shape /\ TripsTyped /\ [Next]_vars => CallsTyped'
<1> SUFFICES ASSUME CallsTyped, Shape, TripsTyped, [Next]_vars PROVE CallsTyped'
  OBVIOUS
<1>1. CASE UNCHANGED assigning
  <2>1. UNCHANGED <<asked, call, cache>>
    BY <1>1 DEF assigning
  <2> QED
    BY <2>1 DEF CallsTyped, AskedTyped, CallTyped, GivenRight
<1>2. ASSUME NEW c \in Call, CallStep(c) PROVE CallsTyped'
  <2>1. CASE ReadThrows(c)
    BY <2>1, SkipTyped DEF ReadThrows
  <2> QED
    BY <1>2, <2>1, ReadCacheTyped, ReadTripOfStaffTyped, ReadPoolTyped, GiveTyped, EndTyped DEF CallStep
<1> QED
  BY <1>1, <1>2 DEF Next, vars

\* Together: the inductive invariant of types and of what was given right.
TypeInv == OnceInv /\ PlanTyped /\ CallsTyped

\* It says that the state has its type.
LEMMA TypeFollows == TypeInv => TypeOK
<1> SUFFICES ASSUME TypeInv PROVE TypeOK
  OBVIOUS
<1>1. \A j \in Job : Len(job[j].out) < job[j].step
  BY DEF TypeInv, PlanTyped, JobsShaped, Shaped
<1> QED
  BY <1>1 DEF TypeInv, PlanTyped, TripsTyped, TasksTyped, MarksTyped, CallsTyped, CallTyped, TypeOK

\* In any situation documents, jobs, writes and calls have their shape, and what a call
\* gave away comes from the pool and from a slot of the driver at that time.
THEOREM TypeInvHolds == Spec => []TypeInv
<1>1. Init => TypeInv
  BY OnceInit, PlanTypedInit, CallsTypedInit DEF TypeInv
<1>2. TypeInv /\ [Next]_vars => TypeInv'
  BY OnceStep, PlanTypedStep, CallsTypedStep DEF TypeInv, OnceInv, PlanTyped
<1> QED
  BY <1>1, <1>2, PTL DEF Spec

\* The state has its type: whatever trip.js, the saga workers and the calls of
\* autoAssignTask do in whatever order, trips and tasks stay documents of theirs.
THEOREM TypeCorrect == Spec => []TypeOK
<1> QED
  BY TypeInvHolds, TypeFollows, PTL

(***************************************************************************)
(* The times that are given.                                               *)
(***************************************************************************)
\* The clock.
LEMMA DayIs == Hour = 4 /\ Day = 96 /\ GMT7 = 28
BY DEF Hour, Day, GMT7

\* The time of the day of a date.
LEMMA ClockOfIs ==
    ASSUME NEW t \in Int
    PROVE  /\ ClockOf(t) \in 0..95 /\ t = 96 * (t \div 96) + ClockOf(t) /\ t \div 96 \in Int
           /\ UTCDay(t) \in Int
           /\ ClockOf(t) >= 28 => t = UTCDay(t) * 96 + ClockOf(t)
           /\ ClockOf(t) < 28 => t = UTCDay(t) * 96 + 96 + ClockOf(t)
BY DEF ClockOf, UTCDay, Hour, Day, GMT7

\* A date made of a day and a time of the day has that time of the day.
LEMMA ClockOfDated ==
    ASSUME NEW d \in Int, NEW t \in 0..95
    PROVE  ClockOf(d * 96 + t) = t
BY DEF ClockOf, Hour, Day

\* Rounding up to the hour (the ceiling of the start).
LEMMA CeilingIs ==
    ASSUME NEW t \in 0..95
    PROVE  /\ CeilingHour(t) \in 0..92
           /\ (CeilingHour(t) + 4) % 96 = 0 \/ (CeilingHour(t) + 4) % 96 = CeilingHour(t) + 4
           /\ t <= CeilingHour(t) \/ (t > 92 /\ CeilingHour(t) = 0)
           /\ CeilingHour(t) % 4 = 0
BY DEF CeilingHour, Hour, Day

\* A time of the clock with a date: the day in UTC begins at seven.
DatedTime(date, t) == date * Day + ((t - GMT7) % Day) + GMT7

\* Where a date lies that is made of a day and a time of the day.
LEMMA DatedIs ==
    ASSUME NEW date \in Int, NEW t \in 0..95
    PROVE  /\ t >= 28 => DatedTime(date, t) = date * 96 + t
           /\ t < 28 => DatedTime(date, t) = date * 96 + 96 + t
           /\ ClockOf(DatedTime(date, t)) = t
BY DEF DatedTime, ClockOf, Hour, Day, GMT7

\* The hour a driver is given begins when he is free and after the call, except
\* that one rounded to midnight begins with the day.
LEMMA StartIs ==
    ASSUME NEW now \in Nat, NEW slot \in Span, NEW k, Fits(k, slot, now)
    PROVE  LET start == StartTime(now, slot) IN
           /\ start \in 0..92 /\ EndTime(start) = start + 4 /\ start + 4 <= slot.end /\ start + 4 <= 95
           /\ start % 4 = 0
           /\ \/ ClockOf(now) <= start /\ slot.start <= start
              \/ start = 0 /\ (ClockOf(now) > 92 \/ slot.start > 92)
<1> DEFINE start == StartTime(now, slot)
           begin == IF slot.start < ClockOf(now) THEN ClockOf(now) ELSE slot.start
           end == EndTime(start)
<1>1. slot.start \in 0..95 /\ slot.end \in 0..95 /\ ClockOf(now) \in 0..95
  <2>1. slot.start \in Clock /\ slot.end \in Clock
    BY SpanIs
  <2>2. slot.start \in 0..95 /\ slot.end \in 0..95
    BY <2>1 DEF Clock, Day, Hour
  <2> QED
    BY <2>2, ClockOfIs
<1>2. begin \in 0..95 /\ ClockOf(now) <= begin /\ slot.start <= begin
      /\ (begin = ClockOf(now) \/ begin = slot.start)
  BY <1>1
<1>3. start = CeilingHour(begin)
  BY DEF StartTime
<1>4. end <= slot.end /\ end \div Hour # 0
  BY DEF Fits
<1>5. end = (start + 4) % 96
  BY DEF EndTime, Hour, Day
<1> HIDE DEF start, begin, end
<1>6. /\ start \in 0..92 /\ (end = 0 \/ end = start + 4)
      /\ begin <= start \/ (begin > 92 /\ start = 0)
      /\ start % 4 = 0
  BY <1>2, <1>3, <1>5, CeilingIs
<1>7. end # 0
  <2> SUFFICES ASSUME end = 0 PROVE FALSE
    OBVIOUS
  <2>1. 0 \div Hour = 0
    BY DEF Hour
  <2> QED
    BY <1>4, <2>1
<1>8. end = start + 4 /\ start + 4 <= slot.end /\ start + 4 <= 95
  BY <1>1, <1>4, <1>6, <1>7
<1>9. \/ ClockOf(now) <= start /\ slot.start <= start
      \/ start = 0 /\ (ClockOf(now) > 92 \/ slot.start > 92)
  BY <1>1, <1>2, <1>6
<1> QED
  BY <1>6, <1>8, <1>9 DEF start, end

\* The times it is given with.
LEMMA WindowIs ==
    ASSUME NEW now \in Nat, NEW slot \in Span, NEW k, Fits(k, slot, now), k \notin Appointed
    PROVE  LET start == StartTime(now, slot)
               date == UTCDay(now) + (IF ClockOf(now) < GMT7 /\ start >= GMT7 THEN 1 ELSE 0)
               window == WindowTime(k, now, start)
           IN  /\ window.start = DatedTime(date, start) /\ window.end = DatedTime(date, start + 4)
               /\ ClockOf(window.start) = start /\ ClockOf(window.end) = start + 4
               /\ date \in Int
<1> DEFINE start == StartTime(now, slot)
           date == UTCDay(now) + (IF ClockOf(now) < GMT7 /\ start >= GMT7 THEN 1 ELSE 0)
           window == WindowTime(k, now, start)
<1>1. start \in 0..92 /\ EndTime(start) = start + 4
  BY StartIs
<1>6. start + 4 <= 95
  BY StartIs
<1>2. date \in Int
  BY ClockOfIs
<1>3. window = [start |-> DatedTime(date, start), end |-> DatedTime(date, EndTime(start))]
  BY DEF WindowTime, DatedTime
<1> HIDE DEF start, date, window
<1>4. window.start = DatedTime(date, start) /\ window.end = DatedTime(date, start + 4)
  BY <1>1, <1>3
<1>5. ClockOf(window.start) = start /\ ClockOf(window.end) = start + 4
  <2> DEFINE end == start + 4
  <2>1. start \in 0..95 /\ end \in 0..95
    BY <1>1, <1>6
  <2>2. window.end = DatedTime(date, end)
    BY <1>4
  <2> HIDE DEF end
  <2>3. ClockOf(DatedTime(date, start)) = start /\ ClockOf(DatedTime(date, end)) = end
    BY <1>2, <2>1, DatedIs
  <2> QED
    BY <1>4, <2>2, <2>3 DEF end
<1> QED
  BY <1>2, <1>4, <1>5 DEF start, date, window

\* The hour begins after the call and ends before the deadline, but for the early hours
\* of the day and for an hour rounded to midnight.
LEMMA InTime ==
    ASSUME NEW now \in Nat, NEW slot \in Span, NEW k \in Task, Fits(k, slot, now), k \notin Appointed
    PROVE  LET window == WindowTime(k, now, StartTime(now, slot))
               rounded == ClockOf(window.start) = 0 /\ (ClockOf(now) > 92 \/ slot.start > 92)
           IN  /\ now <= window.start \/ (EarlyHours(now) /\ rounded)
               /\ \/ window.end = window.start + Hour
                  \/ EarlyHours(now) /\ ClockOf(window.end) = GMT7
               /\ window.end <= Due[k] \/ EarlyHours(now) \/ rounded
<1> DEFINE start == StartTime(now, slot)
           date == UTCDay(now) + (IF ClockOf(now) < 28 /\ start >= 28 THEN 1 ELSE 0)
           window == WindowTime(k, now, start)
           due == Due[k]
           clock == ClockOf(now)
           late == clock > 92 \/ slot.start > 92
<1>1. /\ window.start = DatedTime(date, start) /\ window.end = DatedTime(date, start + 4)
      /\ ClockOf(window.start) = start /\ ClockOf(window.end) = start + 4
      /\ date \in Int
  BY WindowIs, DayIs
<1>2. /\ start \in 0..92 /\ EndTime(start) = start + 4 /\ start + 4 <= 95 /\ start % 4 = 0
      /\ clock <= start \/ (start = 0 /\ late)
  BY StartIs
<1>3. due \in Nat
  BY AssignAssumption
<1>4. IsInTimeDeadline(now, start + 4, due)
  BY <1>2 DEF Fits
<1>5. /\ clock \in 0..95 /\ UTCDay(now) \in Int
      /\ clock >= 28 => now = UTCDay(now) * 96 + clock
      /\ clock < 28 => now = UTCDay(now) * 96 + 96 + clock
  BY ClockOfIs
<1>6. /\ ClockOf(due) \in 0..95 /\ UTCDay(due) \in Int
      /\ ClockOf(due) >= 28 => due = UTCDay(due) * 96 + ClockOf(due)
      /\ ClockOf(due) < 28 => due = UTCDay(due) * 96 + 96 + ClockOf(due)
  BY <1>3, ClockOfIs
<1> DEFINE end == start + 4
<1>7. start \in 0..95 /\ end \in 0..95 /\ window.end = DatedTime(date, end)
  BY <1>1, <1>2
<1> HIDE DEF end
<1>8. /\ start >= 28 => window.start = date * 96 + start
      /\ start < 28 => window.start = date * 96 + 96 + start
      /\ end >= 28 => window.end = date * 96 + end
      /\ end < 28 => window.end = date * 96 + 96 + end
  <2> HIDE DEF start, date, window
  <2> QED
    BY <1>1, <1>7, DatedIs
<1> USE DEF end
<1>9. date = IF clock < 28 /\ start >= 28 THEN UTCDay(now) + 1 ELSE UTCDay(now)
  BY <1>5
<1>10. \/ UTCDay(now) < UTCDay(due)
       \/ UTCDay(now) = UTCDay(due) /\ start + 4 <= ClockOf(due)
  BY <1>4 DEF IsInTimeDeadline
<1>11. start >= 28 \/ start + 4 < 28 \/ start + 4 = 28
  BY <1>2
<1> HIDE DEF start, date, window, due, clock
<1>12. now <= window.start \/ (clock < 28 /\ start = 0 /\ late)
  <2>1. CASE clock <= start
    BY <2>1, <1>2, <1>5, <1>8, <1>9
  <2>2. CASE start = 0 /\ late
    BY <2>2, <1>5, <1>8, <1>9
  <2> QED
    BY <1>2, <2>1, <2>2
<1>13. window.end = window.start + 4 \/ (clock < 28 /\ start + 4 = 28)
  <2>1. CASE start >= 28 \/ start + 4 < 28
    BY <2>1, <1>1, <1>2, <1>8
  <2>2. CASE start + 4 = 28
    <3>1. clock < 28
      BY <2>2, <1>2, <1>5
    <3> QED
      BY <2>2, <3>1
  <2> QED
    BY <1>11, <2>1, <2>2
<1>14. window.end <= due \/ clock < 28 \/ (start = 0 /\ late)
  <2> SUFFICES ASSUME clock >= 28, ~(start = 0 /\ late) PROVE window.end <= due
    BY <1>5
  <2>1. start >= 28 /\ date = UTCDay(now)
    BY <1>2, <1>5, <1>9
  <2>2. window.end = UTCDay(now) * 96 + (start + 4)
    BY <2>1, <1>2, <1>8
  <2>3. CASE UTCDay(now) < UTCDay(due)
    <3>1. due >= UTCDay(due) * 96 + 28
      BY <1>6
    <3> QED
      BY <3>1, <2>2, <2>3, <1>2, <1>3, <1>5, <1>6
  <2>4. CASE UTCDay(now) = UTCDay(due) /\ start + 4 <= ClockOf(due)
    BY <2>2, <2>4, <2>1, <1>2, <1>3, <1>5, <1>6
  <2> QED
    BY <1>10, <2>3, <2>4
<1>15. EarlyHours(now) <=> clock < 28
  BY DayIs DEF EarlyHours, clock
<1> QED
  BY <1>1, <1>12, <1>13, <1>14, <1>15, DayIs DEF start, date, window, due, clock

\* The slots of a driver, from what a call has read.
LEMMA TripIs ==
    ASSUME NEW trip, TripRead(trip)
    PROVE  /\ SlotsOfTasks(trip) \in Seq(Span)
           /\ \/ trip = <<>> /\ TripSlot(trip) = <<>> /\ SlotsOfTasks(trip) = <<>>
              \/ \E doc \in TripDoc :
                    /\ trip = <<doc>> /\ doc.window \in Slot /\ doc.tasks \in Seq(Task)
                    /\ TripSlot(trip) = <<doc.window>> /\ <<doc.window>>[1] = doc.window
                    /\ <<doc.window>> # <<>>
                    /\ ToSet(SlotsOfTasks(trip)) = {Window[k] : k \in ToSet(doc.tasks)}
<1>1. CASE trip = <<>>
  <2>1. DOMAIN trip = {}
    BY <1>1
  <2>2. TripSlot(trip) = <<>>
    BY <2>1 DEF TripSlot
  <2>3. SlotsOfTasks(trip) = <<>>
    BY <1>1 DEF SlotsOfTasks
  <2>4. <<>> \in Seq(Span)
    OBVIOUS
  <2> QED
    BY <1>1, <2>2, <2>3, <2>4
<1>2. ASSUME NEW doc \in TripDoc, trip = <<doc>>
      PROVE  /\ SlotsOfTasks(trip) \in Seq(Span)
             /\ doc.window \in Slot /\ doc.tasks \in Seq(Task)
             /\ TripSlot(trip) = <<doc.window>> /\ <<doc.window>>[1] = doc.window /\ <<doc.window>> # <<>>
             /\ ToSet(SlotsOfTasks(trip)) = {Window[k] : k \in ToSet(doc.tasks)}
  <2>1. doc.window \in Slot /\ doc.tasks \in Seq(Task)
    BY DEF TripDoc
  <2>2. trip # <<>> /\ trip[1] = doc /\ DOMAIN trip = 1..1
    BY <1>2
  <2> DEFINE window == doc.window
             ks == doc.tasks
  <2>3. TripSlot(trip) = [i \in 1..1 |-> window]
    BY <2>2 DEF TripSlot
  <2>4. SlotsOfTasks(trip) = [i \in DOMAIN ks |-> Window[ks[i]]]
    BY <2>2 DEF SlotsOfTasks
  <2> HIDE DEF window, ks
  <2>5. TripSlot(trip) = <<window>> /\ <<window>>[1] = window /\ <<window>> # <<>>
    BY <2>3
  <2>6. ks \in Seq(Task)
    BY <2>1 DEF ks
  <2>7. \A i \in DOMAIN ks : Window[ks[i]] \in Span
    BY <2>6, PlanningAssumption DEF Span
  <2>8. SlotsOfTasks(trip) \in Seq(Span)
    BY <2>4, <2>6, <2>7
  <2>9. ToSet(SlotsOfTasks(trip)) = {Window[k] : k \in ToSet(ks)}
    BY <2>4 DEF ToSet
  <2> QED
    BY <2>1, <2>5, <2>8, <2>9 DEF window, ks
<1> QED
  BY <1>1, <1>2 DEF TripRead

\* The slots are free time of the driver, and with a shift in one part no reserved time
\* lies in them (getAvailableSlots).
LEMMA HisSlots ==
    ASSUME NEW staff \in StaffDoc, staff.shift \in Seq(Span), Apart(staff.shift),
           staff.reserved \in Seq(Span), NEW trip, TripRead(trip)
    PROVE  LET slots == SlotsOf(staff, trip) IN
           /\ slots \in Seq(Span)
           /\ InShift(staff, trip) =>
                /\ \A x \in ToSet(slots) : FreeIn(x, staff.shift, SlotsOfTasks(trip))
                /\ Len(staff.shift) = 1 =>
                     \A r \in ToSet(staff.reserved) :
                         Reservable(staff, trip, r) => \A x \in ToSet(slots) : Disjoint(x, r)
<1> DEFINE shift == staff.shift
           reserved == staff.reserved
           tripSlot == TripSlot(trip)
           ts == SlotsOfTasks(trip)
           slots == SlotsOf(staff, trip)
           all == AvailableSlots(shift, <<>>, tripSlot, ts)
           stands == tripSlot # <<>> => Standing(shift, tripSlot[1], ts)
<1>1. slots = AvailableSlots(shift, reserved, tripSlot, ts)
  BY DEF SlotsOf
<1>2. SlotsOf([staff EXCEPT !.reserved = <<>>], trip) = all
  BY DEF SlotsOf, StaffDoc
<1>3. ts \in Seq(Span)
  BY TripIs
<1>4. \/ tripSlot = <<>> /\ ts = <<>>
      \/ \E w \in Slot : tripSlot = <<w>>
  BY TripIs
<1>5. InShift(staff, trip) => stands
  <2> SUFFICES ASSUME InShift(staff, trip), tripSlot # <<>> PROVE Standing(shift, tripSlot[1], ts)
    OBVIOUS
  <2>1. PICK doc \in TripDoc :
            /\ trip = <<doc>> /\ tripSlot = <<doc.window>> /\ <<doc.window>>[1] = doc.window
            /\ ToSet(ts) = {Window[k] : k \in ToSet(doc.tasks)}
    BY TripIs
  <2>2. 1 \in DOMAIN trip /\ trip[1] = doc /\ tripSlot[1] = doc.window
    BY <2>1
  <2>3. /\ doc.window.start <= doc.window.end
        /\ \A k \in ToSet(doc.tasks) :
            /\ Inside(Window[k], doc.window)
            /\ \A l \in ToSet(doc.tasks) \ {k} : Disjoint(Window[k], Window[l])
            /\ \A pause \in ToSet(ConvertShiftToBreakSlots(Starts(shift))) :
                Disjoint(Window[k], pause)
        /\ \E m, n \in DOMAIN shift :
            shift[m].start <= doc.window.start /\ doc.window.end <= shift[n].end
    BY <2>2 DEF InShift
  <2> DEFINE window == doc.window
             ks == ToSet(doc.tasks)
  <2>4. tripSlot[1] = window /\ ToSet(ts) = {Window[k] : k \in ks}
    BY <2>1, <2>2
  <2>5. /\ window.start <= window.end
        /\ \A k \in ks :
            /\ Inside(Window[k], window)
            /\ \A l \in ks \ {k} : Disjoint(Window[k], Window[l])
            /\ \A pause \in ToSet(ConvertShiftToBreakSlots(Starts(shift))) : Disjoint(Window[k], pause)
        /\ \E m, n \in DOMAIN shift : shift[m].start <= window.start /\ window.end <= shift[n].end
    BY <2>3
  <2> HIDE DEF window, ks, shift, tripSlot, ts
  <2>6. \A x \in ToSet(ts) : Inside(x, window) /\ \A y \in ToSet(ts) : x = y \/ Disjoint(x, y)
    BY <2>4, <2>5
  <2>7. \A x \in ToSet(ts), pause \in ToSet(ConvertShiftToBreakSlots(Starts(shift))) : Disjoint(x, pause)
    BY <2>4, <2>5
  <2> QED
    BY <2>4, <2>5, <2>6, <2>7 DEF Standing
<1>6. /\ slots \in Seq(Span)
      /\ stands => \A x \in ToSet(slots) : FreeIn(x, shift, ts)
      /\ stands /\ Len(shift) = 1 =>
           \A r \in ToSet(reserved) :
              (/\ \E y \in ToSet(all) : Inside(r, y)
               /\ \A q \in ToSet(reserved) \ {r} : Disjoint(q, r)) =>
              \A x \in ToSet(slots) : Disjoint(x, r)
  <2> HIDE DEF shift, reserved, tripSlot, ts, slots
  <2> QED
    BY <1>1, <1>3, <1>4, SlotsAre DEF shift, reserved
<1>7. \A r : Reservable(staff, trip, r) =>
          /\ \E y \in ToSet(all) : Inside(r, y)
          /\ \A q \in ToSet(reserved) \ {r} : Disjoint(q, r)
  BY <1>2 DEF Reservable
<1> HIDE DEF stands, all
<1> QED
  BY <1>5, <1>6, <1>7

\* What the properties say of a task that was given away.
FreeTime(staff, trip, w) ==
    /\ \A time \in w.start..(w.end - 1) : \E s \in ToSet(staff.shift) : s.start <= time /\ time < s.end
    /\ \A i \in DOMAIN trip : \A k \in ToSet(trip[i].tasks) : Disjoint(w, Window[k])
    /\ \A r \in ToSet(staff.reserved) :
          (Len(staff.shift) = 1 /\ Reservable(staff, trip, r)) => Disjoint(w, r)

\* The times of the day a task is given for.
ClockTimes(g) == [start |-> ClockOf(g.window.start), end |-> ClockOf(g.window.end)]

\* The time a task is given for is in time.
TimelyFor(staff, g) ==
    LET now == staff.now
    IN  g.task \notin Appointed =>
          /\ now <= g.window.start \/ (EarlyHours(now) /\ RoundedToMidnight(staff, g))
          /\ \/ g.window.end = g.window.start + Hour
             \/ EarlyHours(now) /\ ClockOf(g.window.end) = GMT7
          /\ g.window.end <= Due[g.task] \/ EarlyHours(now) \/ RoundedToMidnight(staff, g)

\* What was given right is in time and free.
LEMMA TimesFollow == TypeInv => AssignedInTime /\ AssignedTimeIsFree
<1> SUFFICES ASSUME TypeInv, NEW c \in Call, NEW g \in call[c].given
             PROVE  /\ TimelyFor(asked[c][g.number], g)
                    /\ (/\ InShift(asked[c][g.number], g.trip)
                        /\ ~RoundedToMidnight(asked[c][g.number], g)) =>
                          FreeTime(asked[c][g.number], g.trip, ClockTimes(g))
  BY DEF AssignedInTime, AssignedTimeIsFree, TimelyFor, FreeTime, ClockTimes
<1> DEFINE staff == asked[c][g.number]
           now == staff.now
           slots == SlotsOf(staff, g.trip)
           k == g.task
           w == ClockTimes(g)
<1>1. GivenRight(c, g) /\ AskedTyped
  BY DEF TypeInv, CallsTyped, CallTyped
<1>2. /\ g.number \in DOMAIN asked[c] /\ k \in Pool /\ TripRead(g.trip)
      /\ \E slot \in ToSet(slots) :
            Fits(k, slot, now) /\ g.window = WindowTime(k, now, StartTime(now, slot))
  BY <1>1 DEF GivenRight
<1>3. /\ staff \in StaffDoc /\ staff.shift \in Seq(Span) /\ Apart(staff.shift)
      /\ staff.reserved \in Seq(Span)
  BY <1>1, <1>2 DEF AskedTyped
<1>4. now \in Nat /\ k \in Task
  BY <1>2, <1>3, AssignAssumption DEF StaffDoc
<1> HIDE DEF staff
<1>5. /\ slots \in Seq(Span)
      /\ InShift(staff, g.trip) =>
           /\ \A x \in ToSet(slots) : FreeIn(x, staff.shift, SlotsOfTasks(g.trip))
           /\ Len(staff.shift) = 1 =>
                \A r \in ToSet(staff.reserved) :
                    Reservable(staff, g.trip, r) => \A x \in ToSet(slots) : Disjoint(x, r)
  BY <1>2, <1>3, HisSlots
<1>6. PICK slot \in ToSet(slots) :
          Fits(k, slot, now) /\ g.window = WindowTime(k, now, StartTime(now, slot))
  BY <1>2
<1>7. slot \in Span
  BY <1>5 DEF ToSet
<1>8. /\ slot.start \in Int /\ slot.end \in Int
  BY <1>7, SpanIs
<1>9. \A i \in DOMAIN g.trip : \A l \in ToSet(g.trip[i].tasks) :
          Window[l] \in ToSet(SlotsOfTasks(g.trip))
  <2>1. CASE g.trip = <<>>
    BY <2>1
  <2>2. ASSUME NEW doc \in TripDoc, g.trip = <<doc>>,
               ToSet(SlotsOfTasks(g.trip)) = {Window[l] : l \in ToSet(doc.tasks)}
        PROVE  <1>9
    <3>1. DOMAIN g.trip = {1} /\ g.trip[1] = doc
      BY <2>2
    <3> QED
      BY <2>2, <3>1
  <2> QED
    BY <1>2, <2>1, <2>2, TripIs
<1> HIDE DEF slots
<1>10. ASSUME w.start \in Int, w.end \in Int, Inside(w, slot), InShift(staff, g.trip)
       PROVE  FreeTime(staff, g.trip, w)
  <2> HIDE DEF w
  <2>1. FreeIn(slot, staff.shift, SlotsOfTasks(g.trip))
    BY <1>5, <1>6, <1>10
  <2>2. \A time \in w.start..(w.end - 1) : time \in slot.start..(slot.end - 1)
    BY <1>8, <1>10 DEF Inside
  <2>3. ASSUME NEW x \in Span, Disjoint(slot, x) PROVE Disjoint(w, x)
    BY <1>8, <1>10, <2>3, SpanIs DEF Inside, Disjoint
  <2>4. \A x \in ToSet(SlotsOfTasks(g.trip)) : x \in Span /\ Disjoint(slot, x)
    BY <2>1, <1>2, TripIs DEF FreeIn, ToSet
  <2>5. \A r \in ToSet(staff.reserved) : r \in Span
    BY <1>3 DEF ToSet
  <2>6. \A i \in DOMAIN g.trip : \A l \in ToSet(g.trip[i].tasks) : Disjoint(w, Window[l])
    BY <1>9, <2>3, <2>4
  <2>7. ASSUME NEW r \in ToSet(staff.reserved), Len(staff.shift) = 1, Reservable(staff, g.trip, r)
        PROVE  Disjoint(w, r)
    BY <1>5, <1>6, <1>10, <2>3, <2>5, <2>7
  <2>8. \A time \in w.start..(w.end - 1) : \E s \in ToSet(staff.shift) : s.start <= time /\ time < s.end
    BY <2>1, <2>2 DEF FreeIn
  <2> QED
    BY <2>6, <2>7, <2>8 DEF FreeTime
<1>11. CASE k \in Appointed
  <2>1. g.window = DatedWindow(k)
    BY <1>6, <1>11 DEF WindowTime
  <2>2. PICK day \in {0, 1} : /\ DatedWindow(k).start = Window[k].start + day * 96
                              /\ DatedWindow(k).end = Window[k].end + day * 96
    <3>1. k \in Tomorrow => DatedWindow(k) = [start |-> Window[k].start + 96, end |-> Window[k].end + 96]
      BY DayIs DEF DatedWindow
    <3>2. k \notin Tomorrow => DatedWindow(k) = [start |-> Window[k].start + 0, end |-> Window[k].end + 0]
      BY DEF DatedWindow
    <3> QED
      BY <3>1, <3>2
  <2> DEFINE a == Window[k].start
             b == Window[k].end
  <2>3. a \in 0..95 /\ b \in 0..95 /\ day \in Int
    <3>1. Window[k] \in Slot
      BY <1>4, PlanningAssumption
    <3> QED
      BY <3>1, DayIs DEF Slot, Clock
  <2>4. w.start = a /\ w.end = b
    <3>1. g.window.start = a + day * 96 /\ g.window.end = b + day * 96
      BY <2>1, <2>2
    <3> HIDE DEF a, b
    <3>2. a + day * 96 = day * 96 + a /\ b + day * 96 = day * 96 + b
      BY <2>3
    <3>3. ClockOf(day * 96 + a) = a /\ ClockOf(day * 96 + b) = b
      BY <2>3, ClockOfDated
    <3> QED
      BY <3>1, <3>2, <3>3 DEF ClockTimes
  <2>5. Inside(Window[k], slot)
    BY <1>6, <1>11 DEF Fits
  <2>6. Inside(w, slot) /\ w.start \in Int /\ w.end \in Int
    BY <2>3, <2>4, <2>5 DEF Inside
  <2> HIDE DEF w
  <2>7. TimelyFor(staff, g)
    BY <1>11 DEF TimelyFor
  <2> QED
    BY <1>10, <2>6, <2>7 DEF staff, w
<1>12. CASE k \notin Appointed
  <2> DEFINE start == StartTime(now, slot)
             rounded == ClockOf(g.window.start) = 0 /\ (ClockOf(now) > 92 \/ slot.start > 92)
  <2>1. /\ now <= g.window.start \/ (EarlyHours(now) /\ rounded)
        /\ \/ g.window.end = g.window.start + Hour
           \/ EarlyHours(now) /\ ClockOf(g.window.end) = GMT7
        /\ g.window.end <= Due[k] \/ EarlyHours(now) \/ rounded
    BY <1>4, <1>6, <1>7, <1>12, InTime
  <2>2. w.start = start /\ w.end = start + 4
    BY <1>4, <1>6, <1>7, <1>12, WindowIs DEF ClockTimes
  <2>3. /\ start \in 0..92 /\ start + 4 <= slot.end
        /\ slot.start <= start \/ (start = 0 /\ (ClockOf(now) > 92 \/ slot.start > 92))
    BY <1>4, <1>6, <1>7, StartIs
  <2>4. rounded => RoundedToMidnight(staff, g)
    <3>1. Day - Hour = 92
      BY DayIs
    <3> QED
      BY <1>6, <1>12, <3>1 DEF RoundedToMidnight, slots
  <2>5. ~RoundedToMidnight(staff, g) => Inside(w, slot) /\ w.start \in Int /\ w.end \in Int
    BY <2>2, <2>3, <2>4, <1>8 DEF Inside, ClockTimes
  <2> HIDE DEF w, rounded
  <2>6. TimelyFor(staff, g)
    BY <1>12, <2>1, <2>4 DEF TimelyFor
  <2> QED
    BY <1>10, <2>5, <2>6 DEF staff, w
<1> QED
  BY <1>11, <1>12 DEF staff

\* A task without an appointment is handed out for an hour that is not past and
\* not after its deadline (getAssignTask, getStartAndEndTime).
THEOREM AssignedInTimeHolds == Spec => []AssignedInTime
<1> QED
  BY TypeInvHolds, TimesFollow, PTL

\* The hour a task is handed out for lies in the shift of the driver, meets no task of
\* the trip he has, and with a shift in one part no reserved time
\* (getAvailableSlots and what it is made of).
THEOREM AssignedTimeIsFreeHolds == Spec => []AssignedTimeIsFree
<1> QED
  BY TypeInvHolds, TimesFollow, PTL

(***************************************************************************)
(* A task is in one trip.                                                  *)
(***************************************************************************)
\* The task is in the trip, which is not deleted.
Holds(t, k) == Live(t) /\ k \in ToSet(trips[t].tasks)
\* A request that was submitted.
Began(j) == job[j].at # "ready"
\* The task may be in two trips.
Excused(k) == \E j \in Job : Began(j) /\ MayShare(j, k)
\* A workflow that may put any task into two trips.
Free(j) == work[j].kind = "saga" /\ (j \in overlapped \/ "assign" \in ToSet(work[j].steps))
\* A workflow under way for which this is not so.
Lone(j) == work[j].kind = "saga" /\ Active(j) /\ ~Free(j)

\* Two requests under way have met.
Met ==
    /\ \A j \in overlapped : Began(j)
    /\ \A i, j \in Job : (i # j /\ Active(i) /\ Active(j)) => j \in overlapped

\* A creation that is alone finds the tasks as they were when it came.
StillAsFound ==
    \A j \in Job : (work[j].kind \in Creations /\ job[j].at \in {"check", "insert"} /\ j \notin overlapped) =>
        flight = {} /\ tasks = before[j].tasks

\* Only a failed creation of trip.js unbinds tasks.
Unbindings ==
    \A w \in flight : w.op = "unbind" =>
        \E j \in damaged : work[j].kind = "createTrip" /\ Began(j) /\ w.tasks = Asked(j)

\* A task a trip holds names a trip, or is about to.
HeldIsBound ==
    \A t \in DOMAIN trips : \A k \in Task : Holds(t, k) =>
        \/ tasks[k].trip # NoTrip
        \/ Excused(k)
        \/ \E i \in Job : work[i].kind \in Creations /\ job[i].at = "bind" /\ k \in Asked(i)

\* What the check of a creation that is alone has shown.
CheckPassed ==
    \A j \in Job : (work[j].kind \in Creations /\ job[j].at = "insert" /\ j \notin overlapped) =>
        \A k \in Asked(j) : \A t \in DOMAIN trips : Holds(t, k) => Excused(k)

\* The request has put tasks into the trip.
Filled(i, t) ==
    \/ work[i].kind = "addTasks"
    \/ work[i].kind \in Creations /\ (CreationMayShare(i) \/ (job[i].at \in {"bind", "ok"} /\ job[i].doc = t))

\* How a task got into a trip that a creation of trip.js may overwrite.
HeldByOthers ==
    \A j \in Job : (work[j].kind = "createTrip" /\ job[j].at \in {"check", "insert"}) =>
        \A k \in Asked(j) : \A t \in DOMAIN trips : Holds(t, k) =>
            \/ InTripBefore(j)
            \/ \E i \in Job : Began(i) /\ Free(i)
            \/ \E i \in overlapped \ {j} : j \in overlapped /\ k \in Asked(i) /\ Filled(i, t)

\* No task is in two trips without excuse.
OneHolder ==
    \A t, u \in DOMAIN trips : \A k \in Task : (t # u /\ Holds(t, k) /\ Holds(u, k)) => Excused(k)

\* The task was in the trip when the job came.
HeldBefore(j, t, k) ==
    /\ t \in DOMAIN before[j].trips
    /\ ~before[j].trips[t].deleted /\ k \in ToSet(before[j].trips[t].tasks)

\* The document holds what the trip of the workflow held when it came.
Within(j, doc) ==
    LET t == work[j].trip
    IN  /\ t \in DOMAIN before[j].trips /\ ~before[j].trips[t].deleted
        /\ ToSet(doc.tasks) \subseteq ToSet(before[j].trips[t].tasks)

\* A workflow has read and noted nothing else.
ReadWithin(j) ==
    /\ (job[j].at \in {"write", "number"} /\ Worker(j) \in OnTrip) => Within(j, job[j].doc.trip)
    /\ \A n \in DOMAIN job[j].out : job[j].out[n].found => Within(j, job[j].out[n].trip)

\* No trip holds more than when it came.
NothingAdded(j) ==
    /\ DOMAIN trips = DOMAIN before[j].trips
    /\ \A t \in DOMAIN trips :
        /\ ToSet(trips[t].tasks) \subseteq ToSet(before[j].trips[t].tasks)
        /\ ~trips[t].deleted => ~before[j].trips[t].deleted

\* The tasks name the trips they named, and all was well then.
StillBound(j) ==
    /\ \A w \in flight : w.op = "number"
    /\ \A k \in Task : tasks[k].trip = before[j].tasks[k].trip
WasWell(j) ==
    /\ \A t \in DOMAIN before[j].trips : \A k \in Task :
        HeldBefore(j, t, k) => before[j].tasks[k].trip # NoTrip \/ Excused(k)
    /\ \A t, u \in DOMAIN before[j].trips : \A k \in Task :
        (t # u /\ HeldBefore(j, t, k) /\ HeldBefore(j, u, k)) => Excused(k)

\* A workflow that is alone puts no task into a trip it was not in.
LoneWorkflow ==
    \A j \in Job : Lone(j) => ReadWithin(j) /\ NothingAdded(j) /\ StillBound(j) /\ WasWell(j)

\* What a workflow has done are steps of it.
StepsDone == \A j \in Job : work[j].kind = "saga" => Len(job[j].out) <= Len(work[j].steps)

\* Together: what keeps a task in one trip.
HolderInv ==
    /\ Met /\ StillAsFound /\ Unbindings /\ HeldIsBound /\ CheckPassed /\ HeldByOthers /\ OneHolder
    /\ LoneWorkflow /\ StepsDone

\* The property follows.
LEMMA HolderFollows == TypeInv /\ HolderInv => TaskInOneTrip
<1> SUFFICES ASSUME TypeInv, HolderInv, NEW t \in DOMAIN trips, NEW u \in DOMAIN trips,
                    Live(t), Live(u), t # u, NEW k \in ToSet(trips[t].tasks) \cap ToSet(trips[u].tasks)
             PROVE  \E j \in Job : MayShare(j, k)
  BY DEF TaskInOneTrip
<1>1. k \in Task
  <2>0. trips[t] \in TripDoc
    BY DEF TypeInv, PlanTyped, TripsTyped
  <2>1. trips[t].tasks \in Seq(Task)
    BY <2>0 DEF TripDoc
  <2> QED
    BY <2>1 DEF ToSet
<1> QED
  BY <1>1 DEF HolderInv, OneHolder, Holds, Excused

\* At the beginning the tasks in trips name them, and nothing is under way.
LEMMA HolderInit == Init => HolderInv
<1> SUFFICES ASSUME Init PROVE HolderInv
  OBVIOUS
<1>1. PICK case \in Cases : trips = case.trips /\ tasks = case.tasks
  BY DEF Init
<1>2. flight = {} /\ overlapped = {} /\ \A j \in Job : job[j] = Waiting
  BY DEF Init, PlanningInit
<1>3. \A j \in Job : job[j].at = "ready" /\ job[j].out = <<>> /\ ~Active(j)
  BY <1>2 DEF Waiting, Active
<1>4. PlanTyped
  BY PlanTypedInit
<1>5. \A t \in DOMAIN trips : \A k : Holds(t, k) => tasks[k].trip = t
  BY <1>1, AssignAssumption DEF Holds, Live
<1>6. \A t \in DOMAIN trips : t # NoTrip
  BY <1>4, PlanningAssumption DEF PlanTyped, TripsTyped, TripId
<1>7. Met /\ StillAsFound /\ Unbindings /\ CheckPassed /\ HeldByOthers /\ LoneWorkflow
  BY <1>2, <1>3 DEF Met, StillAsFound, Unbindings, CheckPassed, HeldByOthers, LoneWorkflow, Lone
<1>8. HeldIsBound /\ OneHolder
  BY <1>5, <1>6 DEF HeldIsBound, OneHolder
<1>9. StepsDone
  <2> SUFFICES ASSUME NEW j \in Job, work[j].kind = "saga" PROVE Len(job[j].out) <= Len(work[j].steps)
    BY DEF StepsDone
  <2>1. 1 <= Len(work[j].steps) /\ Len(work[j].steps) \in Nat
    BY <1>4, WorkIs DEF PlanTyped
  <2> QED
    BY <1>3, <2>1
<1> QED
  BY <1>7, <1>8, <1>9 DEF HolderInv

\* What a step changes of the other jobs and of what is known of them.
Going(j) ==
    /\ work' = work /\ before' = before /\ overlapped' = overlapped /\ damaged \subseteq damaged'
    /\ damaged' \subseteq Job
    /\ j \in Job /\ Active(j) /\ job'[j].at # "ready"
    /\ DOMAIN job' = Job /\ \A i \in Job \ {j} : job'[i] = job[i]

\* How the record of a job changes when it goes on (the engine, and the requests).
LEMMA JobMoves ==
    ASSUME JobsShaped, NEW j \in Job
    PROVE  /\ (\E place : GoesTo(j, place)) \/ (\E o : Completed(j, o)) \/ Compensated(j) =>
                DOMAIN job' = Job /\ (\A i \in Job \ {j} : job'[i] = job[i])
           /\ \A place : GoesTo(j, place) =>
                /\ job'[j].at = place /\ job'[j].step = job[j].step
                /\ job'[j].doc = job[j].doc /\ job'[j].out = job[j].out
           /\ \A o : Completed(j, o) =>
                /\ job'[j].at \in {"ok", "call"} /\ job'[j].doc = job[j].doc
                /\ job'[j].out = Append(job[j].out, o)
           /\ Compensated(j) =>
                /\ job'[j].at \in {"undone", "undo"} /\ job'[j].doc = job[j].doc
                /\ job'[j].out = Front(job[j].out)
<1>1. DOMAIN job = Job /\ DOMAIN job[j] = {"at", "step", "doc", "out"}
  BY DEF JobsShaped, Shaped
<1>2. ASSUME NEW place, GoesTo(j, place)
      PROVE  /\ DOMAIN job' = Job /\ (\A i \in Job \ {j} : job'[i] = job[i])
             /\ job'[j].at = place /\ job'[j].step = job[j].step
             /\ job'[j].doc = job[j].doc /\ job'[j].out = job[j].out
  BY <1>1, <1>2 DEF GoesTo
<1>3. ASSUME NEW o, Completed(j, o)
      PROVE  /\ DOMAIN job' = Job /\ (\A i \in Job \ {j} : job'[i] = job[i])
             /\ job'[j].at \in {"ok", "call"} /\ job'[j].doc = job[j].doc
             /\ job'[j].out = Append(job[j].out, o)
  BY <1>1, <1>3 DEF Completed
<1>4. ASSUME Compensated(j)
      PROVE  /\ DOMAIN job' = Job /\ (\A i \in Job \ {j} : job'[i] = job[i])
             /\ job'[j].at \in {"undone", "undo"} /\ job'[j].doc = job[j].doc
             /\ job'[j].out = Front(job[j].out)
  BY <1>1, <1>4 DEF Compensated
<1> QED
  BY <1>2, <1>3, <1>4

\* What a worker or a compensation changes of its job.
WorkerMoves(j) ==
    \/ /\ job'[j].out = job[j].out
       /\ (job'[j].at \in {"write", "number"} /\ Worker(j)' \in OnTrip) =>
            \/ /\ job[j].at \in {"write", "number"} /\ Worker(j) \in OnTrip
               /\ job'[j].doc = job[j].doc
            \/ Live(work[j].trip) /\ job'[j].doc.trip = trips[work[j].trip]
    \/ /\ job'[j].at \notin {"write", "number"} /\ job[j].at \in {"call", "write", "number"}
       /\ \E o \in Noted :
            /\ job'[j].out = Append(job[j].out, o)
            /\ o.found => job[j].at \in {"write", "number"} /\ Worker(j) \in OnTrip /\ o.trip = job[j].doc.trip
    \/ /\ job'[j].at \notin {"write", "number"} /\ job[j].out # <<>>
       /\ job'[j].out = Front(job[j].out)

\* A job that goes on touches no other.
LEMMA GoesOn ==
    ASSUME PlanTyped, NEW j \in Job, Active(j), UNCHANGED <<work, before, overlapped>>,
           damaged' \in {damaged, damaged \cup {j}},
           \/ \E place \in Ends \cup {"insert", "call", "write", "number", "stepFailed", "undo", "unnumber"} :
                GoesTo(j, place)
           \/ \E o : Completed(j, o)
           \/ Compensated(j)
    PROVE  Going(j)
<1>1. JobsShaped /\ damaged \subseteq Job
  BY DEF PlanTyped, MarksTyped
<1>2. DOMAIN job' = Job /\ (\A i \in Job \ {j} : job'[i] = job[i]) /\ job'[j].at # "ready"
  BY <1>1, JobMoves DEF Ends
<1> QED
  BY <1>1, <1>2 DEF Going

\* A worker that answers, or whose answer is lost.
LEMMA AnswersMove ==
    ASSUME PlanTyped, NEW j \in Job, NEW o \in Noted, Answers(j, o), job[j].at \in {"call", "write"},
           o = NotFound \/ (o = Found(j) /\ job[j].at = "write" /\ Worker(j) \in OnTrip),
           UNCHANGED <<work, before, overlapped>>
    PROVE  Going(j) /\ WorkerMoves(j)
<1>1. JobsShaped
  BY DEF PlanTyped
<1>2. Active(j)
  BY DEF Active, Ends
<1>3. o.found => job[j].at \in {"write", "number"} /\ Worker(j) \in OnTrip /\ o.trip = job[j].doc.trip
  BY DEF NotFound, Found
<1>4. CASE Completed(j, o) /\ UNCHANGED <<faults, damaged>>
  <2>1. Going(j)
    BY <1>2, <1>4, GoesOn
  <2>2. job'[j].at \in {"ok", "call"} /\ job'[j].out = Append(job[j].out, o)
    BY <1>1, <1>4, JobMoves
  <2> QED
    BY <1>3, <2>1, <2>2 DEF WorkerMoves
<1>5. CASE Fault /\ GoesTo(j, "stepFailed") /\ damaged' = damaged \cup {j}
  <2>1. Going(j)
    BY <1>2, <1>5, GoesOn
  <2>2. job'[j].at = "stepFailed" /\ job'[j].out = job[j].out
    BY <1>1, <1>5, JobMoves
  <2> QED
    BY <2>1, <2>2 DEF WorkerMoves
<1> QED
  BY <1>4, <1>5 DEF Answers

\* A compensation that is done, or throws.
LEMMA CompensationMoves ==
    ASSUME PlanTyped, NEW j \in Job, job[j].at = "undo",
           Compensated(j) \/ CompensationThrows(j), UNCHANGED <<work, before, overlapped, damaged>>
    PROVE  Going(j) /\ WorkerMoves(j)
<1>1. JobsShaped
  BY DEF PlanTyped
<1>2. Active(j)
  BY DEF Active, Ends
<1>3. CASE Compensated(j)
  <2>1. Going(j)
    BY <1>2, <1>3, GoesOn
  <2>2. job'[j].at \in {"undone", "undo"} /\ job'[j].out = Front(job[j].out) /\ job[j].out # <<>>
    BY <1>1, <1>3, JobMoves, OutputIs
  <2> QED
    BY <2>1, <2>2 DEF WorkerMoves
<1>4. ASSUME NEW place \in {"undo", "broken"}, GoesTo(j, place) PROVE Going(j) /\ WorkerMoves(j)
  <2>1. Going(j)
    BY <1>2, <1>4, GoesOn DEF Ends
  <2>2. job'[j].at = place /\ job'[j].out = job[j].out
    BY <1>1, <1>4, JobMoves
  <2> QED
    BY <2>1, <2>2 DEF WorkerMoves
<1> QED
  BY <1>3, <1>4 DEF CompensationThrows

\* A workflow that goes to its next place without an answer noted.
LEMMA PlaceMoves ==
    ASSUME PlanTyped, NEW j \in Job, Active(j), UNCHANGED <<work, before, overlapped>>,
           damaged' \in {damaged, damaged \cup {j}},
           NEW place \in {"stepFailed", "call", "undone", "undo", "unnumber", "broken", "write", "number"},
           GoesTo(j, place),
           place = "write" => Worker(j) \notin OnTrip,
           place = "number" => job[j].at = "write" /\ Worker(j) = "number"
    PROVE  Going(j) /\ WorkerMoves(j)
<1>1. JobsShaped
  BY DEF PlanTyped
<1>2. Going(j)
  BY GoesOn DEF Ends
<1>3. /\ job'[j].at = place /\ job'[j].out = job[j].out /\ job'[j].doc = job[j].doc
      /\ Worker(j)' = Worker(j)
  BY <1>1, JobMoves DEF Worker
<1> QED
  BY <1>2, <1>3 DEF WorkerMoves, OnTrip

\* Reading the trip.
LEMMA ReadTripMoves ==
    ASSUME PlanTyped, NEW j \in Job, ReadTrip(j)
    PROVE  Going(j) /\ WorkerMoves(j)
<1> DEFINE t == work[j].trip
<1>1. /\ job[j].at = "call" /\ Active(j)
      /\ UNCHANGED <<trips, tasks, work, flight, faults, before, overlapped, damaged>>
  BY DEF ReadTrip, Called, At, Active, Ends
<1>2. JobsShaped
  BY DEF PlanTyped
<1>3. CASE GoesTo(j, "stepFailed")
  BY <1>1, <1>3, PlaceMoves
<1>4. CASE ~GoesTo(j, "stepFailed") /\ ~Live(t)
  <2>1. Completed(j, NotFound)
    BY <1>4 DEF ReadTrip
  <2>2. Going(j)
    BY <1>1, <2>1, GoesOn
  <2>3. job'[j].at \in {"ok", "call"} /\ job'[j].out = Append(job[j].out, NotFound)
    BY <1>2, <2>1, JobMoves
  <2> QED
    BY <1>1, <2>2, <2>3, NotedIs DEF WorkerMoves
<1>5. CASE ~GoesTo(j, "stepFailed") /\ Live(t)
  <2> DEFINE doc == [trip |-> trips[t], numbers |-> [k \in Task |-> tasks[k].number]]
  <2>1. job' = [job EXCEPT ![j].at = "write", ![j].doc = doc]
    BY <1>5 DEF ReadTrip
  <2>2. doc.trip = trips[t]
    OBVIOUS
  <2> HIDE DEF doc
  <2>3. DOMAIN job = Job /\ DOMAIN job[j] = {"at", "step", "doc", "out"}
    BY <1>2 DEF JobsShaped, Shaped
  <2>4. /\ DOMAIN job' = Job /\ \A i \in Job \ {j} : job'[i] = job[i]
        /\ job'[j].at = "write" /\ job'[j].doc = doc /\ job'[j].out = job[j].out
    BY <2>1, <2>3
  <2>5. Going(j)
    BY <1>1, <2>4 DEF Going, PlanTyped, MarksTyped
  <2> QED
    BY <1>5, <2>2, <2>4, <2>5 DEF WorkerMoves
<1> QED
  BY <1>3, <1>4, <1>5

\* The workers that write.
LEMMA WorkersMove ==
    ASSUME PlanTyped, NEW j \in Job,
           \/ RemoveTaskFromTrip(j) \/ ReorderTaskSequenceInTrip(j) \/ AssignStaffToTasks(j)
           \/ DeleteTodosByTask(j) \/ DeleteTaskById(j)
    PROVE  Going(j) /\ WorkerMoves(j)
<1>1. UNCHANGED <<work, before, overlapped>>
  BY DEF RemoveTaskFromTrip, ReorderTaskSequenceInTrip, AssignStaffToTasks, DeleteTodosByTask, DeleteTaskById
<1>2. CASE RemoveTaskFromTrip(j) \/ ReorderTaskSequenceInTrip(j)
  <2>1. /\ job[j].at = "write" /\ Worker(j) \in OnTrip /\ Answers(j, Found(j))
    BY <1>2 DEF RemoveTaskFromTrip, ReorderTaskSequenceInTrip, Writing, At, OnTrip
  <2>2. Found(j) \in Noted
    BY <2>1, ReadIs
  <2> QED
    BY <1>1, <2>1, <2>2, AnswersMove
<1>3. CASE AssignStaffToTasks(j) \/ DeleteTodosByTask(j) \/ DeleteTaskById(j)
  <2>1. job[j].at \in {"call", "write"} /\ Answers(j, NotFound)
    BY <1>3 DEF AssignStaffToTasks, DeleteTodosByTask, DeleteTaskById, Writing, Called, At
  <2> QED
    BY <1>1, <2>1, NotedIs, AnswersMove
<1> QED
  BY <1>2, <1>3

\* The workers that have nothing to write, or have written everything.
LEMMA CompletedMoves ==
    ASSUME PlanTyped, NEW j \in Job, TasksAreNumbered(j) \/ OtherStep(j)
    PROVE  Going(j) /\ WorkerMoves(j)
<1>1. UNCHANGED <<work, before, overlapped, damaged>> /\ JobsShaped
  BY DEF TasksAreNumbered, OtherStep, PlanTyped
<1>2. PICK o \in Noted :
        /\ Completed(j, o) /\ job[j].at \in {"call", "number"}
        /\ o.found => job[j].at = "number" /\ Worker(j) = "number" /\ o.trip = job[j].doc.trip
  <2>1. CASE TasksAreNumbered(j)
    <3>1. job[j].at = "number" /\ Completed(j, Found(j))
      BY <2>1 DEF TasksAreNumbered, At
    <3>2. Worker(j) = "number"
      BY <3>1, AtStep
    <3>3. Found(j) \in Noted /\ Found(j).trip = job[j].doc.trip
      BY <3>1, <3>2, ReadIs DEF OnTrip, Found
    <3> QED
      BY <3>1, <3>2, <3>3
  <2>2. CASE OtherStep(j)
    <3>1. job[j].at = "call" /\ Completed(j, NotFound)
      BY <2>2 DEF OtherStep, Called, At
    <3> QED
      BY <3>1, NotedIs
  <2> QED
    BY <2>1, <2>2
<1>3. Active(j)
  BY <1>2 DEF Active, Ends
<1>4. Going(j)
  BY <1>1, <1>2, <1>3, GoesOn
<1>5. job'[j].at \in {"ok", "call"} /\ job'[j].out = Append(job[j].out, o)
  BY <1>1, <1>2, JobMoves
<1> QED
  BY <1>2, <1>4, <1>5 DEF WorkerMoves, OnTrip

\* Failing, calling again, giving up; numbering; and the compensations.
LEMMA OthersMove ==
    ASSUME PlanTyped, NEW j \in Job,
           \/ ReadTodos(j) \/ StepThrows(j) \/ Again(j) \/ Compensate(j) \/ NothingToRestore(j)
           \/ SetTaskSequenceSystemByTrip(j) \/ RestoreNumbers(j)
    PROVE  Going(j) /\ WorkerMoves(j)
<1>1. UNCHANGED <<work, before, overlapped, damaged>>
  BY DEF ReadTodos, StepThrows, Again, Compensate, NothingToRestore, SetTaskSequenceSystemByTrip,
         RestoreNumbers
<1>2. Active(j)
  BY DEF ReadTodos, StepThrows, Again, Compensate, NothingToRestore, SetTaskSequenceSystemByTrip,
         RestoreNumbers, Called, Writing, Undoing, At, Active, Ends
<1>3. CASE ReadTodos(j)
  <2>1. Worker(j) \notin OnTrip /\ (GoesTo(j, "stepFailed") \/ GoesTo(j, "write"))
    BY <1>3 DEF ReadTodos, Called, OnTrip
  <2> QED
    BY <1>1, <1>2, <2>1, PlaceMoves
<1>4. CASE StepThrows(j)
  BY <1>1, <1>2, <1>4, PlaceMoves DEF StepThrows
<1>5. CASE Again(j)
  BY <1>1, <1>2, <1>5, PlaceMoves DEF Again
<1>6. CASE Compensate(j)
  <2>1. GoesTo(j, "undone") \/ GoesTo(j, "undo")
    BY <1>6 DEF Compensate
  <2> QED
    BY <1>1, <1>2, <2>1, PlaceMoves
<1>7. CASE NothingToRestore(j)
  BY <1>1, <1>2, <1>7, PlaceMoves DEF NothingToRestore
<1>8. CASE SetTaskSequenceSystemByTrip(j)
  BY <1>1, <1>2, <1>8, PlaceMoves DEF SetTaskSequenceSystemByTrip, Writing, At
<1>9. CASE RestoreNumbers(j)
  BY <1>1, <1>2, <1>9, PlaceMoves DEF RestoreNumbers
<1> QED
  BY <1>3, <1>4, <1>5, <1>6, <1>7, <1>8, <1>9

\* The compensations that write, or do nothing.
LEMMA CompensationsMove ==
    ASSUME PlanTyped, NEW j \in Job,
           \/ RestoreTrip(j) \/ RestoreSequence(j) \/ RestoreStaff(j) \/ RestoreTodos(j) \/ RestoreTask(j)
           \/ UndoOther(j) \/ UndoThrows(j) \/ NumbersAreRestored(j)
    PROVE  Going(j) /\ WorkerMoves(j)
<1>1. UNCHANGED <<work, before, overlapped, damaged>>
  BY DEF RestoreTrip, RestoreSequence, RestoreStaff, RestoreTodos, RestoreTask, UndoOther, UndoThrows,
         NumbersAreRestored
<1>2. CASE NumbersAreRestored(j)
  <2>1. job[j].at = "unnumber" /\ Compensated(j) /\ Active(j) /\ JobsShaped
    BY <1>2 DEF NumbersAreRestored, At, Active, Ends, PlanTyped
  <2>2. Going(j)
    BY <1>1, <2>1, GoesOn
  <2>3. job'[j].at \in {"undone", "undo"} /\ job'[j].out = Front(job[j].out) /\ job[j].out # <<>>
    BY <2>1, JobMoves, OutputIs
  <2> QED
    BY <2>2, <2>3 DEF WorkerMoves
<1>3. CASE ~NumbersAreRestored(j)
  <2>1. job[j].at = "undo" /\ (Compensated(j) \/ CompensationThrows(j))
    BY <1>3 DEF RestoreTrip, RestoreSequence, RestoreStaff, RestoreTodos, RestoreTask, UndoOther, UndoThrows,
                Undoing, At, CompensationAnswers
  <2> QED
    BY <1>1, <2>1, CompensationMoves
<1> QED
  BY <1>2, <1>3

\* The steps of a workflow.
SagaStep(j) ==
    \/ ReadTrip(j) \/ RemoveTaskFromTrip(j) \/ ReorderTaskSequenceInTrip(j)
    \/ SetTaskSequenceSystemByTrip(j) \/ TasksAreNumbered(j) \/ AssignStaffToTasks(j)
    \/ ReadTodos(j) \/ DeleteTodosByTask(j) \/ DeleteTaskById(j) \/ OtherStep(j)
    \/ StepThrows(j) \/ Again(j) \/ Compensate(j)
    \/ RestoreTrip(j) \/ RestoreSequence(j) \/ NothingToRestore(j) \/ RestoreNumbers(j)
    \/ NumbersAreRestored(j) \/ RestoreStaff(j) \/ RestoreTodos(j) \/ RestoreTask(j)
    \/ UndoOther(j) \/ UndoThrows(j)

\* Each of them changes nothing but its job, and that in one of the ways above.
LEMMA SagaMoves ==
    ASSUME PlanTyped, NEW j \in Job, SagaStep(j)
    PROVE  Going(j) /\ WorkerMoves(j)
BY ReadTripMoves, WorkersMove, CompletedMoves, OthersMove, CompensationsMove DEF SagaStep

\* Only workflows take the steps of workflows.
LEMMA SagaKind == ASSUME PlanTyped, NEW j \in Job, SagaStep(j) PROVE work[j].kind = "saga"
<1>1. Shaped(work[j], job[j])
  BY DEF PlanTyped, JobsShaped
<1>2. CASE Again(j) \/ Compensate(j)
  BY <1>1, <1>2 DEF Again, Compensate, Shaped
<1>3. CASE ~(Again(j) \/ Compensate(j))
  BY <1>3 DEF SagaStep, ReadTrip, RemoveTaskFromTrip, ReorderTaskSequenceInTrip, SetTaskSequenceSystemByTrip,
     TasksAreNumbered, AssignStaffToTasks, ReadTodos, DeleteTodosByTask, DeleteTaskById, OtherStep, StepThrows,
     RestoreTrip, RestoreSequence, NothingToRestore, RestoreNumbers, NumbersAreRestored, RestoreStaff,
     RestoreTodos, RestoreTask, UndoOther, UndoThrows, Called, Writing, Undoing, At
<1> QED
  BY <1>2, <1>3

\* The outputs noted are of steps of the workflow.
LEMMA StepsDoneKept ==
    ASSUME PlanTyped, StepsDone, NEW j \in Job, work[j].kind = "saga", Going(j), WorkerMoves(j)
    PROVE  StepsDone'
<1> DEFINE out == job[j].out
           steps == work[j].steps
<1>1. steps \in Seq(Workers) /\ out \in Seq(Noted) /\ Len(out) <= Len(steps)
  <2>1. Shaped(work[j], job[j])
    BY DEF PlanTyped, JobsShaped
  <2> QED
    BY <2>1, WorkIs DEF PlanTyped, StepsDone, Shaped
<1>2. Len(job'[j].out) <= Len(steps)
  <2>1. CASE job'[j].out = out
    BY <1>1, <2>1
  <2>2. ASSUME NEW o \in Noted, job'[j].out = Append(out, o), job[j].at \in {"call", "write", "number"}
        PROVE  Len(job'[j].out) <= Len(steps)
    <3>1. job[j].step = Len(out) + 1 /\ job[j].step \in DOMAIN steps
      BY <2>2, AtStep
    <3> HIDE DEF out, steps
    <3> QED
      BY <1>1, <2>2, <3>1
  <2>3. CASE job'[j].out = Front(out) /\ out # <<>>
    <3> HIDE DEF out, steps
    <3>1. Front(out) = [n \in 1..(Len(out) - 1) |-> out[n]] /\ Len(out) \in Nat /\ Len(out) # 0
      BY <1>1, <2>3 DEF Front, SubSeq
    <3>2. Len(Front(out)) = Len(out) - 1
      BY <3>1
    <3> QED
      BY <1>1, <2>3, <3>1, <3>2
  <2> QED
    BY <2>1, <2>2, <2>3 DEF WorkerMoves
<1> QED
  BY <1>2 DEF StepsDone, Going

\* A workflow that is alone reads what the trip held before, and notes it.
LEMMA ReadWithinKept ==
    ASSUME PlanTyped, NEW j \in Job, Going(j), WorkerMoves(j), ReadWithin(j), NothingAdded(j)
    PROVE  ReadWithin(j)'
<1> DEFINE out == job[j].out
           more == job'[j].out
           t == work[j].trip
<1>1. out \in Seq(Noted)
  BY DEF PlanTyped, JobsShaped, Shaped
<1>3. \A n \in DOMAIN out : out[n].found => Within(j, out[n].trip)
  BY DEF ReadWithin
<1>4. (job'[j].at \in {"write", "number"} /\ Worker(j)' \in OnTrip) => Within(j, job'[j].doc.trip)
  <2>1. ASSUME Live(t) PROVE Within(j, trips[t])
    BY <2>1 DEF NothingAdded, Within, Live
  <2> QED
    BY <2>1 DEF WorkerMoves, ReadWithin
<1>5. \A n \in DOMAIN more : more[n].found => Within(j, more[n].trip)
  <2>1. CASE more = out
    BY <1>3, <2>1
  <2>2. ASSUME NEW o \in Noted, more = Append(out, o),
               o.found => job[j].at \in {"write", "number"} /\ Worker(j) \in OnTrip /\ o.trip = job[j].doc.trip
        PROVE  \A n \in DOMAIN more : more[n].found => Within(j, more[n].trip)
    <3>1. o.found => Within(j, o.trip)
      BY <2>2 DEF ReadWithin
    <3> HIDE DEF out, more
    <3>2. \A n \in DOMAIN more : (n \in DOMAIN out /\ more[n] = out[n]) \/ more[n] = o
      BY <1>1, <2>2
    <3> QED
      BY <1>3, <3>1, <3>2
  <2>3. CASE out # <<>> /\ more = Front(out)
    <3> HIDE DEF out, more
    <3>1. more = [n \in 1..(Len(out) - 1) |-> out[n]]
      BY <1>1, <2>3 DEF Front, SubSeq
    <3>2. \A n \in DOMAIN more : n \in DOMAIN out /\ more[n] = out[n]
      BY <1>1, <3>1
    <3> QED
      BY <1>3, <3>2
  <2> QED
    BY <2>1, <2>2, <2>3 DEF WorkerMoves
<1> QED
  BY <1>4, <1>5 DEF ReadWithin, Within, Going

\* The trip of the workflow is written with tasks it held before, or with those it holds.
LEMMA NothingAddedIf ==
    ASSUME NEW j \in Job, Going(j), NothingAdded(j), NEW doc, Within(j, doc),
           DOMAIN trips' = DOMAIN trips, \A u \in DOMAIN trips \ {work[j].trip} : trips'[u] = trips[u],
           work[j].trip \in DOMAIN trips =>
              \/ ToSet(trips'[work[j].trip].tasks) \subseteq ToSet(doc.tasks)
              \/ trips'[work[j].trip].tasks = trips[work[j].trip].tasks
    PROVE  NothingAdded(j)'
BY DEF NothingAdded, Within, Going

\* A workflow that is alone puts no task into its trip that was not in it.
LEMMA NothingAddedKept ==
    ASSUME PlanTyped, NEW j \in Job, SagaStep(j), Going(j), ReadWithin(j), NothingAdded(j)
    PROVE  NothingAdded(j)'
<1> DEFINE t == work[j].trip
<1>0. TripsTyped
  BY DEF PlanTyped
<1>1. CASE UNCHANGED trips
  BY <1>1 DEF NothingAdded, Going
<1>2. CASE RemoveTaskFromTrip(j) \/ ReorderTaskSequenceInTrip(j)
  <2> DEFINE doc == job[j].doc.trip
  <2>1. job[j].at = "write" /\ Worker(j) \in OnTrip
    BY <1>2 DEF RemoveTaskFromTrip, ReorderTaskSequenceInTrip, Writing, At, OnTrip
  <2>2. Within(j, doc) /\ doc.tasks \in Seq(Task)
    BY <2>1, ReadIs DEF ReadWithin
  <2>3. ToSet(Rest(j)) \subseteq ToSet(doc.tasks) /\ ToSet(ByWindow(doc.tasks, Task)) \subseteq ToSet(doc.tasks)
    BY <2>2, ByWindowIs DEF Rest
  <2>4. /\ DOMAIN trips' = DOMAIN trips /\ \A u \in DOMAIN trips \ {t} : trips'[u] = trips[u]
        /\ t \in DOMAIN trips => \/ trips'[t].tasks \in {Rest(j), ByWindow(doc.tasks, Task)}
                                 \/ trips'[t].tasks = trips[t].tasks
    <3>1. \A u \in DOMAIN trips : trips[u] \in TripDoc
      BY <1>0 DEF TripsTyped
    <3>2. CASE trips' = [trips EXCEPT ![t].deleted = TRUE]
      BY <3>1, <3>2 DEF TripDoc
    <3>3. \A ks, window, done :
             (\/ trips' = [trips EXCEPT ![t].tasks = ks, ![t].window = window, ![t].done = done]
              \/ trips' = [trips EXCEPT ![t].tasks = ks, ![t].window = window]) =>
             /\ DOMAIN trips' = DOMAIN trips /\ \A u \in DOMAIN trips \ {t} : trips'[u] = trips[u]
             /\ t \in DOMAIN trips => trips'[t].tasks = ks
      <4> SUFFICES ASSUME NEW ks, NEW window, NEW done,
                     \/ trips' = [trips EXCEPT ![t].tasks = ks, ![t].window = window, ![t].done = done]
                     \/ trips' = [trips EXCEPT ![t].tasks = ks, ![t].window = window]
              PROVE  /\ DOMAIN trips' = DOMAIN trips /\ \A u \in DOMAIN trips \ {t} : trips'[u] = trips[u]
                     /\ t \in DOMAIN trips => trips'[t].tasks = ks
        OBVIOUS
      <4> QED
        BY <3>1 DEF TripDoc
    <3>4. CASE trips' = trips
      BY <3>4
    <3> QED
      <4>1. CASE RemoveTaskFromTrip(j)
        <5>1. CASE Rest(j) = <<>>
          BY <3>2, <4>1, <5>1 DEF RemoveTaskFromTrip
        <5>2. CASE Rest(j) # <<>>
          <6> DEFINE done == doc.done \/ ToSet(Rest(j)) \cap Open = {}
                     ks == Rest(j)
                     window == Hull(ks)
          <6>1. trips' = [trips EXCEPT ![t].tasks = ks, ![t].window = window, ![t].done = done]
            BY <4>1, <5>2 DEF RemoveTaskFromTrip
          <6>2. ks \in {Rest(j), ByWindow(doc.tasks, Task)}
            OBVIOUS
          <6> HIDE DEF done, ks, window, t
          <6>3. /\ DOMAIN trips' = DOMAIN trips /\ \A u \in DOMAIN trips \ {t} : trips'[u] = trips[u]
                /\ t \in DOMAIN trips => trips'[t].tasks = ks
            BY <3>3, <6>1
          <6> QED
            BY <6>2, <6>3
        <5> QED
          BY <5>1, <5>2
      <4>2. CASE ReorderTaskSequenceInTrip(j)
        <5> DEFINE ks == ByWindow(doc.tasks, Task)
        <5>1. trips' = [trips EXCEPT ![t].tasks = ks, ![t].window = Hull(ks)] \/ trips' = trips
          BY <4>2 DEF ReorderTaskSequenceInTrip
        <5> QED
          BY <3>3, <3>4, <5>1
      <4> QED
        BY <1>2, <4>1, <4>2
  <2> HIDE DEF t, doc
  <2>5. t \in DOMAIN trips => \/ ToSet(trips'[t].tasks) \subseteq ToSet(doc.tasks)
                              \/ trips'[t].tasks = trips[t].tasks
    BY <2>3, <2>4
  <2> QED
    BY <2>2, <2>4, <2>5, NothingAddedIf DEF t
<1>3. CASE RestoreTrip(j) \/ RestoreSequence(j)
  <2> DEFINE doc == Output(j).trip
  <2>1. /\ job[j].at = "undo"
        /\ RestoreTrip(j) => work[j].steps[Len(job[j].out)] = "remove"
        /\ RestoreSequence(j) => Output(j).found
    BY <1>3 DEF RestoreTrip, RestoreSequence, Undoing, At
  <2>2. Output(j).found /\ Len(job[j].out) \in DOMAIN job[j].out /\ Output(j) = job[j].out[Len(job[j].out)]
    BY <1>3, <2>1, OutputIs
  <2>3. Within(j, doc)
    BY <2>2 DEF ReadWithin
  <2>4. \A u \in DOMAIN trips : trips[u] \in TripDoc
    BY <1>0 DEF TripsTyped
  <2>5. \/ trips' = [trips EXCEPT ![t].deleted = FALSE]
        \/ trips' = [trips EXCEPT ![t].tasks = doc.tasks, ![t].done = doc.done, ![t].window = doc.window]
        \/ trips' = [trips EXCEPT ![t].tasks = doc.tasks, ![t].window = doc.window]
        \/ trips' = trips
    BY <1>3 DEF RestoreTrip, RestoreSequence
  <2> HIDE DEF t, doc
  <2>6. /\ DOMAIN trips' = DOMAIN trips /\ \A u \in DOMAIN trips \ {t} : trips'[u] = trips[u]
        /\ t \in DOMAIN trips => trips'[t].tasks \in {doc.tasks, trips[t].tasks}
    BY <2>4, <2>5 DEF TripDoc
  <2> QED
    BY <2>3, <2>6, NothingAddedIf DEF t
<1> QED
  BY <1>1, <1>2, <1>3 DEF SagaStep, ReadTrip, SetTaskSequenceSystemByTrip,
     TasksAreNumbered, AssignStaffToTasks, ReadTodos, DeleteTodosByTask, DeleteTaskById, OtherStep, StepThrows,
     Again, Compensate, NothingToRestore, RestoreNumbers, NumbersAreRestored, RestoreStaff,
     RestoreTodos, RestoreTask, UndoOther, UndoThrows

\* What no step takes back.
Onwards ==
    /\ work' = work /\ overlapped \subseteq overlapped' /\ damaged \subseteq damaged'
    /\ \A i \in Job : Began(i) =>
        /\ Began(i)' /\ before'[i] = before[i] /\ (job[i].at = "failed" => job'[i].at = "failed")

\* A job that goes on takes nothing back.
LEMMA GoingOnwards == ASSUME NEW j \in Job, Going(j) PROVE Onwards
BY DEF Going, Onwards, Began, Active, Ends

\* An excuse lasts.
LEMMA ExcuseLasts ==
    ASSUME Onwards
    PROVE  /\ \A i \in Job : Began(i) =>
                /\ InTripBefore(i) => InTripBefore(i)'
                /\ Free(i) => Free(i)'
                /\ Asked(i)' = Asked(i)
                /\ CreationMayShare(i) => CreationMayShare(i)'
           /\ \A k : Excused(k) => Excused(k)'
<1>1. \A i : Asked(i)' = Asked(i)
  BY DEF Onwards, Asked
<1>2. ASSUME NEW i \in Job, Began(i)
      PROVE  /\ InTripBefore(i) => InTripBefore(i)'
             /\ Free(i) => Free(i)'
             /\ CreationMayShare(i) => CreationMayShare(i)'
             /\ \A k : MayShare(i, k) => MayShare(i, k)'
  <2>1. before'[i] = before[i] /\ work' = work /\ Asked(i)' = Asked(i)
    BY <1>1, <1>2 DEF Onwards
  <2>2. InTripBefore(i) => InTripBefore(i)'
    BY <2>1 DEF InTripBefore
  <2>3. Free(i) => Free(i)'
    BY <2>1 DEF Free, Onwards
  <2>4. overlapped \subseteq overlapped' /\ damaged \subseteq damaged' /\ (job[i].at = "failed" => job'[i].at = "failed")
    BY <1>2 DEF Onwards
  <2>5. \A l \in Others(i) : l \in Job => l \in Others(i)'
    BY <1>1, <2>4 DEF Others
  <2>6. ASSUME CreationMayShare(i) PROVE CreationMayShare(i)'
    <3>1. (\E l, m \in Others(i) : l # m) => (\E l, m \in Others(i)' : l # m)
      BY <1>1, <2>4 DEF Others
    <3> QED
      BY <2>1, <2>2, <2>4, <2>6, <3>1 DEF CreationMayShare
  <2>7. \A k : MayShare(i, k) => MayShare(i, k)'
    BY <2>1, <2>4, <2>6 DEF MayShare
  <2> QED
    BY <2>2, <2>3, <2>6, <2>7
<1>3. ASSUME NEW k, Excused(k) PROVE Excused(k)'
  <2>1. PICK i \in Job : Began(i) /\ MayShare(i, k)
    BY <1>3 DEF Excused
  <2>2. Began(i)' /\ MayShare(i, k)'
    BY <1>2, <2>1 DEF Onwards
  <2> QED
    BY <2>2 DEF Excused
<1> QED
  BY <1>1, <1>2, <1>3

\* Workers change no tripId but assignStaffToTasks and its compensation, and they begin
\* no unbinding.
LEMMA SagaTasks ==
    ASSUME PlanTyped, StepsDone, NEW j \in Job, SagaStep(j)
    PROVE  /\ (\A k \in Task : tasks'[k].trip = tasks[k].trip) \/ "assign" \in ToSet(work[j].steps)
           /\ \A w \in flight' : w \in flight \/ w.op = "number"
<1>0. work[j].kind = "saga" /\ work[j].steps \in Seq(Workers)
  BY SagaKind, WorkIs DEF PlanTyped
<1>1. \A w \in flight' : w \in flight \/ w.op = "number"
  <2>1. CASE SetTaskSequenceSystemByTrip(j)
    <3>1. PICK number : flight' = flight \cup Numbering(j, number)
      BY <2>1 DEF SetTaskSequenceSystemByTrip
    <3>2. \A w \in Numbering(j, number) : w.op = "number"
      BY DEF Numbering
    <3> QED
      BY <3>1, <3>2
  <2>2. CASE RestoreNumbers(j)
    BY <2>2 DEF RestoreNumbers
  <2>3. CASE UNCHANGED flight
    BY <2>3
  <2> QED
    BY <2>1, <2>2, <2>3 DEF SagaStep, ReadTrip, RemoveTaskFromTrip, ReorderTaskSequenceInTrip,
     TasksAreNumbered, AssignStaffToTasks, ReadTodos, DeleteTodosByTask, DeleteTaskById, OtherStep, StepThrows,
     Again, Compensate, RestoreTrip, RestoreSequence, NothingToRestore, NumbersAreRestored, RestoreStaff,
     RestoreTodos, RestoreTask, UndoOther, UndoThrows
<1>2. CASE AssignStaffToTasks(j)
  <2>1. job[j].at = "call" /\ Worker(j) = "assign"
    BY <1>2 DEF AssignStaffToTasks, Called, At
  <2>2. job[j].step \in DOMAIN work[j].steps
    BY <2>1, AtStep
  <2> QED
    BY <1>1, <2>1, <2>2 DEF Worker, ToSet
<1>3. CASE RestoreStaff(j)
  <2>1. job[j].at = "undo" /\ work[j].steps[Len(job[j].out)] = "assign"
    BY <1>3 DEF RestoreStaff, Undoing, At
  <2>2. Len(job[j].out) \in DOMAIN job[j].out /\ Len(job[j].out) <= Len(work[j].steps) /\ job[j].out \in Seq(Noted)
    BY <1>0, <2>1, OutputIs DEF StepsDone
  <2> DEFINE n == Len(job[j].out)
             steps == work[j].steps
  <2>3. n \in 1..Len(steps)
    <3>1. n \in Nat /\ 1 <= n /\ Len(steps) \in Nat
      BY <1>0, <2>2
    <3> QED
      BY <2>2, <3>1
  <2> HIDE DEF n
  <2>4. n \in DOMAIN steps
    BY <1>0, <2>3
  <2> QED
    BY <1>1, <2>1, <2>4 DEF ToSet, n
<1>4. CASE DeleteTodosByTask(j) \/ DeleteTaskById(j) \/ RestoreTodos(j) \/ RestoreTask(j)
  <2>1. \A k \in Task : tasks'[k].trip = tasks[k].trip
    <3>1. tasks \in [Task -> TaskDoc]
      BY DEF PlanTyped, TasksTyped
    <3> QED
      BY <1>4, <3>1 DEF DeleteTodosByTask, DeleteTaskById, RestoreTodos, RestoreTask, TaskDoc
  <2> QED
    BY <1>1, <2>1
<1>5. CASE UNCHANGED tasks
  BY <1>1, <1>5
<1> QED
  BY <1>2, <1>3, <1>4, <1>5 DEF SagaStep, ReadTrip, RemoveTaskFromTrip, ReorderTaskSequenceInTrip,
     SetTaskSequenceSystemByTrip, TasksAreNumbered, ReadTodos, OtherStep, StepThrows, Again, Compensate,
     RestoreTrip, RestoreSequence, NothingToRestore, RestoreNumbers, NumbersAreRestored, UndoOther, UndoThrows

\* All was well when the workflow came, also later.
LEMMA WasWellLasts ==
    ASSUME Onwards, NEW j \in Job, Began(j), WasWell(j)
    PROVE  WasWell(j)'
<1>1. before'[j] = before[j] /\ \A k : Excused(k) => Excused(k)'
  BY ExcuseLasts DEF Onwards
<1>2. \A t, k : HeldBefore(j, t, k)' <=> HeldBefore(j, t, k)
  BY <1>1 DEF HeldBefore
<1> QED
  BY <1>1, <1>2 DEF WasWell

\* Jobs that meet are marked.
LEMMA MetKept ==
    ASSUME PlanTyped, Met, NEW j \in Job, Going(j)
    PROVE  /\ Met'
           /\ \A i \in Job \ {j} : Active(i)' => i \in overlapped /\ i \in overlapped' /\ j \in overlapped
<1>1. overlapped \subseteq Job /\ Onwards
  BY GoingOnwards DEF PlanTyped, MarksTyped
<1>2. \A i \in Job : Active(i)' => Active(i)
  BY DEF Going, Active
<1>3. Met'
  BY <1>1, <1>2 DEF Met, Going, Onwards
<1> QED
  BY <1>2, <1>3 DEF Met, Going

\* Nothing more is unbound.
LEMMA UnbindingsKept ==
    ASSUME PlanTyped, Unbindings, Onwards, \A w \in flight' : w \in flight \/ w.op # "unbind"
    PROVE  Unbindings'
<1>1. damaged \subseteq Job
  BY DEF PlanTyped, MarksTyped
<1>2. \A i \in Job : Asked(i)' = Asked(i)
  BY DEF Onwards, Asked
<1> SUFFICES ASSUME NEW w \in flight', w.op = "unbind"
             PROVE  \E i \in damaged' : work'[i].kind = "createTrip" /\ Began(i)' /\ w.tasks = Asked(i)'
  BY DEF Unbindings
<1>3. PICK i \in damaged : work[i].kind = "createTrip" /\ Began(i) /\ w.tasks = Asked(i)
  BY DEF Unbindings
<1> QED
  BY <1>1, <1>2, <1>3 DEF Onwards

\* As long as a workflow that is alone adds nothing, tasks in trips are bound and in one.
LEMMA LoneIsWell ==
    ASSUME NEW j \in Job, NothingAdded(j)', StillBound(j)', WasWell(j)'
    PROVE  HeldIsBound' /\ OneHolder'
<1>1. \A t \in DOMAIN trips', k \in Task : Holds(t, k)' => HeldBefore(j, t, k)' /\ t \in DOMAIN before'[j].trips
  BY DEF Holds, Live, HeldBefore, NothingAdded
<1>2. HeldIsBound'
  BY <1>1 DEF HeldIsBound, StillBound, WasWell
<1>3. OneHolder'
  BY <1>1 DEF OneHolder, WasWell
<1> QED
  BY <1>2, <1>3

\* A step of a workflow.
LEMMA SagaHolds == ASSUME PlanTyped, HolderInv, NEW j \in Job, SagaStep(j) PROVE HolderInv'
<1>1. Going(j) /\ WorkerMoves(j) /\ Onwards /\ work[j].kind = "saga"
  BY SagaMoves, SagaKind, GoingOnwards
<1>2. Met' /\ \A i \in Job \ {j} : Active(i)' => i \in overlapped /\ i \in overlapped' /\ j \in overlapped
  BY <1>1, MetKept DEF HolderInv
<1>3. /\ (\A k \in Task : tasks'[k].trip = tasks[k].trip) \/ "assign" \in ToSet(work[j].steps)
      /\ \A w \in flight' : w \in flight \/ w.op = "number"
  BY SagaTasks DEF HolderInv
<1>4. StepsDone'
  BY <1>1, StepsDoneKept DEF HolderInv
<1>5. Unbindings'
  BY <1>1, <1>3, UnbindingsKept DEF HolderInv
<1>6. work' = work /\ overlapped' = overlapped /\ Active(j) /\ j \in Job /\ Began(j)'
  BY <1>1 DEF Going, Began
<1>7. \A i \in Job : work[i].kind = "saga" => work[i].kind \notin Creations
  BY DEF Creations
<1>8. \A i \in Job : job'[i].at \in {"check", "insert"} => Active(i)'
  BY DEF Active, Ends
<1>9. StillAsFound' /\ CheckPassed'
  BY <1>1, <1>2, <1>6, <1>7, <1>8 DEF StillAsFound, CheckPassed
<1>10. HeldByOthers'
  <2>1. Free(j)' \/ ~\E i \in Job \ {j} : Active(i)'
    BY <1>1, <1>2, <1>6 DEF Free
  <2>2. \A i \in Job : (work'[i].kind = "createTrip" /\ job'[i].at \in {"check", "insert"}) => i # j /\ Active(i)'
    BY <1>1, <1>6, <1>8
  <2> QED
    BY <1>6, <2>1, <2>2 DEF HeldByOthers
<1>11. \A i \in Job \ {j} : ~Lone(i)'
  BY <1>2 DEF Lone, Free
<1>12. CASE Free(j)
  <2>1. Free(j)' /\ \A k : Excused(k)'
    BY <1>6, <1>12 DEF Free, Excused, MayShare
  <2>2. LoneWorkflow'
    BY <1>11, <2>1 DEF LoneWorkflow, Lone
  <2>3. HeldIsBound' /\ OneHolder'
    BY <2>1 DEF HeldIsBound, OneHolder
  <2> QED
    BY <1>2, <1>4, <1>5, <1>9, <1>10, <2>2, <2>3 DEF HolderInv
<1>13. CASE ~Free(j)
  <2>1. ReadWithin(j) /\ NothingAdded(j) /\ StillBound(j) /\ WasWell(j)
    BY <1>1, <1>6, <1>13 DEF HolderInv, LoneWorkflow, Lone
  <2>2. ReadWithin(j)'
    BY <1>1, <2>1, ReadWithinKept
  <2>3. NothingAdded(j)'
    BY <1>1, <2>1, NothingAddedKept
  <2>4. Began(j) /\ before' = before
    BY <1>1 DEF Began, Active, Going
  <2>5. StillBound(j)'
    BY <1>1, <1>3, <1>13, <2>1, <2>4 DEF StillBound, Free
  <2>6. WasWell(j)'
    BY <1>1, <2>1, <2>4, WasWellLasts
  <2>7. HeldIsBound' /\ OneHolder'
    BY <2>3, <2>5, <2>6, LoneIsWell
  <2>8. LoneWorkflow'
    BY <1>11, <2>2, <2>3, <2>5, <2>6 DEF LoneWorkflow
  <2> QED
    BY <1>2, <1>4, <1>5, <1>9, <1>10, <2>7, <2>8 DEF HolderInv
<1> QED
  BY <1>12, <1>13

\* A step that writes no trip, and no tripId without excuse.
LEMMA DocsKept ==
    ASSUME PlanTyped, HolderInv, Onwards, UNCHANGED trips,
           \A k \in Task : tasks'[k].trip = NoTrip => tasks[k].trip = NoTrip \/ Excused(k),
           \A i \in Job : (work[i].kind \in Creations /\ job[i].at \in {"bind", "ok"}) => job'[i] = job[i],
           \A i \in Job : (work[i].kind = "createTrip" /\ job'[i].at \in {"check", "insert"}) =>
                job[i].at \in {"check", "insert"} \/ before'[i].trips = trips
    PROVE  HeldIsBound' /\ HeldByOthers' /\ OneHolder'
<1>1. \A t, k : Holds(t, k)' = Holds(t, k)
  BY DEF Holds, Live
<1>2. /\ \A i \in Job : Began(i) =>
            /\ InTripBefore(i) => InTripBefore(i)'
            /\ Free(i) => Free(i)'
            /\ Asked(i)' = Asked(i)
            /\ CreationMayShare(i) => CreationMayShare(i)'
      /\ \A k : Excused(k) => Excused(k)'
  BY ExcuseLasts
<1>3. work' = work /\ overlapped \subseteq overlapped' /\ overlapped \subseteq Job
  BY DEF Onwards, PlanTyped, MarksTyped
<1>4. HeldIsBound'
  <2> SUFFICES ASSUME NEW t \in DOMAIN trips', NEW k \in Task, Holds(t, k)',
                      tasks'[k].trip = NoTrip, ~Excused(k)'
               PROVE  \E i \in Job : work'[i].kind \in Creations /\ job'[i].at = "bind" /\ k \in Asked(i)'
    BY DEF HeldIsBound
  <2>1. PICK i \in Job : work[i].kind \in Creations /\ job[i].at = "bind" /\ k \in Asked(i)
    BY <1>1, <1>2 DEF HolderInv, HeldIsBound
  <2>2. Began(i)
    BY <2>1 DEF Began
  <2> QED
    BY <1>2, <1>3, <2>1, <2>2
<1>5. HeldByOthers'
  <2> SUFFICES ASSUME NEW j \in Job, work'[j].kind = "createTrip", job'[j].at \in {"check", "insert"},
                      NEW k \in Asked(j)', NEW t \in DOMAIN trips', Holds(t, k)'
               PROVE  \/ InTripBefore(j)'
                      \/ \E i \in Job : Began(i)' /\ Free(i)'
                      \/ \E i \in overlapped' \ {j} : j \in overlapped' /\ k \in Asked(i)' /\ Filled(i, t)'
    BY DEF HeldByOthers
  <2>1. CASE before'[j].trips = trips
    BY <1>1, <2>1 DEF InTripBefore, Holds, Live
  <2>2. CASE job[j].at \in {"check", "insert"}
    <3>1. Began(j) /\ Asked(j)' = Asked(j) /\ work[j].kind = "createTrip"
      BY <1>2, <1>3, <2>2 DEF Began
    <3>2. CASE InTripBefore(j)
      BY <1>2, <3>1, <3>2
    <3>3. CASE \E i \in Job : Began(i) /\ Free(i)
      BY <1>2, <3>3 DEF Onwards
    <3>4. ASSUME NEW i \in overlapped \ {j}, j \in overlapped, k \in Asked(i), Filled(i, t)
          PROVE  \E l \in overlapped' \ {j} : j \in overlapped' /\ k \in Asked(l)' /\ Filled(l, t)'
      <4>1. i \in Job /\ Began(i)
        BY <1>3, <3>4 DEF HolderInv, Met
      <4>2. Filled(i, t)'
        BY <1>2, <1>3, <3>4, <4>1 DEF Filled
      <4> QED
        BY <1>2, <1>3, <3>4, <4>1, <4>2
    <3>5. \/ InTripBefore(j)
          \/ \E i \in Job : Began(i) /\ Free(i)
          \/ \E i \in overlapped \ {j} : j \in overlapped /\ k \in Asked(i) /\ Filled(i, t)
      BY <1>1, <2>2, <3>1 DEF HolderInv, HeldByOthers
    <3> QED
      BY <3>2, <3>3, <3>4, <3>5
  <2> QED
    BY <1>3, <2>1, <2>2
<1>6. OneHolder'
  BY <1>1, <1>2 DEF HolderInv, OneHolder
<1> QED
  BY <1>4, <1>5, <1>6

\* A request is taken.
LEMMA SubmitHolds == ASSUME PlanTyped, HolderInv, NEW j \in Job, Submit(j) PROVE HolderInv'
<1> DEFINE company == {i \in Job : Active(i)}
<1>1. /\ job[j].at = "ready" /\ work[j].kind # "none"
      /\ before' = [before EXCEPT ![j] = [trips |-> trips, tasks |-> tasks]]
      /\ overlapped' = IF company \cup flight = {} THEN overlapped ELSE overlapped \cup company \cup {j}
      /\ UNCHANGED <<trips, tasks, work, flight, faults, damaged>>
  BY DEF Submit
<1>2. /\ DOMAIN job' = Job /\ \A i \in Job \ {j} : job'[i] = job[i]
      /\ job'[j].at \in {"check", "add", "call"} /\ job'[j].out = job[j].out
      /\ work[j].kind = "saga" => job'[j].at = "call"
  BY JobMoves DEF Submit, PlanTyped, Creations
<1>3. j \notin overlapped /\ ~Active(j) /\ j \notin company /\ overlapped \subseteq Job
  BY <1>1 DEF HolderInv, Met, Began, Active, PlanTyped, MarksTyped
<1>4. before'[j] = [trips |-> trips, tasks |-> tasks] /\ \A i \in Job \ {j} : before'[i] = before[i]
  BY <1>1 DEF PlanTyped, BeforeTyped
<1>5. Onwards
  <2>1. \A i \in Job : Began(i) => i # j
    BY <1>1 DEF Began
  <2> QED
    BY <1>1, <1>2, <1>4, <2>1 DEF Onwards, Began
<1>6. \A i \in Job \ {j} : Active(i)' => i \in company /\ i \in overlapped' /\ j \in overlapped'
  BY <1>1, <1>2 DEF Active
<1>7. \A i \in overlapped' : Began(i)'
  BY <1>1, <1>2, <1>3 DEF HolderInv, Met, Began, Active
<1>8. Met'
  <2>1. \A i, l \in Job : (i # l /\ Active(i)' /\ Active(l)') => l \in overlapped'
    <3> SUFFICES ASSUME NEW i \in Job, NEW l \in Job, i # l, Active(i)', Active(l)' PROVE l \in overlapped'
      OBVIOUS
    <3> QED
      BY <1>6
  <2> QED
    BY <1>7, <2>1 DEF Met
<1>9. HeldIsBound' /\ HeldByOthers' /\ OneHolder'
  <2>1. \A i \in Job : (work[i].kind \in Creations /\ job[i].at \in {"bind", "ok"}) => job'[i] = job[i]
    BY <1>1, <1>2
  <2>2. \A i \in Job : (work[i].kind = "createTrip" /\ job'[i].at \in {"check", "insert"}) =>
            job[i].at \in {"check", "insert"} \/ before'[i].trips = trips
    BY <1>2, <1>4
  <2> QED
    BY <1>1, <1>5, <2>1, <2>2, DocsKept
<1>10. \A i \in Job : i \notin overlapped' /\ Active(i)' => i = j /\ flight = {} /\ company = {}
  BY <1>1, <1>6
<1>11. \A i \in Job : job'[i].at \in {"check", "insert"} => Active(i)'
  BY DEF Active, Ends
<1>12. StillAsFound' /\ CheckPassed'
  BY <1>1, <1>2, <1>4, <1>10, <1>11 DEF StillAsFound, CheckPassed
<1>13. Unbindings'
  BY <1>1, <1>5, UnbindingsKept DEF HolderInv
<1>14. StepsDone'
  BY <1>1, <1>2 DEF HolderInv, StepsDone
<1>15. LoneWorkflow'
  <2> SUFFICES ASSUME NEW i \in Job, Lone(i)'
               PROVE  ReadWithin(i)' /\ NothingAdded(i)' /\ StillBound(i)' /\ WasWell(i)'
    BY DEF LoneWorkflow
  <2>1. i = j /\ flight = {} /\ company = {} /\ work[j].kind = "saga" /\ job'[j].at = "call"
    BY <1>1, <1>2, <1>10 DEF Lone, Free
  <2>2. ReadWithin(j)'
    <3>1. job[j].out = <<>>
      BY <1>1 DEF PlanTyped, JobsShaped, Shaped
    <3> QED
      BY <1>2, <2>1, <3>1 DEF ReadWithin
  <2>3. NothingAdded(j)' /\ StillBound(j)'
    BY <1>1, <1>4, <2>1 DEF NothingAdded, StillBound
  <2>4. WasWell(j)'
    <3>1. \A t, k : HeldBefore(j, t, k)' <=> Holds(t, k)
      BY <1>4 DEF HeldBefore, Holds, Live
    <3>2. \A k : Excused(k) => Excused(k)'
      BY <1>5, ExcuseLasts
    <3>3. \A l \in Job : job[l].at # "bind"
      BY <2>1 DEF Active, Ends
    <3> QED
      BY <1>4, <3>1, <3>2, <3>3 DEF WasWell, HolderInv, HeldIsBound, OneHolder
  <2> QED
    BY <2>1, <2>2, <2>3, <2>4
<1> QED
  BY <1>8, <1>9, <1>12, <1>13, <1>14, <1>15 DEF HolderInv

\* A write under way lands, or fails: its kind, and whose it is.
LEMMA WriteIs ==
    ASSUME PlanTyped, HolderInv, NEW w \in flight
    PROVE  /\ w \in WriteDoc /\ w.op \in {"number", "unbind"}
           /\ w.op # "number" => w.op = "unbind" /\ \A k \in w.tasks : Excused(k)
           /\ w.op = "unbind" => w.by = NoJob
           /\ w.by # NoJob => w.by \in Job /\ job[w.by].at \in {"number", "unnumber"}
<1>1. w \in WriteDoc /\ (w.by # NoJob => w.by \in Job /\ job[w.by].at \in {"number", "unnumber"})
  BY DEF PlanTyped, FlightShaped
<1>2. w.op \in {"number", "unbind"} /\ (w.op = "unbind" => w.by = NoJob)
  BY <1>1 DEF WriteDoc
<1>3. ASSUME w.op = "unbind", NEW k \in w.tasks PROVE Excused(k)
  <2>1. PICK j \in damaged : work[j].kind = "createTrip" /\ Began(j) /\ w.tasks = Asked(j)
    BY <1>3 DEF HolderInv, Unbindings
  <2>2. j \in Job
    BY DEF PlanTyped, MarksTyped
  <2>3. MayShare(j, k)
    BY <1>3, <2>1 DEF MayShare, CreationMayShare, Creations
  <2> QED
    BY <2>1, <2>2, <2>3 DEF Excused
<1> QED
  BY <1>1, <1>2, <1>3

\* When nothing but jobs that have no trip in hand change, what they know stays true.
LEMMA LoneKept ==
    ASSUME PlanTyped, HolderInv, Onwards, UNCHANGED <<trips, overlapped>>,
           \A i \in Job : \/ job'[i] = job[i]
                          \/ /\ job'[i].out = job[i].out /\ Active(i)
                             /\ job'[i].at \notin {"ready", "check", "insert", "write", "number"},
           \A w \in flight' : \E v \in flight : v.op = w.op,
           \A k \in Task : \/ tasks'[k].trip = tasks[k].trip
                           \/ \E w \in flight : w.op # "number"
    PROVE  LoneWorkflow'
<1> SUFFICES ASSUME NEW j \in Job, Lone(j)'
             PROVE  ReadWithin(j)' /\ NothingAdded(j)' /\ StillBound(j)' /\ WasWell(j)'
  BY DEF LoneWorkflow
<1>1. work' = work
  BY DEF Onwards
<1>2. Lone(j) /\ Began(j)
  BY <1>1 DEF Lone, Free, Active, Ends, Began
<1>3. before'[j] = before[j]
  BY <1>2 DEF Onwards
<1>4. ReadWithin(j) /\ NothingAdded(j) /\ StillBound(j) /\ WasWell(j)
  BY <1>2 DEF HolderInv, LoneWorkflow
<1>5. ReadWithin(j)'
  <2>1. Worker(j)' = work[j].steps[job'[j].step]
    BY <1>1 DEF Worker
  <2> QED
    BY <1>1, <1>3, <1>4, <2>1 DEF ReadWithin, Within, Worker
<1>6. NothingAdded(j)'
  BY <1>3, <1>4 DEF NothingAdded
<1>7. StillBound(j)'
  BY <1>3, <1>4 DEF StillBound
<1>8. WasWell(j)'
  BY <1>2, <1>4, WasWellLasts
<1> QED
  BY <1>5, <1>6, <1>7, <1>8

\* Nothing but jobs that neither check nor insert changes, while a write is under way, or the
\* tasks stay as they are.
LEMMA CreationsKept ==
    ASSUME PlanTyped, HolderInv, Onwards, UNCHANGED <<trips, overlapped>>,
           \A i \in Job : \/ job'[i] = job[i]
                          \/ job'[i].at \notin {"check", "insert"},
           flight # {} \/ (UNCHANGED <<tasks, flight>>)
    PROVE  StillAsFound' /\ CheckPassed'
<1>1. work' = work /\ \A i \in Job : Began(i) => before'[i] = before[i]
  BY DEF Onwards
<1>2. \A i \in Job : job'[i].at \in {"check", "insert"} => job[i].at = job'[i].at /\ Began(i)
  BY DEF Began
<1>3. StillAsFound'
  BY <1>1, <1>2 DEF HolderInv, StillAsFound
<1>4. CheckPassed'
  <2>1. \A t, k : Holds(t, k)' = Holds(t, k)
    BY DEF Holds, Live
  <2>2. /\ \A k : Excused(k) => Excused(k)'
        /\ \A i \in Job : Asked(i)' = Asked(i)
    BY <1>1, ExcuseLasts DEF Asked
  <2> QED
    BY <1>1, <1>2, <2>1, <2>2 DEF HolderInv, CheckPassed
<1> QED
  BY <1>3, <1>4

\* A write lands.
LEMMA LandHolds == ASSUME PlanTyped, HolderInv, NEW w \in flight, Land(w) PROVE HolderInv'
<1>1. UNCHANGED <<trips, work, job, faults, before, overlapped, damaged>> /\ flight' = flight \ {w}
  BY DEF Land
<1>2. Onwards
  BY <1>1 DEF Onwards, Began
<1>3. \A k \in Task : \/ tasks'[k].trip = tasks[k].trip
                      \/ w.op # "number" /\ k \in w.tasks
  <2>1. tasks \in [Task -> TaskDoc]
    BY DEF PlanTyped, TasksTyped
  <2>2. CASE w.op = "number"
    BY <2>1, <2>2 DEF Land, TaskDoc
  <2>3. CASE w.op # "number"
    BY <2>1, <2>3 DEF Land, TaskDoc
  <2> QED
    BY <2>2, <2>3
<1>4. \A k \in Task : tasks'[k].trip = NoTrip => tasks[k].trip = NoTrip \/ Excused(k)
  BY <1>3, WriteIs
<1>5. HeldIsBound' /\ HeldByOthers' /\ OneHolder'
  BY <1>1, <1>2, <1>4, DocsKept
<1>6. LoneWorkflow'
  BY <1>1, <1>2, <1>3, LoneKept
<1>7. StillAsFound' /\ CheckPassed'
  BY <1>1, <1>2, CreationsKept
<1>8. Unbindings'
  BY <1>1, <1>2, UnbindingsKept DEF HolderInv
<1>9. Met' /\ StepsDone'
  BY <1>1 DEF HolderInv, Met, StepsDone, Began, Active
<1> QED
  BY <1>5, <1>6, <1>7, <1>8, <1>9 DEF HolderInv

\* A write fails.
LEMMA WriteThrowsHolds == ASSUME PlanTyped, HolderInv, NEW w \in flight, WriteThrows(w) PROVE HolderInv'
<1>1. /\ UNCHANGED <<trips, tasks, work, before, overlapped>>
      /\ flight' = {IF v.by = w.by THEN [v EXCEPT !.by = NoJob] ELSE v : v \in flight \ {w}}
  BY DEF WriteThrows
<1>2. /\ damaged \subseteq damaged' /\ DOMAIN job' = Job
      /\ \A i \in Job : \/ job'[i] = job[i]
                        \/ /\ job[i].at \in {"number", "unnumber"} /\ job'[i].out = job[i].out
                           /\ job'[i].at \in {"stepFailed", "undo", "broken"}
  <2>1. CASE w.by = NoJob
    BY <2>1 DEF WriteThrows, PlanTyped, JobsShaped
  <2>2. CASE w.by # NoJob
    <3> DEFINE i == w.by
    <3>1. i \in Job /\ job[i].at \in {"number", "unnumber"}
      BY <2>2, WriteIs
    <3>2. damaged' = damaged \cup {i} /\ \E place \in {"stepFailed", "undo", "broken"} : GoesTo(i, place)
      BY <2>2 DEF WriteThrows
    <3> HIDE DEF i
    <3>3. /\ DOMAIN job' = Job /\ \A l \in Job \ {i} : job'[l] = job[l]
          /\ job'[i].at \in {"stepFailed", "undo", "broken"} /\ job'[i].out = job[i].out
      BY <3>1, <3>2, JobMoves DEF PlanTyped
    <3> QED
      BY <3>1, <3>2, <3>3
  <2> QED
    BY <2>1, <2>2
<1>3. Onwards
  BY <1>1, <1>2 DEF Onwards, Began
<1>4. \A x \in flight' : \E v \in flight : v.op = x.op /\ (x.op = "unbind" => x = v)
  <2> SUFFICES ASSUME NEW v \in flight, NEW x, x = IF v.by = w.by THEN [v EXCEPT !.by = NoJob] ELSE v
               PROVE  x.op = v.op /\ (x.op = "unbind" => x = v)
    BY <1>1
  <2>1. v \in WriteDoc /\ (v.op = "unbind" => v.by = NoJob)
    BY WriteIs
  <2> QED
    BY <2>1 DEF WriteDoc
<1>5. HeldIsBound' /\ HeldByOthers' /\ OneHolder'
  BY <1>1, <1>2, <1>3, DocsKept
<1>6. LoneWorkflow'
  <2>1. \A i \in Job : \/ job'[i] = job[i]
                       \/ /\ job'[i].out = job[i].out /\ Active(i)
                          /\ job'[i].at \notin {"ready", "check", "insert", "write", "number"}
    BY <1>2 DEF Active, Ends
  <2> QED
    BY <1>1, <1>3, <1>4, <2>1, LoneKept
<1>7. StillAsFound' /\ CheckPassed'
  BY <1>1, <1>2, <1>3, CreationsKept
<1>8. Unbindings'
  BY <1>3, <1>4, UnbindingsKept DEF HolderInv
<1>9. Met'
  <2>1. \A i \in Job : (Active(i)' => Active(i)) /\ (Began(i) => Began(i)')
    BY <1>2 DEF Began, Active, Ends
  <2>2. overlapped' = overlapped /\ overlapped \subseteq Job
    BY <1>1 DEF PlanTyped, MarksTyped
  <2> QED
    BY <2>1, <2>2 DEF HolderInv, Met
<1>10. StepsDone'
  BY <1>1, <1>2 DEF HolderInv, StepsDone
<1> QED
  BY <1>5, <1>6, <1>7, <1>8, <1>9, <1>10 DEF HolderInv

\* A step of a call, which only reads, or no step of planning.
LEMMA CallHolds ==
    ASSUME PlanTyped, HolderInv, UNCHANGED <<trips, tasks, work, job, flight, before, overlapped, damaged>>
    PROVE  HolderInv'
<1>1. Onwards
  BY DEF Onwards, Began
<1>2. HeldIsBound' /\ HeldByOthers' /\ OneHolder'
  BY <1>1, DocsKept
<1>3. LoneWorkflow'
  BY <1>1, LoneKept
<1>4. StillAsFound' /\ CheckPassed'
  BY <1>1, CreationsKept
<1>5. Unbindings'
  BY <1>1, UnbindingsKept DEF HolderInv
<1>6. Met' /\ StepsDone'
  BY DEF HolderInv, Met, StepsDone, Began, Active
<1> QED
  BY <1>2, <1>3, <1>4, <1>5, <1>6 DEF HolderInv

\* What is known of workflows when a request goes on: there is none that is alone.
LEMMA RequestAlone ==
    ASSUME PlanTyped, HolderInv, NEW j \in Job, Going(j), work[j].kind # "saga", job'[j].out = job[j].out,
           \A w \in flight' : w \in flight \/ w.op # "unbind"
              \/ (j \in damaged' /\ work[j].kind = "createTrip" /\ w.tasks = Asked(j))
    PROVE  /\ Onwards /\ Met' /\ LoneWorkflow' /\ Unbindings' /\ StepsDone'
           /\ \A i \in Job \ {j} : Active(i)' => i \in overlapped /\ i \in overlapped' /\ j \in overlapped
<1>1. Onwards
  BY GoingOnwards
<1>2. /\ Met'
      /\ \A i \in Job \ {j} : Active(i)' => i \in overlapped /\ i \in overlapped' /\ j \in overlapped
  BY MetKept DEF HolderInv
<1>3. work' = work
  BY DEF Going
<1>4. LoneWorkflow'
  BY <1>2, <1>3 DEF LoneWorkflow, Lone, Free
<1>5. StepsDone'
  BY <1>3 DEF HolderInv, StepsDone, Going
<1>6. Unbindings'
  <2> SUFFICES ASSUME NEW w \in flight', w.op = "unbind"
               PROVE  \E i \in damaged' : work'[i].kind = "createTrip" /\ Began(i)' /\ w.tasks = Asked(i)'
    BY DEF Unbindings
  <2>1. \A i : Asked(i)' = Asked(i)
    BY <1>3 DEF Asked
  <2>2. CASE w \in flight
    <3>1. PICK i \in damaged : work[i].kind = "createTrip" /\ Began(i) /\ w.tasks = Asked(i)
      BY <2>2 DEF HolderInv, Unbindings
    <3>2. i \in Job
      BY DEF PlanTyped, MarksTyped
    <3> QED
      BY <1>1, <2>1, <3>1, <3>2 DEF Onwards
  <2>3. CASE w \notin flight
    BY <1>3, <2>1, <2>3 DEF Going, Began
  <2> QED
    BY <2>2, <2>3
<1> QED
  BY <1>1, <1>2, <1>4, <1>5, <1>6

\* A request may put the tasks it is asked for into one trip and bind them.
LEMMA RequestKept ==
    ASSUME PlanTyped, HolderInv, NEW j \in Job, Going(j), work[j].kind \in Creations \cup {"addTasks"},
           NEW x,
           \A t, k : Holds(t, k)' => \/ Holds(t, k)
                                     \/ /\ t = x /\ k \in Asked(j) /\ job[j].at # "bind" /\ job'[j].at \in {"bind", "failed"}
                                        /\ \/ job'[j].at = "bind" /\ job'[j].doc = x
                                           \/ j \in damaged'
                                           \/ work[j].kind = "addTasks",
           \A k \in Task : tasks'[k].trip = NoTrip => tasks[k].trip = NoTrip,
           (job[j].at = "bind" /\ work[j].kind \in Creations) =>
              \/ j \in damaged'
              \/ work[j].kind = "create" /\ job'[j].at = "failed"
              \/ /\ job'[j].at = "ok" /\ job'[j].doc = job[j].doc
                 /\ \A k \in Asked(j) : tasks'[k].trip # NoTrip,
           job'[j].at \in {"check", "insert"} => job[j].at \in {"check", "insert"}
    PROVE  HeldIsBound' /\ HeldByOthers'
<1>1. Onwards /\ \A i \in Job \ {j} : Active(i)' => i \in overlapped /\ i \in overlapped' /\ j \in overlapped
  BY GoingOnwards, MetKept DEF HolderInv
<1>2. /\ work' = work /\ overlapped' = overlapped /\ overlapped \subseteq Job
      /\ \A i \in Job \ {j} : job'[i] = job[i]
      /\ Began(j) /\ Began(j)' /\ job'[j].at # "ready" /\ job[j].at \notin Ends
  BY DEF Going, Began, Active, PlanTyped, MarksTyped
<1>3. /\ \A i \in Job : Began(i) =>
            /\ InTripBefore(i) => InTripBefore(i)'
            /\ Free(i) => Free(i)'
            /\ CreationMayShare(i) => CreationMayShare(i)'
      /\ \A k : Excused(k) => Excused(k)'
  BY <1>1, ExcuseLasts
<1>4. \A i : Asked(i)' = Asked(i)
  BY <1>2 DEF Asked
<1>5. ASSUME \/ work[j].kind = "addTasks"
             \/ j \in damaged'
             \/ work[j].kind = "create" /\ job'[j].at = "failed"
      PROVE  \A k \in Asked(j) : Excused(k)'
  BY <1>2, <1>4, <1>5 DEF Excused, MayShare, CreationMayShare, Creations
<1>6. HeldIsBound'
  <2> SUFFICES ASSUME NEW t \in DOMAIN trips', NEW k \in Task, Holds(t, k)',
                      tasks'[k].trip = NoTrip, ~Excused(k)'
               PROVE  \E i \in Job : work'[i].kind \in Creations /\ job'[i].at = "bind" /\ k \in Asked(i)'
    BY DEF HeldIsBound
  <2>1. CASE Holds(t, k)
    <3>1. t \in DOMAIN trips
      BY <2>1 DEF Holds, Live
    <3>2. PICK i \in Job : work[i].kind \in Creations /\ job[i].at = "bind" /\ k \in Asked(i)
      BY <1>3, <2>1, <3>1 DEF HolderInv, HeldIsBound
    <3>3. i # j
      BY <1>5, <3>2
    <3> QED
      BY <1>2, <1>4, <3>2, <3>3
  <2>2. CASE ~Holds(t, k)
    <3>1. k \in Asked(j)
      BY <2>2
    <3>2. work[j].kind # "addTasks" /\ j \notin damaged'
      BY <1>5, <3>1
    <3> QED
      BY <1>2, <1>4, <2>2, <3>1, <3>2
  <2> QED
    BY <2>1, <2>2
<1>7. HeldByOthers'
  <2> SUFFICES ASSUME NEW i \in Job, work'[i].kind = "createTrip", job'[i].at \in {"check", "insert"},
                      NEW k \in Asked(i)', NEW t \in DOMAIN trips', Holds(t, k)',
                      ~InTripBefore(i)', ~\E l \in Job : Began(l)' /\ Free(l)'
               PROVE  \E l \in overlapped' \ {i} : i \in overlapped' /\ k \in Asked(l)' /\ Filled(l, t)'
    BY DEF HeldByOthers
  <2>1. Active(i)' /\ job[i].at \in {"check", "insert"} /\ Began(i) /\ k \in Asked(i) /\ work[i].kind = "createTrip"
    BY <1>2, <1>4 DEF Active, Ends, Began
  <2>2. CASE Holds(t, k)
    <3>1. t \in DOMAIN trips
      BY <2>2 DEF Holds, Live
    <3>2. ~InTripBefore(i) /\ ~\E l \in Job : Began(l) /\ Free(l)
      BY <1>1, <1>3, <2>1 DEF Onwards
    <3>3. PICK l \in overlapped \ {i} : i \in overlapped /\ k \in Asked(l) /\ Filled(l, t)
      BY <2>1, <2>2, <3>1, <3>2 DEF HolderInv, HeldByOthers
    <3>4. l \in Job /\ Began(l)
      BY <1>2 DEF HolderInv, Met
    <3>5. Filled(l, t)'
      <4>1. CASE l # j
        BY <1>2, <1>3, <3>3, <3>4, <4>1 DEF Filled
      <4>2. CASE l = j
        <5>1. CASE job[j].at # "bind"
          BY <1>2, <1>3, <3>3, <4>2, <5>1 DEF Filled, Ends
        <5>2. CASE job[j].at = "bind"
          BY <1>2, <1>3, <3>3, <4>2, <5>2 DEF Filled, CreationMayShare
        <5> QED
          BY <5>1, <5>2
      <4> QED
        BY <4>1, <4>2
    <3> QED
      BY <1>2, <1>4, <3>3, <3>5
  <2>3. CASE ~Holds(t, k)
    <3>1. /\ k \in Asked(j) /\ t = x /\ job'[j].at \in {"bind", "failed"}
          /\ (job'[j].at = "bind" /\ job'[j].doc = x) \/ j \in damaged' \/ work[j].kind = "addTasks"
      BY <2>3
    <3>2. i # j
      BY <1>2, <3>1
    <3>3. i \in overlapped' /\ j \in overlapped'
      BY <1>1, <1>2, <2>1, <3>2
    <3>4. Filled(j, t)'
      BY <1>2, <3>1 DEF Filled, CreationMayShare
    <3> QED
      BY <1>4, <3>1, <3>2, <3>3, <3>4
  <2> QED
    BY <2>2, <2>3
<1> QED
  BY <1>6, <1>7

\* A request that goes on leaves no creation that is alone but itself.
LEMMA ChecksKept ==
    ASSUME PlanTyped, HolderInv, NEW j \in Job, Going(j), job'[j].at \notin {"check", "insert"}
    PROVE  StillAsFound' /\ CheckPassed'
<1>1. \A i \in Job \ {j} : Active(i)' => i \in overlapped'
  BY MetKept DEF HolderInv
<1>2. \A i \in Job : job'[i].at \in {"check", "insert"} => Active(i)'
  BY DEF Active, Ends
<1> QED
  BY <1>1, <1>2 DEF StillAsFound, CheckPassed

\* A task put into one more trip has an excuse.
LEMMA OneKept ==
    ASSUME HolderInv, Onwards, NEW j \in Job, NEW x,
           \A t, k : Holds(t, k)' => Holds(t, k) \/ (t = x /\ k \in Asked(j)),
           \A u \in DOMAIN trips, k \in Asked(j) : (u # x /\ Holds(u, k) /\ Holds(x, k)') => Excused(k)'
    PROVE  OneHolder'
<1> SUFFICES ASSUME NEW t \in DOMAIN trips', NEW u \in DOMAIN trips', NEW k \in Task,
                    t # u, Holds(t, k)', Holds(u, k)'
             PROVE  Excused(k)'
  BY DEF OneHolder
<1>1. CASE Holds(t, k) /\ Holds(u, k)
  BY <1>1, ExcuseLasts DEF HolderInv, OneHolder, Holds, Live
<1>2. CASE ~Holds(t, k)
  <2>1. t = x /\ k \in Asked(j) /\ Holds(u, k)
    BY <1>2
  <2> QED
    BY <2>1 DEF Holds, Live
<1>3. CASE ~Holds(u, k)
  <2>1. u = x /\ k \in Asked(j) /\ Holds(t, k)
    BY <1>3
  <2> QED
    BY <2>1 DEF Holds, Live
<1> QED
  BY <1>1, <1>2, <1>3

\* Once the trip is made the job is to bind its tasks, or a write of it is not answered for.
LEMMA MadeMoves ==
    ASSUME PlanTyped, NEW j \in Job, NEW x, TripIsMade(j, x), job[j].at \in {"insert", "add"},
           UNCHANGED <<work, before, overlapped>>
    PROVE  /\ Going(j) /\ job'[j].out = job[j].out
           /\ \/ job'[j].at = "bind" /\ job'[j].doc = x
              \/ job'[j].at = "failed" /\ j \in damaged'
<1>1. Active(j) /\ JobsShaped
  BY DEF Active, Ends, PlanTyped
<1>2. CASE GoesTo(j, "failed") /\ damaged' = damaged \cup {j}
  <2>1. Going(j)
    BY <1>1, <1>2, GoesOn DEF Ends
  <2> QED
    BY <1>1, <1>2, <2>1, JobMoves
<1>3. CASE job' = [job EXCEPT ![j].at = "bind", ![j].doc = x] /\ UNCHANGED <<faults, damaged>>
  <2>1. DOMAIN job = Job /\ DOMAIN job[j] = {"at", "step", "doc", "out"}
    BY <1>1 DEF JobsShaped, Shaped
  <2>2. /\ DOMAIN job' = Job /\ \A i \in Job \ {j} : job'[i] = job[i]
        /\ job'[j].at = "bind" /\ job'[j].doc = x /\ job'[j].out = job[j].out
    BY <1>3, <2>1
  <2> QED
    BY <1>1, <1>3, <2>2 DEF Going, PlanTyped, MarksTyped
<1> QED
  BY <1>2, <1>3 DEF TripIsMade

\* A trip is made, or filled.
LEMMA MadeHolds ==
    ASSUME PlanTyped, HolderInv, NEW j \in Job, work[j].kind \in Creations \cup {"addTasks"},
           NEW x, TripIsMade(j, x), job[j].at \in {"insert", "add"},
           UNCHANGED <<tasks, work, flight, before, overlapped>>,
           \A t, k : Holds(t, k)' => Holds(t, k) \/ (t = x /\ k \in Asked(j)),
           \A u \in DOMAIN trips, k \in Asked(j) : (u # x /\ Holds(u, k) /\ Holds(x, k)') =>
              \/ work[j].kind = "createTrip" /\ (Excused(k) \/ MayShare(j, k))
              \/ work[j].kind = "addTasks"
              \/ work[j].kind = "create" /\ (Excused(k) \/ j \in overlapped)
    PROVE  HolderInv'
<1>1. /\ Going(j) /\ job'[j].out = job[j].out
      /\ \/ job'[j].at = "bind" /\ job'[j].doc = x
         \/ job'[j].at = "failed" /\ j \in damaged'
  BY MadeMoves
<1>2. /\ Onwards /\ Met' /\ LoneWorkflow' /\ Unbindings' /\ StepsDone'
  BY <1>1, RequestAlone DEF Creations
<1>3. HeldIsBound' /\ HeldByOthers'
  BY <1>1, RequestKept
<1>4. StillAsFound' /\ CheckPassed'
  BY <1>1, ChecksKept
<1>5. \A k : Excused(k) => Excused(k)'
  BY <1>2, ExcuseLasts
<1>6. Began(j)
  BY DEF Began
<1>7. \A u \in DOMAIN trips, k \in Asked(j) : (u # x /\ Holds(u, k) /\ Holds(x, k)') => Excused(k)'
  <2> SUFFICES ASSUME NEW u \in DOMAIN trips, NEW k \in Asked(j), u # x, Holds(u, k), Holds(x, k)'
               PROVE  Excused(k)
    BY <1>5
  <2>1. CASE work[j].kind = "addTasks"
    BY <1>6, <2>1 DEF Excused, MayShare
  <2>2. CASE work[j].kind = "create" /\ j \in overlapped
    BY <1>6, <2>2 DEF Excused, MayShare, CreationMayShare, Creations
  <2>3. CASE MayShare(j, k)
    BY <1>6, <2>3 DEF Excused
  <2> QED
    BY <2>1, <2>2, <2>3
<1>8. OneHolder'
  BY <1>2, <1>7, OneKept
<1> QED
  BY <1>2, <1>3, <1>4, <1>8 DEF HolderInv

\* The trip of create.js is inserted.
LEMMA InsertHolds == ASSUME PlanTyped, HolderInv, NEW j \in Job, InsertTrip(j) PROVE HolderInv'
<1>1. /\ job[j].at = "insert" /\ work[j].kind = "create"
      /\ trips' = Append(trips, NewTrip(j)) /\ TripIsMade(j, Fresh)
      /\ UNCHANGED <<tasks, work, flight, before, overlapped>>
  BY DEF InsertTrip, At
<1>2. trips \in Seq(TripDoc)
  BY DEF PlanTyped, TripsTyped
<1>3. \A t, k : Holds(t, k)' => Holds(t, k) \/ (t = Fresh /\ k \in Asked(j))
  BY <1>1, <1>2 DEF Holds, Live, Fresh, NewTrip, Asked, Creations
<1>4. \A u \in DOMAIN trips, k \in Asked(j) : Holds(u, k) => Excused(k) \/ j \in overlapped
  BY <1>1 DEF HolderInv, CheckPassed, Creations
<1> QED
  BY <1>1, <1>3, <1>4, MadeHolds DEF Creations

\* Tasks are added to a trip.
LEMMA AddHolds == ASSUME PlanTyped, HolderInv, NEW j \in Job, AddToSet(j) PROVE HolderInv'
<1> DEFINE x == work[j].trip
<1>1. /\ job[j].at = "add" /\ work[j].kind = "addTasks" /\ TripIsMade(j, x)
      /\ UNCHANGED <<tasks, work, flight, before, overlapped>>
  BY DEF AddToSet, At
<1>2. trips \in Seq(TripDoc) /\ work[j].tasks \in Seq(Task)
  BY <1>1, WorkIs DEF PlanTyped, TripsTyped
<1>3. \A t, k : Holds(t, k)' => Holds(t, k) \/ (t = x /\ k \in Asked(j))
  <2>1. CASE x \notin DOMAIN trips
    BY <2>1 DEF AddToSet, Holds, Live
  <2>2. CASE x \in DOMAIN trips
    <3> DEFINE ks == Added(trips[x].tasks, work[j].tasks)
    <3>1. trips[x] \in TripDoc /\ trips' = [trips EXCEPT ![x].tasks = ks]
      BY <1>2, <2>2 DEF AddToSet
    <3>2. ToSet(ks) = ToSet(trips[x].tasks) \cup Asked(j)
      <4>1. trips[x].tasks \in Seq(Task)
        BY <3>1 DEF TripDoc
      <4> QED
        BY <1>1, <1>2, <4>1, AddedIs DEF Asked
    <3> HIDE DEF ks, x
    <3> QED
      BY <1>2, <2>2, <3>1, <3>2 DEF Holds, Live, TripDoc
  <2> QED
    BY <2>1, <2>2
<1> QED
  BY <1>1, <1>3, MadeHolds

\* A creation of trip.js overwrites a trip that holds a task of its: what else holds one has
\* come by it in a way that is known.
LEMMA OverwritingExcused ==
    ASSUME PlanTyped, HolderInv, NEW j \in Job, work[j].kind = "createTrip", job[j].at = "insert",
           NEW t \in DOMAIN trips, NEW u \in DOMAIN trips, t # u, NEW h \in Asked(j), NEW k \in Asked(j),
           Holds(t, h), Holds(u, k)
    PROVE  Excused(k) \/ MayShare(j, k)
<1>0. Began(j) /\ work[j].kind \in Creations /\ overlapped \subseteq Job
  BY DEF Began, Creations, PlanTyped, MarksTyped
<1>1. CASE j \notin overlapped
  BY <1>0, <1>1 DEF HolderInv, CheckPassed
<1>2. CASE j \in overlapped
  <2>1. CASE InTripBefore(j)
    BY <1>0, <1>2, <2>1 DEF MayShare, CreationMayShare
  <2>2. CASE \E i \in Job : Began(i) /\ Free(i)
    BY <2>2 DEF Excused, MayShare, Free
  <2>3. CASE ~InTripBefore(j) /\ ~\E i \in Job : Began(i) /\ Free(i)
    <3>1. PICK i \in overlapped \ {j} : h \in Asked(i) /\ Filled(i, t)
      BY <2>3 DEF HolderInv, HeldByOthers
    <3>2. PICK l \in overlapped \ {j} : k \in Asked(l) /\ Filled(l, u)
      BY <2>3 DEF HolderInv, HeldByOthers
    <3>3. i \in Others(j) /\ l \in Others(j)
      BY <3>1, <3>2 DEF Others
    <3>4. CASE i # l
      BY <1>0, <1>2, <3>3, <3>4 DEF MayShare, CreationMayShare
    <3>5. CASE i = l
      <4>1. work[l].kind = "addTasks" \/ (work[l].kind \in Creations /\ CreationMayShare(l))
        BY <3>1, <3>2, <3>5 DEF Filled
      <4>2. l \in Job /\ Began(l)
        BY <1>0 DEF HolderInv, Met
      <4> QED
        BY <3>2, <4>1, <4>2 DEF Excused, MayShare
    <3> QED
      BY <3>4, <3>5
  <2> QED
    BY <2>1, <2>2, <2>3
<1> QED
  BY <1>1, <1>2

\* The trip of trip.js is found or inserted.
LEMMA UpsertHolds == ASSUME PlanTyped, HolderInv, NEW j \in Job, UpsertTrip(j) PROVE HolderInv'
<1>1. /\ job[j].at = "insert" /\ work[j].kind = "createTrip" /\ Asked(j) = ToSet(work[j].tasks)
      /\ UNCHANGED <<tasks, work, flight, before, overlapped>>
  BY DEF UpsertTrip, At, Asked, Creations
<1>2. trips \in Seq(TripDoc)
  BY DEF PlanTyped, TripsTyped
<1> DEFINE matching == {t \in DOMAIN trips : ToSet(trips[t].tasks) \cap ToSet(work[j].tasks) # {}}
<1>3. ASSUME ~\E t \in matching : Live(t), trips' = Append(trips, NewTrip(j)), TripIsMade(j, Fresh)
      PROVE  HolderInv'
  <2>1. \A t, k : Holds(t, k)' => Holds(t, k) \/ (t = Fresh /\ k \in Asked(j))
    BY <1>1, <1>2, <1>3 DEF Holds, Live, Fresh, NewTrip
  <2>2. \A u \in DOMAIN trips, k \in Asked(j) : ~Holds(u, k)
    BY <1>1, <1>3 DEF Holds
  <2> QED
    BY <1>1, <1>3, <2>1, <2>2, MadeHolds DEF Creations
<1>4. ASSUME NEW t \in matching, TripIsMade(j, t),
             trips' = [trips EXCEPT ![t].tasks = work[j].tasks, ![t].window = work[j].window,
                                    ![t].staffs = work[j].staffs]
      PROVE  HolderInv'
  <2>1. PICK h \in Asked(j) : h \in ToSet(trips[t].tasks)
    BY <1>1
  <2>2. /\ DOMAIN trips' = DOMAIN trips /\ \A u \in DOMAIN trips \ {t} : trips'[u] = trips[u]
        /\ trips'[t].tasks = work[j].tasks /\ trips'[t].deleted = trips[t].deleted
    <3>1. trips[t] \in TripDoc
      BY <1>2
    <3>2. trips'[t] = [trips[t] EXCEPT !.tasks = work[j].tasks, !.window = work[j].window,
                                       !.staffs = work[j].staffs]
      BY <1>4, <3>1 DEF TripDoc
    <3>3. trips'[t].tasks = work[j].tasks /\ trips'[t].deleted = trips[t].deleted
      BY <3>1, <3>2 DEF TripDoc
    <3> QED
      BY <1>4, <3>3
  <2>3. \A u, k : Holds(u, k)' => Holds(u, k) \/ (u = t /\ k \in Asked(j))
    BY <1>1, <2>2 DEF Holds, Live
  <2>4. \A u \in DOMAIN trips, k \in Asked(j) : (u # t /\ Holds(u, k) /\ Holds(t, k)') => Excused(k) \/ MayShare(j, k)
    <3> SUFFICES ASSUME NEW u \in DOMAIN trips, NEW k \in Asked(j), u # t, Holds(u, k), Holds(t, k)'
                 PROVE  Excused(k) \/ MayShare(j, k)
      OBVIOUS
    <3>1. Holds(t, h)
      BY <2>1, <2>2 DEF Holds, Live
    <3> QED
      BY <1>1, <3>1, OverwritingExcused
  <2> QED
    BY <1>1, <1>4, <2>3, <2>4, MadeHolds DEF Creations
<1> QED
  BY <1>3, <1>4 DEF UpsertTrip

\* A creation checks its tasks.
LEMMA CheckHolds == ASSUME PlanTyped, HolderInv, NEW j \in Job, CheckTasks(j) PROVE HolderInv'
<1>1. /\ job[j].at = "check" /\ work[j].kind \in Creations /\ Active(j) /\ Began(j) /\ JobsShaped
      /\ UNCHANGED <<trips, tasks, work, flight, faults, before, overlapped, damaged>>
  BY DEF CheckTasks, At, Active, Ends, Began, PlanTyped
<1>2. PICK place \in {"failed", "insert"} :
        /\ GoesTo(j, place)
        /\ place = "insert" => /\ work[j].kind = "create" => \A k \in ToSet(work[j].tasks) : ~tasks[k].deleted
                               /\ \A k \in ToSet(work[j].tasks) : tasks[k].deleted \/ tasks[k].trip = NoTrip
  BY DEF CheckTasks
<1>3. job'[j].at = place /\ job'[j].out = job[j].out /\ \A i \in Job \ {j} : job'[i] = job[i]
  BY <1>1, <1>2, JobMoves
<1>4. Going(j)
  <2>1. \/ GoesTo(j, "failed")
        \/ DOMAIN job' = Job /\ job'[j].at = "insert"
    BY <1>1, <1>2, <1>3, JobMoves
  <2> QED
    BY <1>1, <1>3, <2>1, GoesOn DEF Going, Ends, PlanTyped, MarksTyped
<1>5. /\ Onwards /\ Met' /\ LoneWorkflow' /\ Unbindings' /\ StepsDone'
      /\ \A i \in Job \ {j} : Active(i)' => i \in overlapped /\ i \in overlapped' /\ j \in overlapped
  BY <1>1, <1>3, <1>4, RequestAlone DEF Creations
<1>6. HeldIsBound' /\ HeldByOthers' /\ OneHolder'
  BY <1>1, <1>3, <1>5, DocsKept
<1>7. StillAsFound'
  BY <1>1, <1>3 DEF HolderInv, StillAsFound
<1>8. ASSUME j \notin overlapped, place = "insert", NEW k \in Asked(j), NEW t \in DOMAIN trips, Holds(t, k)
      PROVE  Excused(k)
  <2>1. tasks = before[j].tasks /\ Asked(j) = ToSet(work[j].tasks)
    BY <1>1, <1>8 DEF HolderInv, StillAsFound, Asked
  <2>2. CASE tasks[k].deleted
    <3>1. work[j].kind = "createTrip"
      BY <1>1, <1>2, <1>8, <2>1, <2>2 DEF Creations
    <3> QED
      BY <1>1, <1>8, <2>1, <2>2, <3>1 DEF Excused, MayShare
  <2>3. CASE ~tasks[k].deleted
    <3>1. tasks[k].trip = NoTrip /\ k \in Task
      <4>1. work[j].tasks \in Seq(Task)
        BY <1>1, WorkIs DEF PlanTyped
      <4> QED
        BY <1>2, <1>8, <2>1, <2>3, <4>1 DEF ToSet
    <3>2. ~\E i \in Job : work[i].kind \in Creations /\ job[i].at = "bind" /\ k \in Asked(i)
      <4> SUFFICES ASSUME NEW i \in Job, job[i].at = "bind" PROVE FALSE
        OBVIOUS
      <4>1. i # j /\ Active(i)
        BY <1>1 DEF Active, Ends
      <4> QED
        BY <1>1, <1>8, <4>1 DEF HolderInv, Met
    <3> QED
      BY <1>8, <3>1, <3>2 DEF HolderInv, HeldIsBound
  <2> QED
    BY <2>2, <2>3
<1>9. CheckPassed'
  <2>1. \A t, k : Holds(t, k)' = Holds(t, k)
    BY <1>1 DEF Holds, Live
  <2>2. /\ \A k : Excused(k) => Excused(k)'
        /\ \A i \in Job : Asked(i)' = Asked(i)
    BY <1>1, <1>5, ExcuseLasts DEF Asked
  <2> SUFFICES ASSUME NEW i \in Job, work'[i].kind \in Creations, job'[i].at = "insert", i \notin overlapped',
                      NEW k \in Asked(i)', NEW t \in DOMAIN trips', Holds(t, k)'
               PROVE  Excused(k)'
    BY DEF CheckPassed
  <2>3. CASE i = j
    BY <1>1, <1>3, <1>8, <2>1, <2>2, <2>3
  <2>4. CASE i # j
    BY <1>5, <2>4 DEF Active, Ends
  <2> QED
    BY <2>3, <2>4
<1> QED
  BY <1>5, <1>6, <1>7, <1>9 DEF HolderInv

\* What follows when a request goes on that has not to do with trips.
LEMMA RequestHolds ==
    ASSUME PlanTyped, HolderInv, NEW j \in Job, Going(j), work[j].kind \in Creations \cup {"addTasks"},
           UNCHANGED trips, job'[j].out = job[j].out, job'[j].at \notin {"check", "insert"},
           \A w \in flight' : w \in flight \/ w.op # "unbind"
              \/ (j \in damaged' /\ work[j].kind = "createTrip" /\ w.tasks = Asked(j)),
           \A k \in Task : tasks'[k].trip = NoTrip => tasks[k].trip = NoTrip,
           (job[j].at = "bind" /\ work[j].kind \in Creations) =>
              \/ j \in damaged'
              \/ work[j].kind = "create" /\ job'[j].at = "failed"
              \/ /\ job'[j].at = "ok" /\ job'[j].doc = job[j].doc
                 /\ \A k \in Asked(j) : tasks'[k].trip # NoTrip
    PROVE  HolderInv'
<1>1. /\ Onwards /\ Met' /\ LoneWorkflow' /\ Unbindings' /\ StepsDone'
  BY RequestAlone DEF Creations
<1>2. \A t, k : Holds(t, k)' = Holds(t, k)
  BY DEF Holds, Live
<1>3. HeldIsBound' /\ HeldByOthers'
  BY <1>2, RequestKept
<1>4. StillAsFound' /\ CheckPassed'
  BY ChecksKept
<1>5. OneHolder'
  BY <1>1, <1>2, ExcuseLasts DEF HolderInv, OneHolder
<1> QED
  BY <1>1, <1>3, <1>4, <1>5 DEF HolderInv

\* A binding that throws is over, and that of trip.js leaves an unbinding behind.
LEMMA BindThrowsIs ==
    ASSUME PlanTyped, NEW j \in Job, BindThrows(j), job[j].at = "bind", UNCHANGED <<work, before, overlapped>>
    PROVE  /\ Going(j) /\ job'[j].out = job[j].out /\ job'[j].at = "failed"
           /\ work[j].kind = "createTrip" => j \in damaged'
           /\ \A w \in flight' : w \in flight
                \/ (j \in damaged' /\ work[j].kind = "createTrip" /\ w.tasks = Asked(j))
<1>1. Active(j) /\ JobsShaped
  BY DEF Active, Ends, PlanTyped
<1>2. GoesTo(j, "failed") /\ damaged' \in {damaged, damaged \cup {j}}
      /\ (work[j].kind = "createTrip" => damaged' = damaged \cup {j})
  BY DEF BindThrows
<1>3. Going(j)
  BY <1>1, <1>2, GoesOn DEF Ends
<1>4. job'[j].out = job[j].out /\ job'[j].at = "failed"
  BY <1>1, <1>2, JobMoves
<1>5. \A w \in flight' : w \in flight
        \/ (j \in damaged' /\ work[j].kind = "createTrip" /\ w.tasks = Asked(j))
  BY <1>2 DEF BindThrows, Asked, Creations
<1> QED
  BY <1>2, <1>3, <1>4, <1>5

\* The tasks are bound.
LEMMA BindHolds == ASSUME PlanTyped, HolderInv, NEW j \in Job, BindTripToTask(j) PROVE HolderInv'
<1>1. /\ job[j].at = "bind" /\ work[j].kind \in Creations \cup {"addTasks"} /\ Active(j) /\ JobsShaped
      /\ UNCHANGED <<trips, work, before, overlapped>>
      /\ tasks' = [k \in Task |-> IF k \in ToSet(work[j].tasks)
                                  THEN [tasks[k] EXCEPT !.trip = job[j].doc] ELSE tasks[k]]
  BY DEF BindTripToTask, At, Active, Ends, PlanTyped
<1>2. job[j].doc # NoTrip /\ tasks \in [Task -> TaskDoc] /\ Asked(j) \subseteq Task
      /\ Asked(j) = ToSet(work[j].tasks)
  <2>1. job[j].doc \in TripId
    BY <1>1 DEF PlanTyped, JobsShaped, Shaped
  <2>2. work[j].tasks \in Seq(Task)
    BY <1>1, WorkIs DEF PlanTyped
  <2> QED
    BY <1>1, <2>1, <2>2, PlanningAssumption DEF TripId, PlanTyped, TasksTyped, Asked, ToSet
<1>3. /\ \A k \in Task : tasks'[k].trip = NoTrip => tasks[k].trip = NoTrip
      /\ \A k \in Asked(j) : tasks'[k].trip # NoTrip
  BY <1>1, <1>2 DEF TaskDoc
<1>4. CASE GoesTo(j, "ok") /\ UNCHANGED <<flight, faults, damaged>>
  <2>1. Going(j)
    BY <1>1, <1>4, GoesOn DEF Ends
  <2>2. job'[j].at = "ok" /\ job'[j].doc = job[j].doc /\ job'[j].out = job[j].out
    BY <1>1, <1>4, JobMoves
  <2> QED
    BY <1>1, <1>3, <1>4, <2>1, <2>2, RequestHolds
<1>5. CASE BindThrows(j)
  BY <1>1, <1>3, <1>5, BindThrowsIs, RequestHolds DEF Creations
<1> QED
  BY <1>4, <1>5 DEF BindTripToTask

\* A read or a write of a request throws.
LEMMA RequestThrowsHolds == ASSUME PlanTyped, HolderInv, NEW j \in Job, RequestThrows(j) PROVE HolderInv'
<1>1. /\ job[j].at \in {"check", "insert", "add", "bind"} /\ Active(j) /\ JobsShaped
      /\ UNCHANGED <<trips, tasks, work, before, overlapped>>
  BY DEF RequestThrows, Active, Ends, PlanTyped
<1>2. CASE job[j].at = "bind"
  <2>1. work[j].kind \in Creations \cup {"addTasks"}
    BY <1>2 DEF PlanTyped, JobsShaped, Shaped
  <2>2. BindThrows(j)
    BY <1>2 DEF RequestThrows
  <2> QED
    BY <1>1, <1>2, <2>1, <2>2, BindThrowsIs, RequestHolds DEF Creations
<1>3. CASE job[j].at # "bind"
  <2>1. GoesTo(j, "failed") /\ UNCHANGED <<flight, damaged>>
    BY <1>3 DEF RequestThrows
  <2>2. Going(j)
    BY <1>1, <2>1, GoesOn DEF Ends
  <2>3. job'[j].at = "failed" /\ job'[j].out = job[j].out
    BY <1>1, <2>1, JobMoves
  <2>4. Onwards /\ Met' /\ \A i \in Job \ {j} : job'[i] = job[i]
    BY <2>2, GoingOnwards, MetKept DEF HolderInv, Going
  <2>5. HeldIsBound' /\ HeldByOthers' /\ OneHolder'
    BY <1>1, <1>3, <2>3, <2>4, DocsKept DEF Active, Ends
  <2>6. LoneWorkflow'
    BY <1>1, <2>1, <2>3, <2>4, LoneKept
  <2>7. StillAsFound' /\ CheckPassed'
    BY <2>2, <2>3, ChecksKept
  <2>8. Unbindings' /\ StepsDone'
    BY <1>1, <2>1, <2>3, <2>4, UnbindingsKept DEF HolderInv, StepsDone
  <2> QED
    BY <2>4, <2>5, <2>6, <2>7, <2>8 DEF HolderInv
<1> QED
  BY <1>2, <1>3


\* Every step, of planning and of calls, keeps it.
LEMMA HolderStep == PlanTyped /\ HolderInv /\ [Next]_vars => HolderInv'
<1> SUFFICES ASSUME PlanTyped, HolderInv, [Next]_vars PROVE HolderInv'
  OBVIOUS
<1>1. CASE UNCHANGED planning
  BY <1>1, CallHolds DEF planning
<1>2. ASSUME NEW j \in Job, JobStep(j) PROVE HolderInv'
  <2>1. CASE SagaStep(j)
    BY <2>1, SagaHolds
  <2>2. CASE ~SagaStep(j)
    BY <1>2, <2>2, SubmitHolds, CheckHolds, InsertHolds, UpsertHolds, AddHolds, BindHolds, RequestThrowsHolds
    DEF JobStep, SagaStep
  <2> QED
    BY <2>1, <2>2
<1>3. ASSUME NEW w \in flight, Land(w) \/ WriteThrows(w) PROVE HolderInv'
  BY <1>3, LandHolds, WriteThrowsHolds
<1>4. ASSUME NEW c \in Call, CallStep(c) PROVE HolderInv'
  <2>1. UNCHANGED <<trips, tasks, work, job, flight, before, overlapped, damaged>>
    BY <1>4 DEF CallStep, ReadCache, ReadTripOfStaff, ReadTaskPool, GetAssignTask, ReadThrows, SaveCache,
                SaveCacheThrows, planning
  <2> QED
    BY <2>1, CallHolds
<1> QED
  BY <1>1, <1>2, <1>3, <1>4 DEF Next, PlanningNext, vars

\* A task is in one trip only, unless two requests met on it, a write of one was not answered
\* for, or it was added to the second on request (create.js, trip.js, addTaskToTrip.js and the
\* workers of workers/melonade).
THEOREM TaskInOneTripHolds == Spec => []TaskInOneTrip
<1>1. Init => HolderInv
  BY HolderInit
<1>2. TypeInv /\ HolderInv /\ [Next]_vars => HolderInv'
  BY HolderStep DEF TypeInv
<1>3. TypeInv /\ HolderInv => TaskInOneTrip
  BY HolderFollows
<1>4. Spec => []TypeInv
  BY TypeInvHolds
<1> QED
  BY <1>1, <1>2, <1>3, <1>4, PTL DEF Spec

(***************************************************************************)
(* Order: what a workflow that is alone does to its trip (remove, reorder, *)
(* number), and where it stands when a step is tried again.                *)
(***************************************************************************)

\* A workflow under way that met nobody.
Single(j) == work[j].kind = "saga" /\ Active(j) /\ j \notin overlapped

\* One of its workers has completed.
Did(j, names) == \E i \in DOMAIN job[j].out : work[j].steps[i] \in names

\* A worker that is about to write has the trip as it is.
ReadNow(j) ==
    (job[j].at \in {"write", "number"} /\ Worker(j) \in OnTrip) =>
        Live(work[j].trip) /\ job[j].doc.trip = trips[work[j].trip]

\* Where a workflow stands that nothing was undone of.
Forth == {"call", "write", "number", "stepFailed", "ok"}

\* Once shortened or reordered the trip is in order.
Ordered(j) ==
    (job[j].at \in Forth /\ Did(j, {"remove", "reorder"}) /\ Live(work[j].trip)) =>
        InOrder(trips[work[j].trip])

\* The number is a place of the task in the trip.
Placed(j, k, n) ==
    LET list == trips[work[j].trip].tasks IN n \in DOMAIN list /\ list[n] = k

\* Every number that was or will be written is a place in the trip as it is.
Numbered(j) ==
    LET held == ToSet(trips[work[j].trip].tasks)
    IN  (job[j].at \in Forth /\ NumbersLast(j)) =>
        /\ flight # {} => Did(j, {"number"}) \/ (job[j].at # "ok" /\ Worker(j) = "number")
        /\ \A w \in flight : w.op = "number" /\ Live(work[j].trip) /\ Placed(j, w.task, w.number)
        /\ job[j].at = "number" =>
            \A k \in held : Placed(j, k, tasks[k].number) \/ \E w \in flight : w.by = j /\ w.task = k
        /\ (Did(j, {"number"}) /\ Live(work[j].trip)) =>
            \A k \in held : Placed(j, k, tasks[k].number)

\* A workflow that is alone leaves its trip in order and numbered.
OrderInv == \A j \in Job : Single(j) => ReadNow(j) /\ Ordered(j) /\ Numbered(j)

\* Tasks in the order of their windows stay as they are when sorted.
LEMMA SortedStays ==
    ASSUME NEW s \in Seq(Task),
           \A m, n \in DOMAIN s : m < n => Window[s[m]].start <= Window[s[n]].start
    PROVE  ByWindow(s, Task) = s
<1> DEFINE N == Len(s)
           P == {i \in DOMAIN s : s[i] \in Task}
           slots == [i \in DOMAIN s |-> Window[s[i]]]
           R == Earlier(slots)
           Below(x) == {y \in P : <<y, x>> \in R}
<1>1. N \in Nat /\ DOMAIN s = 1..N /\ P = 1..N
  OBVIOUS
<1>2. \A i \in 1..N : slots[i].start \in Int
  <2>1. \A i \in DOMAIN s : s[i] \in Task /\ slots[i] \in Slot
    BY PlanningAssumption
  <2> QED
    BY <1>1, <2>1, ClockIs DEF Slot
<1>3. \A x, y \in 1..N : <<x, y>> \in R <=> x < y
  <2> SUFFICES ASSUME NEW x \in 1..N, NEW y \in 1..N PROVE <<x, y>> \in R <=> x < y
    OBVIOUS
  <2> DEFINE a == slots[x].start
             b == slots[y].start
  <2>1. a \in Int /\ b \in Int /\ x \in Nat /\ y \in Nat
    BY <1>1, <1>2
  <2>2. (x < y => a <= b) /\ (y < x => b <= a)
    BY <1>1
  <2>3. <<x, y>> \in R <=> (a < b \/ (a = b /\ x < y))
    BY <1>1 DEF Earlier
  <2>4. x = y => a = b
    BY Zenon
  <2> HIDE DEF a, b, R
  <2> QED
    BY <2>1, <2>2, <2>3, <2>4
<1> HIDE DEF R, P
<1>4. \A x \in 1..N : Cardinality(Below(x)) = x - 1
  <2> SUFFICES ASSUME NEW x \in 1..N PROVE Cardinality(Below(x)) = x - 1
    OBVIOUS
  <2>1. Below(x) = 1..(x - 1)
    BY <1>1, <1>3
  <2> DEFINE b == x - 1
  <2>2. b \in Int /\ 1 \in Int /\ b >= 0
    BY <1>1
  <2> HIDE DEF Below, b
  <2>3. Cardinality(1..b) = IF 1 > b THEN 0 ELSE b - 1 + 1
    BY <2>2, FS_Interval
  <2>4. Cardinality(1..b) = b
    BY <2>2, <2>3
  <2> QED
    BY <2>1, <2>4 DEF b
<1>5. Cardinality(P) = N
  <2> HIDE DEF N
  <2>1. Cardinality(1..N) = IF 1 > N THEN 0 ELSE N - 1 + 1
    BY <1>1, FS_Interval
  <2>2. Cardinality(1..N) = N
    BY <1>1, <2>1
  <2> QED
    BY <1>1, <2>2
<1>6. \A n \in 1..N : Listed(P, R)[n] = n
  <2> SUFFICES ASSUME NEW n \in 1..N PROVE Listed(P, R)[n] = n
    OBVIOUS
  <2>1. Listed(P, R)[n] = CHOOSE x \in P : Cardinality(Below(x)) = n - 1
    BY <1>5 DEF Listed
  <2> HIDE DEF Below
  <2>2. \A x \in P : Cardinality(Below(x)) = n - 1 <=> x = n
    BY <1>1, <1>4
  <2>3. (CHOOSE x \in P : Cardinality(Below(x)) = n - 1) = n
    BY <1>1, <2>2
  <2> QED
    BY <2>1, <2>3
<1>7. ByWindow(s, Task) = [n \in 1..Cardinality(P) |-> s[Listed(P, R)[n]]]
  BY DEF ByWindow, Arranged, P, R
<1>8. ByWindow(s, Task) = [n \in 1..N |-> s[n]]
  BY <1>5, <1>6, <1>7
<1> QED
  BY <1>1, <1>8

\* Sorted tasks are in the order of their windows.
LEMMA ByWindowSorts ==
    ASSUME NEW s \in Seq(Task), NEW S
    PROVE  LET sorted == ByWindow(s, S)
           IN  \A m, n \in DOMAIN sorted : m < n => Window[sorted[m]].start <= Window[sorted[n]].start
<1> DEFINE P == {i \in DOMAIN s : s[i] \in S}
           slots == [i \in DOMAIN s |-> Window[s[i]]]
<1>1. P \in SUBSET Nat /\ P \subseteq DOMAIN slots /\ P \subseteq DOMAIN s
  OBVIOUS
<1>2. IsFiniteSet(P)
  <2>1. IsFiniteSet(1..Len(s))
    BY FS_Interval
  <2> QED
    BY <2>1, <1>1, FS_Subset
<1>3. \A i \in P : slots[i].start \in Int /\ slots[i] = Window[s[i]]
  <2>1. \A i \in DOMAIN s : s[i] \in Task /\ slots[i] \in Slot /\ slots[i] = Window[s[i]]
    BY PlanningAssumption
  <2> QED
    BY <1>1, <2>1, ClockIs DEF Slot
<1>4. ByWindow(s, S) = Arranged(s, P, slots)
  BY DEF ByWindow
<1> HIDE DEF P, slots
<1>5. PICK order : IsOrder(order, P, slots) /\ ByWindow(s, S) = PlacedBy(s, order, P)
  BY <1>1, <1>2, <1>3, <1>4, ArrangedIs
<1>6. Cardinality(P) \in Nat
  BY <1>2, FS_CardinalityType
<1> SUFFICES ASSUME NEW m \in DOMAIN ByWindow(s, S), NEW n \in DOMAIN ByWindow(s, S), m < n
             PROVE  Window[ByWindow(s, S)[m]].start <= Window[ByWindow(s, S)[n]].start
  OBVIOUS
<1>7. m \in 1..Cardinality(P) /\ n \in 1..Cardinality(P)
  BY <1>5 DEF PlacedBy
<1>8. order[m] \in P /\ order[n] \in P /\ slots[order[m]].start <= slots[order[n]].start
  BY <1>5, <1>7 DEF IsOrder
<1>9. ByWindow(s, S)[m] = s[order[m]] /\ ByWindow(s, S)[n] = s[order[n]]
  BY <1>5, <1>7 DEF PlacedBy
<1> QED
  BY <1>3, <1>8, <1>9

OrderBody(j) == ReadNow(j) /\ Ordered(j) /\ Numbered(j)

\* A worker that completes: what it notes is the last of its job's outputs.
LEMMA StepDone ==
    ASSUME PlanTyped, NEW j \in Job, NEW o \in Noted, Completed(j, o),
           job[j].at \in {"call", "write", "number"}, work' = work
    PROVE  LET out == job[j].out
               more == job'[j].out
               n == Len(job[j].out)
           IN  /\ job'[j].at \in {"ok", "call"} /\ job'[j].doc = job[j].doc
               /\ job'[j].at = "ok" => Len(more) = Len(work[j].steps)
               /\ n \in Nat /\ Len(more) = n + 1 /\ DOMAIN more = 1..(n + 1) /\ DOMAIN out = 1..n
               /\ more[n + 1] = o /\ \A i \in 1..n : more[i] = out[i]
               /\ Worker(j) = work[j].steps[n + 1]
               /\ \A names : Did(j, names)' <=> Did(j, names) \/ Worker(j) \in names
<1> DEFINE out == job[j].out
           more == job'[j].out
           n == Len(out)
<1>1. Shaped(work[j], job[j]) /\ DOMAIN job = Job /\ DOMAIN job[j] = {"at", "step", "doc", "out"}
  BY DEF PlanTyped, JobsShaped, Shaped
<1>2. /\ out \in Seq(Noted) /\ job[j].step = n + 1 /\ work[j].kind = "saga"
  BY <1>1, AtStep DEF Shaped
<1>3. /\ job'[j].at = IF job[j].step = Len(work[j].steps) THEN "ok" ELSE "call"
      /\ job'[j].doc = job[j].doc /\ more = Append(out, o)
  BY <1>1 DEF Completed
<1> HIDE DEF out, more
<1>4. /\ n \in Nat /\ Len(more) = n + 1 /\ DOMAIN more = 1..(n + 1) /\ DOMAIN out = 1..n
      /\ more[n + 1] = o /\ \A i \in 1..n : more[i] = out[i]
  BY <1>2, <1>3
<1>5. Worker(j) = work[j].steps[n + 1]
  BY <1>2 DEF Worker
<1>6. ASSUME NEW names PROVE Did(j, names)' <=> Did(j, names) \/ Worker(j) \in names
  <2>1. Did(j, names) <=> \E i \in 1..n : work[j].steps[i] \in names
    BY <1>4 DEF Did, out
  <2>2. Did(j, names)' <=> \E i \in 1..(n + 1) : work[j].steps[i] \in names
    BY <1>4 DEF Did, more
  <2>3. \A i : i \in 1..(n + 1) <=> i \in 1..n \/ i = n + 1
    BY <1>4
  <2> HIDE DEF n
  <2> QED
    BY <2>1, <2>2, <2>3, <1>5
<1>7. job'[j].at \in {"ok", "call"} /\ (job'[j].at = "ok" => Len(more) = Len(work[j].steps))
  BY <1>2, <1>3, <1>4
<1> QED
  BY <1>3, <1>4, <1>5, <1>6, <1>7 DEF out, more

\* A workflow that goes to another place.
LEMMA StepStays ==
    ASSUME PlanTyped, NEW j \in Job, NEW place, GoesTo(j, place), work' = work
    PROVE  /\ job'[j].at = place /\ job'[j].out = job[j].out /\ job'[j].doc = job[j].doc
           /\ Worker(j)' = Worker(j) /\ \A names : Did(j, names)' <=> Did(j, names)
<1>1. /\ job'[j].at = place /\ job'[j].out = job[j].out /\ job'[j].doc = job[j].doc
      /\ job'[j].step = job[j].step
  BY JobMoves DEF PlanTyped
<1> QED
  BY <1>1 DEF Worker, Did

\* Nothing is said of a workflow that is being undone.
LEMMA UndoneOrder ==
    ASSUME NEW j \in Job, job'[j].at \in {"undo", "unnumber", "undone", "broken"}
    PROVE  OrderBody(j)'
BY DEF OrderBody, ReadNow, Ordered, Numbered, Forth

\* The tasks of a trip.
LEMMA HeldTasks == ASSUME PlanTyped, NEW t, Live(t) PROVE ToSet(trips[t].tasks) \subseteq Task
<1>1. trips[t] \in TripDoc
  BY DEF PlanTyped, TripsTyped, Live
<1>2. trips[t].tasks \in Seq(Task)
  BY <1>1 DEF TripDoc
<1> QED
  BY <1>2 DEF ToSet

\* A step that does not complete and writes neither the trip nor a number.
LEMMA StaysOrdered ==
    ASSUME PlanTyped, NEW j \in Job, OrderBody(j), UNCHANGED <<trips, work, flight>>,
           \A k \in Task : tasks'[k].number = tasks[k].number,
           job[j].at \in {"call", "write", "stepFailed"},
           job'[j].at \in {"call", "write", "stepFailed"}, ReadNow(j)',
           Worker(j)' = Worker(j), \A names : Did(j, names)' <=> Did(j, names)
    PROVE  OrderBody(j)'
<1> DEFINE t == work[j].trip
<1>1. Live(t)' = Live(t) /\ NumbersLast(j)' = NumbersLast(j)
  BY DEF Live, NumbersLast
<1>2. Ordered(j)'
  BY <1>1 DEF OrderBody, Ordered, Forth
<1>3. Numbered(j)'
  <2> SUFFICES ASSUME NumbersLast(j)' PROVE Numbered(j)'
    BY DEF Numbered
  <2>1. Numbered(j) /\ NumbersLast(j) /\ job[j].at \in Forth /\ job[j].at # "ok" /\ job'[j].at \notin {"ok", "number"}
    BY <1>1 DEF OrderBody, Forth
  <2>2. \A k, n : Placed(j, k, n)' = Placed(j, k, n)
    BY DEF Placed
  <2>3. ASSUME Did(j, {"number"}), Live(t), NEW k \in ToSet(trips[t].tasks)
        PROVE  Placed(j, k, tasks'[k].number)
    <3>1. k \in Task
      BY <2>3, HeldTasks
    <3> QED
      BY <2>1, <2>3, <3>1 DEF Numbered
  <2> QED
    BY <1>1, <2>1, <2>2, <2>3 DEF Numbered
<1> QED
  BY <1>2, <1>3 DEF OrderBody

\* A worker that completes and has not to do with the trip, or finds none.
LEMMA CompletesOrdered ==
    ASSUME PlanTyped, NEW j \in Job, OrderBody(j), UNCHANGED <<trips, work, flight>>,
           \A k \in Task : tasks'[k].number = tasks[k].number,
           job[j].at \in {"call", "write"}, NEW o \in Noted, Completed(j, o),
           Worker(j) \notin OnTrip \/ ~Live(work[j].trip)
    PROVE  OrderBody(j)'
<1> DEFINE t == work[j].trip
<1>1. Live(t)' = Live(t) /\ NumbersLast(j)' = NumbersLast(j)
  BY DEF Live, NumbersLast
<1>2. /\ job'[j].at \in {"ok", "call"}
      /\ \A names : Did(j, names)' <=> Did(j, names) \/ Worker(j) \in names
  BY StepDone
<1>3. Worker(j) \notin OnTrip => (Did(j, {"number"})' <=> Did(j, {"number"}))
          /\ (Did(j, {"remove", "reorder"})' <=> Did(j, {"remove", "reorder"}))
  BY <1>2 DEF OnTrip
<1>4. ReadNow(j)'
  BY <1>2 DEF ReadNow
<1>5. Ordered(j)'
  BY <1>1, <1>3 DEF OrderBody, Ordered, Forth
<1>6. Numbered(j)'
  <2> SUFFICES ASSUME NumbersLast(j)' PROVE Numbered(j)'
    BY DEF Numbered
  <2>1. Numbered(j) /\ NumbersLast(j) /\ job[j].at \in Forth /\ job[j].at # "ok"
    BY <1>1 DEF OrderBody, Forth
  <2>2. \A k, n : Placed(j, k, n)' = Placed(j, k, n)
    BY DEF Placed
  <2>3. ASSUME flight # {} PROVE Live(t) /\ Worker(j) \notin OnTrip /\ Did(j, {"number"})'
    BY <2>1, <2>3, <1>3 DEF Numbered, OnTrip
  <2>4. ASSUME Did(j, {"number"})', Live(t), NEW k \in ToSet(trips[t].tasks)
        PROVE  Placed(j, k, tasks'[k].number)
    <3>1. k \in Task /\ Did(j, {"number"})
      BY <1>3, <2>4, HeldTasks
    <3> QED
      BY <2>1, <2>4, <3>1 DEF Numbered
  <2> QED
    BY <1>1, <1>2, <2>1, <2>2, <2>3, <2>4 DEF Numbered
<1> QED
  BY <1>4, <1>5, <1>6 DEF OrderBody

\* A trip that was shortened or reordered is in order.
LEMMA RewrittenOrder ==
    ASSUME PlanTyped, NEW j \in Job, OrderBody(j), work' = work, job[j].at = "write",
           Worker(j) \in {"remove", "reorder"}, flight' = flight, NEW o \in Noted, Answers(j, o),
           Live(work[j].trip)' => InOrder(trips[work[j].trip])'
    PROVE  OrderBody(j)'
<1> DEFINE n == Len(job[j].out)
<1>1. NumbersLast(j)' = NumbersLast(j)
  BY DEF NumbersLast
<1>2. job'[j].at \in {"ok", "call", "stepFailed"}
  BY StepDone, StepStays DEF Answers
<1>3. ReadNow(j)' /\ Ordered(j)'
  BY <1>2 DEF ReadNow, Ordered
<1>4. ASSUME NumbersLast(j) PROVE ~Did(j, {"number"})
  <2>1. job[j].out \in Seq(Noted) /\ job[j].step = n + 1 /\ job[j].step \in DOMAIN work[j].steps
    BY AtStep DEF PlanTyped, JobsShaped, Shaped
  <2>2. DOMAIN job[j].out = 1..n /\ n \in Nat /\ work[j].steps \in Seq(Workers)
    <3>1. work[j].kind = "saga"
      BY AtStep
    <3> QED
      BY <2>1, <3>1, WorkIs DEF PlanTyped
  <2>3. ASSUME NEW i \in 1..n, work[j].steps[i] = "number" PROVE FALSE
    <3>1. i \in DOMAIN work[j].steps /\ n + 1 \in DOMAIN work[j].steps /\ ~(n + 1 < i)
      BY <2>1, <2>2, <2>3
    <3> QED
      BY <1>4, <2>1, <2>3, <3>1 DEF NumbersLast, Worker
  <2> QED
    BY <2>2, <2>3 DEF Did
<1>5. Worker(j) # "number" /\ (Did(j, {"number"})' <=> Did(j, {"number"}))
  <2>1. CASE Completed(j, o)
    BY <2>1, StepDone
  <2>2. CASE GoesTo(j, "stepFailed")
    BY <2>2, StepStays
  <2> QED
    BY <2>1, <2>2 DEF Answers
<1>6. Numbered(j)'
  <2> SUFFICES ASSUME NumbersLast(j) PROVE Numbered(j)'
    BY <1>1 DEF Numbered
  <2>1. flight = {}
    BY <1>4, <1>5 DEF OrderBody, Numbered, Forth
  <2> QED
    BY <1>2, <1>4, <1>5, <2>1 DEF Numbered
<1> QED
  BY <1>3, <1>6 DEF OrderBody

\* removeTaskFromTrip leaves the trip in order, or deletes it.
LEMMA RemoveOrdered ==
    ASSUME PlanTyped, NEW j \in Job, OrderBody(j), RemoveTaskFromTrip(j) PROVE OrderBody(j)'
<1> DEFINE t == work[j].trip
           rest == Rest(j)
<1>1. /\ job[j].at = "write" /\ Worker(j) = "remove" /\ Answers(j, Found(j)) /\ Found(j) \in Noted
      /\ UNCHANGED <<work, flight>> /\ job[j].doc.trip.tasks \in Seq(Task)
  BY ReadIs DEF RemoveTaskFromTrip, Writing, At, OnTrip
<1>2. t \in DOMAIN trips
  BY <1>1 DEF OrderBody, ReadNow, OnTrip, Live
<1>3. /\ rest \in Seq(Task)
      /\ \A m, n \in DOMAIN rest : m < n => Window[rest[m]].start <= Window[rest[n]].start
  BY <1>1, ByWindowIs, ByWindowSorts DEF Rest
<1>4. trips[t] \in TripDoc
  BY <1>2 DEF PlanTyped, TripsTyped
<1>5. Live(t)' => InOrder(trips[t])'
  <2>1. CASE rest = <<>>
    <3>1. trips' = [trips EXCEPT ![t].deleted = TRUE]
      BY <2>1 DEF RemoveTaskFromTrip
    <3>2. trips'[t].deleted
      BY <1>2, <1>4, <3>1 DEF TripDoc
    <3> QED
      BY <1>1, <3>2 DEF Live
  <2>2. CASE rest # <<>>
    <3> DEFINE done == job[j].doc.trip.done \/ ToSet(Rest(j)) \cap Open = {}
    <3>1. trips' = [trips EXCEPT ![t].tasks = rest, ![t].window = Hull(rest), ![t].done = done]
      BY <2>2 DEF RemoveTaskFromTrip
    <3> HIDE DEF rest, done
    <3>2. trips'[t].tasks = rest /\ trips'[t].window = Hull(rest)
      BY <1>2, <1>4, <3>1 DEF TripDoc
    <3>3. InOrder(trips'[t])
      BY <1>3, <3>2 DEF InOrder
    <3> QED
      BY <1>1, <3>3 DEF Live, InOrder
  <2> QED
    BY <2>1, <2>2
<1> QED
  BY <1>1, <1>5, RewrittenOrder

\* reorderTaskSequenceInTrip leaves the trip in order.
LEMMA ReorderOrdered ==
    ASSUME PlanTyped, NEW j \in Job, OrderBody(j), ReorderTaskSequenceInTrip(j) PROVE OrderBody(j)'
<1> DEFINE t == work[j].trip
           sorted == ByWindow(job[j].doc.trip.tasks, Task)
<1>1. /\ job[j].at = "write" /\ Worker(j) = "reorder" /\ Answers(j, Found(j)) /\ Found(j) \in Noted
      /\ UNCHANGED <<work, flight>> /\ job[j].doc.trip.tasks \in Seq(Task)
  BY ReadIs DEF ReorderTaskSequenceInTrip, Writing, At, OnTrip
<1>2. Live(t) /\ t \in DOMAIN trips
  BY <1>1 DEF OrderBody, ReadNow, OnTrip, Live
<1>3. \A m, n \in DOMAIN sorted : m < n => Window[sorted[m]].start <= Window[sorted[n]].start
  BY <1>1, ByWindowSorts
<1>4. trips[t] \in TripDoc
  BY <1>2 DEF PlanTyped, TripsTyped
<1>5. trips' = [trips EXCEPT ![t].tasks = sorted, ![t].window = Hull(sorted)]
  BY <1>2 DEF ReorderTaskSequenceInTrip
<1> HIDE DEF sorted
<1>6. trips'[t].tasks = sorted /\ trips'[t].window = Hull(sorted)
  BY <1>2, <1>4, <1>5 DEF TripDoc
<1>7. InOrder(trips'[t])
  BY <1>3, <1>6 DEF InOrder
<1>8. InOrder(trips[t])'
  BY <1>1, <1>7 DEF InOrder
<1> QED
  BY <1>1, <1>8, RewrittenOrder

\* Reading the trip.
LEMMA ReadOrdered ==
    ASSUME PlanTyped, NEW j \in Job, OrderBody(j), ReadTrip(j) PROVE OrderBody(j)'
<1> DEFINE t == work[j].trip
<1>1. /\ job[j].at = "call" /\ Worker(j) \in OnTrip
      /\ UNCHANGED <<trips, tasks, work, flight, faults, before, overlapped, damaged>>
  BY DEF ReadTrip, Called, At, OnTrip
<1>2. CASE GoesTo(j, "stepFailed")
  <2>1. /\ job'[j].at = "stepFailed" /\ Worker(j)' = Worker(j)
        /\ \A names : Did(j, names)' <=> Did(j, names)
    BY <1>1, <1>2, StepStays
  <2>2. ReadNow(j)'
    BY <2>1 DEF ReadNow
  <2> QED
    BY <1>1, <2>1, <2>2, StaysOrdered
<1>3. CASE ~GoesTo(j, "stepFailed") /\ ~Live(t)
  <2>1. Completed(j, NotFound)
    BY <1>3 DEF ReadTrip
  <2> QED
    BY <1>1, <1>3, <2>1, NotedIs, CompletesOrdered
<1>4. CASE ~GoesTo(j, "stepFailed") /\ Live(t)
  <2> DEFINE doc == [trip |-> trips[t], numbers |-> [k \in Task |-> tasks[k].number]]
  <2>1. job' = [job EXCEPT ![j].at = "write", ![j].doc = doc] /\ doc.trip = trips[t]
    BY <1>4 DEF ReadTrip
  <2> HIDE DEF doc
  <2>2. DOMAIN job = Job /\ DOMAIN job[j] = {"at", "step", "doc", "out"}
    BY DEF PlanTyped, JobsShaped, Shaped
  <2>3. /\ job'[j].at = "write" /\ job'[j].step = job[j].step
        /\ job'[j].doc = doc /\ job'[j].out = job[j].out
    BY <2>1, <2>2
  <2>4. Worker(j)' = Worker(j) /\ \A names : Did(j, names)' <=> Did(j, names)
    BY <1>1, <2>3 DEF Worker, Did
  <2>5. ReadNow(j)'
    BY <1>1, <1>4, <2>1, <2>3 DEF ReadNow, Live
  <2> QED
    BY <1>1, <2>3, <2>4, <2>5, StaysOrdered
<1> QED
  BY <1>2, <1>3, <1>4

\* setTaskSequenceSystemByTrip sends each task its place in the trip.
LEMMA NumberOrdered ==
    ASSUME PlanTyped, NEW j \in Job, OrderBody(j), SetTaskSequenceSystemByTrip(j) PROVE OrderBody(j)'
<1> DEFINE t == work[j].trip
           list == trips[t].tasks
           sorted == ByWindow(job[j].doc.trip.tasks, Task)
           number == [k \in ToSet(sorted) |-> CHOOSE i \in DOMAIN sorted : sorted[i] = k]
           n == Len(job[j].out)
<1>1. /\ job[j].at = "write" /\ Worker(j) = "number" /\ GoesTo(j, "number")
      /\ UNCHANGED <<trips, tasks, work, before>>
      /\ flight' = flight \cup Numbering(j, number)
  BY DEF SetTaskSequenceSystemByTrip, Writing, At
<1>2. Live(t) /\ job[j].doc.trip = trips[t] /\ list \in Seq(Task)
  <2>1. Live(t) /\ job[j].doc.trip = trips[t]
    BY <1>1 DEF OrderBody, ReadNow, OnTrip
  <2>2. trips[t] \in TripDoc
    BY <2>1 DEF PlanTyped, TripsTyped, Live
  <2> QED
    BY <2>1, <2>2 DEF TripDoc
<1>3. /\ job'[j].at = "number" /\ job'[j].doc = job[j].doc /\ Worker(j)' = Worker(j)
      /\ \A names : Did(j, names)' <=> Did(j, names)
  BY <1>1, StepStays
<1>4. Live(t)' = Live(t) /\ NumbersLast(j)' = NumbersLast(j) /\ \A k, i : Placed(j, k, i)' = Placed(j, k, i)
  BY <1>1 DEF Live, NumbersLast, Placed
<1>5. ReadNow(j)'
  BY <1>1, <1>2, <1>3, <1>4 DEF ReadNow
<1>6. Ordered(j)'
  BY <1>1, <1>3, <1>4 DEF OrderBody, Ordered, Forth, InOrder
<1>7. Numbered(j)'
  <2> SUFFICES ASSUME NumbersLast(j) PROVE Numbered(j)'
    BY <1>4 DEF Numbered
  <2>1. Did(j, {"remove", "reorder"})
    <3>1. /\ job[j].out \in Seq(Noted) /\ job[j].step = n + 1 /\ job[j].step \in DOMAIN work[j].steps
          /\ work[j].kind = "saga"
      BY <1>1, AtStep DEF PlanTyped, JobsShaped, Shaped
    <3>2. DOMAIN job[j].out = 1..n /\ n \in Nat /\ work[j].steps \in Seq(Workers)
      BY <3>1, WorkIs DEF PlanTyped
    <3>3. PICK i \in DOMAIN work[j].steps : work[j].steps[i] \in {"remove", "reorder"}
      BY DEF NumbersLast, ToSet
    <3>4. i < n + 1 /\ i \in Nat /\ 1 <= i
      <4>1. work[j].steps[n + 1] = "number"
        BY <1>1, <3>1 DEF Worker
      <4> QED
        BY <3>1, <3>2, <3>3, <4>1 DEF NumbersLast
    <3>5. i \in 1..n
      <4> HIDE DEF n
      <4> QED
        BY <3>2, <3>4
    <3> QED
      BY <3>2, <3>3, <3>5 DEF Did
  <2>2. InOrder(trips[t])
    BY <1>1, <1>2, <2>1 DEF OrderBody, Ordered, Forth
  <2>3. sorted = list
    BY <1>2, <2>2, SortedStays DEF InOrder
  <2> HIDE DEF sorted
  <2>4. \A k \in ToSet(list) : number[k] \in DOMAIN list /\ list[number[k]] = k
    BY <2>3 DEF ToSet
  <2>5. Numbering(j, number) =
          {[by |-> j, op |-> "number", task |-> k, number |-> number[k]] : k \in ToSet(list)}
    BY <1>2 DEF Numbering
  <2> HIDE DEF number
  <2>6. /\ \A w \in Numbering(j, number) : w.op = "number" /\ Placed(j, w.task, w.number)
        /\ \A k \in ToSet(list) : \E w \in Numbering(j, number) : w.by = j /\ w.task = k
    <3>1. ASSUME NEW w \in Numbering(j, number)
          PROVE  w.op = "number" /\ Placed(j, w.task, w.number)
      <4>1. PICK k \in ToSet(list) : w = [by |-> j, op |-> "number", task |-> k, number |-> number[k]]
        BY <2>5
      <4>2. w.op = "number" /\ w.task = k /\ w.number = number[k]
        BY <4>1
      <4> QED
        BY <2>4, <4>2 DEF Placed
    <3>2. ASSUME NEW k \in ToSet(list)
          PROVE  \E w \in Numbering(j, number) : w.by = j /\ w.task = k
      <4> DEFINE w == [by |-> j, op |-> "number", task |-> k, number |-> number[k]]
      <4>1. w \in Numbering(j, number) /\ w.by = j /\ w.task = k
        BY <2>5
      <4> QED
        BY <4>1
    <3> QED
      BY <3>1, <3>2
  <2>7. Numbered(j)
    BY DEF OrderBody
  <2>8. \A w \in flight : w.op = "number" /\ Placed(j, w.task, w.number)
    BY <1>1, <2>7 DEF Numbered, Forth
  <2>9. Did(j, {"number"}) => \A k \in ToSet(list) : Placed(j, k, tasks[k].number)
    BY <1>1, <1>2, <2>7 DEF Numbered, Forth
  <2> QED
    BY <1>1, <1>2, <1>3, <1>4, <2>6, <2>8, <2>9 DEF Numbered
<1> QED
  BY <1>5, <1>6, <1>7 DEF OrderBody

\* When all numbers have landed, each task is where its number says.
LEMMA NumberedOrdered ==
    ASSUME PlanTyped, NEW j \in Job, OrderBody(j), TasksAreNumbered(j) PROVE OrderBody(j)'
<1> DEFINE t == work[j].trip
<1>1. /\ job[j].at = "number" /\ Completed(j, Found(j)) /\ ~\E w \in flight : w.by = j
      /\ UNCHANGED <<trips, tasks, work, flight>>
  BY DEF TasksAreNumbered, At
<1>2. Worker(j) = "number" /\ Found(j) \in Noted
  BY <1>1, AtStep, ReadIs DEF OnTrip
<1>3. /\ job'[j].at \in {"ok", "call"}
      /\ \A names : Did(j, names)' <=> Did(j, names) \/ Worker(j) \in names
  BY <1>1, <1>2, StepDone
<1>4. Live(t)' = Live(t) /\ NumbersLast(j)' = NumbersLast(j) /\ \A k, i : Placed(j, k, i)' = Placed(j, k, i)
  BY <1>1 DEF Live, NumbersLast, Placed
<1>5. ReadNow(j)'
  BY <1>3 DEF ReadNow
<1>6. Did(j, {"number"})' /\ (Did(j, {"remove", "reorder"})' <=> Did(j, {"remove", "reorder"}))
  BY <1>2, <1>3
<1>7. Ordered(j)'
  BY <1>1, <1>4, <1>6 DEF OrderBody, Ordered, Forth, InOrder
<1>8. Numbered(j)'
  <2> SUFFICES ASSUME NumbersLast(j) PROVE Numbered(j)'
    BY <1>4 DEF Numbered
  <2>1. Numbered(j) /\ job[j].at \in Forth
    BY <1>1 DEF OrderBody, Forth
  <2> QED
    BY <1>1, <1>3, <1>4, <1>6, <2>1 DEF Numbered
<1> QED
  BY <1>5, <1>7, <1>8 DEF OrderBody

\* The workers that write to tasks or nothing, failing, and calling again.
LEMMA OthersOrdered ==
    ASSUME PlanTyped, NEW j \in Job, OrderBody(j),
           \/ AssignStaffToTasks(j) \/ ReadTodos(j) \/ DeleteTodosByTask(j) \/ DeleteTaskById(j)
           \/ OtherStep(j) \/ StepThrows(j) \/ Again(j)
    PROVE  OrderBody(j)'
<1>1. UNCHANGED <<trips, work, flight>> /\ \A k \in Task : tasks'[k].number = tasks[k].number
  <2>1. tasks \in [Task -> TaskDoc]
    BY DEF PlanTyped, TasksTyped
  <2>2. CASE AssignStaffToTasks(j)
    BY <2>1, <2>2 DEF AssignStaffToTasks, TaskDoc
  <2>3. CASE DeleteTodosByTask(j) \/ DeleteTaskById(j)
    BY <2>1, <2>3 DEF DeleteTodosByTask, DeleteTaskById, TaskDoc
  <2>4. CASE ReadTodos(j) \/ OtherStep(j) \/ StepThrows(j) \/ Again(j)
    BY <2>4 DEF ReadTodos, OtherStep, StepThrows, Again
  <2> QED
    BY <2>2, <2>3, <2>4
<1>2. ASSUME job[j].at \in {"call", "write", "stepFailed"}, NEW place \in {"call", "write", "stepFailed"},
             GoesTo(j, place), place = "write" => Worker(j) \notin OnTrip
      PROVE  OrderBody(j)'
  <2>1. /\ job'[j].at = place /\ Worker(j)' = Worker(j)
        /\ \A names : Did(j, names)' <=> Did(j, names)
    BY <1>1, <1>2, StepStays
  <2>2. ReadNow(j)'
    BY <1>2, <2>1 DEF ReadNow
  <2> QED
    BY <1>1, <1>2, <2>1, <2>2, StaysOrdered
<1>3. CASE ReadTodos(j) \/ StepThrows(j) \/ Again(j)
  <2>1. CASE ReadTodos(j)
    <3>1. job[j].at = "call" /\ Worker(j) \notin OnTrip /\ (GoesTo(j, "stepFailed") \/ GoesTo(j, "write"))
      BY <2>1 DEF ReadTodos, Called, At, OnTrip
    <3> QED
      BY <1>2, <3>1
  <2>2. CASE StepThrows(j)
    BY <1>2, <2>2 DEF StepThrows, At
  <2>3. CASE Again(j)
    BY <1>2, <2>3 DEF Again
  <2> QED
    BY <1>3, <2>1, <2>2, <2>3
<1>4. CASE AssignStaffToTasks(j) \/ DeleteTodosByTask(j) \/ DeleteTaskById(j) \/ OtherStep(j)
  <2>1. /\ job[j].at \in {"call", "write"} /\ Worker(j) \notin OnTrip
        /\ Completed(j, NotFound) \/ GoesTo(j, "stepFailed")
    BY <1>4 DEF AssignStaffToTasks, DeleteTodosByTask, DeleteTaskById, OtherStep, Answers, Called, Writing, At,
                OnTrip
  <2>2. CASE Completed(j, NotFound)
    BY <1>1, <2>1, <2>2, NotedIs, CompletesOrdered
  <2>3. CASE GoesTo(j, "stepFailed")
    BY <1>2, <2>1, <2>3
  <2> QED
    BY <2>1, <2>2, <2>3
<1> QED
  BY <1>3, <1>4

\* Every step of a workflow.
LEMMA SagaOrdered ==
    ASSUME PlanTyped, NEW j \in Job, OrderBody(j), SagaStep(j) PROVE OrderBody(j)'
<1>1. CASE Compensate(j) \/ NothingToRestore(j) \/ RestoreNumbers(j)
  <2>1. work' = work /\ \E place \in {"undo", "undone", "broken", "unnumber"} : GoesTo(j, place)
    BY <1>1 DEF Compensate, NothingToRestore, RestoreNumbers
  <2>2. job'[j].at \in {"undo", "undone", "broken", "unnumber"}
    BY <2>1, StepStays
  <2> QED
    BY <2>2, UndoneOrder
<1>2. CASE RestoreTrip(j) \/ RestoreSequence(j) \/ NumbersAreRestored(j) \/ RestoreStaff(j) \/ RestoreTodos(j)
           \/ RestoreTask(j) \/ UndoOther(j) \/ UndoThrows(j)
  <2>1. Compensated(j) \/ CompensationThrows(j)
    BY <1>2 DEF RestoreTrip, RestoreSequence, RestoreStaff, RestoreTodos, RestoreTask, UndoOther, UndoThrows,
                NumbersAreRestored, CompensationAnswers
  <2>2. job'[j].at \in {"undo", "undone", "broken"}
    BY <2>1, JobMoves DEF PlanTyped, CompensationThrows
  <2> QED
    BY <2>2, UndoneOrder
<1> QED
  BY <1>1, <1>2, RemoveOrdered, ReorderOrdered, ReadOrdered, NumberOrdered, NumberedOrdered, OthersOrdered
  DEF SagaStep

\* A request that goes on leaves every other job alone, and is no workflow unless it fails.
RequestStep(j) ==
    CheckTasks(j) \/ InsertTrip(j) \/ UpsertTrip(j) \/ AddToSet(j) \/ BindTripToTask(j) \/ RequestThrows(j)

LEMMA RequestMoves ==
    ASSUME PlanTyped, NEW j \in Job, RequestStep(j)
    PROVE  /\ Active(j) /\ work' = work /\ overlapped' = overlapped
           /\ \A i \in Job \ {j} : job'[i] = job[i]
           /\ work[j].kind = "saga" => job'[j].at = "failed"
<1>1. Active(j) /\ work' = work /\ overlapped' = overlapped
  BY DEF RequestStep, CheckTasks, InsertTrip, UpsertTrip, AddToSet, BindTripToTask, RequestThrows, At, Active, Ends
<1>2. CASE ~RequestThrows(j)
  <2>1. work[j].kind # "saga"
    BY <1>2 DEF RequestStep, CheckTasks, InsertTrip, UpsertTrip, AddToSet, BindTripToTask, At, Creations
  <2>2. (\E place : GoesTo(j, place)) \/ (\E x : TripIsMade(j, x))
    BY <1>2 DEF RequestStep, CheckTasks, InsertTrip, UpsertTrip, AddToSet, BindTripToTask, BindThrows
  <2>3. CASE \E place : GoesTo(j, place)
    BY <1>1, <2>1, <2>3, JobMoves DEF PlanTyped
  <2>4. ASSUME NEW x, TripIsMade(j, x) PROVE \A i \in Job \ {j} : job'[i] = job[i]
    BY <2>4 DEF TripIsMade, GoesTo, PlanTyped, JobsShaped
  <2> QED
    BY <1>1, <2>1, <2>2, <2>3, <2>4
<1>3. CASE RequestThrows(j)
  <2>1. GoesTo(j, "failed")
    BY <1>3 DEF RequestThrows, BindThrows
  <2> QED
    BY <1>1, <2>1, JobMoves DEF PlanTyped
<1> QED
  BY <1>2, <1>3

\* What can happen to a workflow that is alone: a step of its own, a write under way, its
\* beginning, or something that leaves it and the documents alone.
LEMMA SingleGoes ==
    ASSUME PlanTyped, HolderInv, [Next]_vars, NEW j \in Job, Single(j)'
    PROVE  \/ Single(j) /\ SagaStep(j)
           \/ Single(j) /\ \E w \in flight : Land(w) \/ WriteThrows(w)
           \/ Submit(j) /\ flight = {} /\ work[j].kind = "saga"
           \/ /\ Single(j)
              /\ UNCHANGED <<trips, tasks, work, job, flight, before, overlapped, damaged>>
<1> DEFINE company == {i \in Job : Active(i)}
<1>1. CASE UNCHANGED <<trips, tasks, work, job, flight, before, overlapped, damaged>>
  <2>1. Single(j)
    BY <1>1 DEF Single, Active
  <2> QED
    BY <1>1, <2>1
<1>2. ASSUME NEW i \in Job, SagaStep(i) PROVE Single(j) /\ SagaStep(j)
  <2>1. Going(i)
    BY <1>2, SagaMoves
  <2>2. i = j
    <3> SUFFICES ASSUME i # j PROVE FALSE
      OBVIOUS
    <3>1. job'[j] = job[j] /\ Active(i) /\ overlapped' = overlapped
      BY <2>1 DEF Going
    <3>2. Active(j)
      BY <3>1 DEF Single, Active
    <3> QED
      BY <3>1, <3>2 DEF Single, HolderInv, Met
  <2> QED
    BY <1>2, <2>1, <2>2 DEF Going, Single
<1>3. ASSUME NEW i \in Job, RequestStep(i) PROVE FALSE
  <2>1. /\ Active(i) /\ work' = work /\ overlapped' = overlapped
        /\ \A l \in Job \ {i} : job'[l] = job[l]
        /\ work[i].kind = "saga" => job'[i].at = "failed"
    BY <1>3, RequestMoves
  <2>2. i # j
    BY <2>1 DEF Single, Active, Ends
  <2>3. Active(j)
    BY <2>1, <2>2 DEF Single, Active
  <2> QED
    BY <2>1, <2>2, <2>3 DEF Single, HolderInv, Met
<1>4. ASSUME NEW i \in Job, Submit(i) PROVE Submit(j) /\ flight = {} /\ work[j].kind = "saga"
  <2>1. /\ overlapped' = IF company \cup flight = {} THEN overlapped ELSE overlapped \cup company \cup {i}
        /\ work' = work /\ \E place : GoesTo(i, place)
    BY <1>4 DEF Submit
  <2>2. \A l \in Job \ {i} : job'[l] = job[l]
    BY <2>1, JobMoves DEF PlanTyped
  <2>3. j \notin overlapped' /\ work[j].kind = "saga" /\ Active(j)'
    BY <2>1 DEF Single
  <2>4. i = j
    <3> SUFFICES ASSUME i # j PROVE FALSE
      OBVIOUS
    <3>1. Active(j)
      BY <2>2, <2>3 DEF Active
    <3> QED
      BY <2>1, <2>3, <3>1
  <2> QED
    BY <1>4, <2>1, <2>3, <2>4
<1>5. ASSUME NEW w \in flight, Land(w) \/ WriteThrows(w) PROVE Single(j)
  <2>1. CASE Land(w)
    BY <2>1 DEF Land, Single, Active
  <2>2. CASE WriteThrows(w)
    <3>1. work' = work /\ overlapped' = overlapped
      BY <2>2 DEF WriteThrows
    <3>2. CASE w.by = NoJob
      BY <2>2, <3>1, <3>2 DEF WriteThrows, Single, Active
    <3>3. CASE w.by # NoJob
      <4> DEFINE i == w.by
      <4>1. i \in Job /\ job[i].at \in {"number", "unnumber"} /\ \E place : GoesTo(i, place)
        BY <2>2, <3>3, WriteIs DEF WriteThrows
      <4> HIDE DEF i
      <4>2. \A l \in Job \ {i} : job'[l] = job[l]
        BY <4>1, JobMoves DEF PlanTyped
      <4>3. Active(j)
        <5>1. CASE i = j
          BY <4>1, <5>1 DEF Active, Ends
        <5>2. CASE i # j
          BY <4>2, <5>2 DEF Single, Active
        <5> QED
          BY <5>1, <5>2
      <4> QED
        BY <3>1, <4>3 DEF Single
    <3> QED
      BY <3>2, <3>3
  <2> QED
    BY <1>5, <2>1, <2>2
<1>6. ASSUME NEW c \in Call, CallStep(c) 
      PROVE  UNCHANGED <<trips, tasks, work, job, flight, before, overlapped, damaged>>
  BY <1>6 DEF CallStep, ReadCache, ReadTripOfStaff, ReadTaskPool, GetAssignTask, ReadThrows, SaveCache,
              SaveCacheThrows, planning
<1>7. ASSUME NEW i \in Job, JobStep(i) PROVE SagaStep(i) \/ RequestStep(i) \/ Submit(i)
  BY <1>7 DEF JobStep, SagaStep, RequestStep
<1> QED
  BY <1>1, <1>2, <1>3, <1>4, <1>5, <1>6, <1>7 DEF Next, PlanningNext, vars, planning

\* Writes under way are those of the workflow, or nobody waits for them.
LEMMA SingleWrites ==
    ASSUME PlanTyped, HolderInv, NEW j \in Job, Single(j), NEW w \in flight
    PROVE  w.by \in {j, NoJob} /\ (w.by = j => job[j].at \in {"number", "unnumber"})
<1>1. w.by # NoJob => w.by \in Job /\ job[w.by].at \in {"number", "unnumber"}
  BY WriteIs
<1>2. w.by # NoJob => Active(w.by)
  BY <1>1 DEF Active, Ends
<1>3. NoJob \notin Job
  BY PlanningAssumption
<1> QED
  BY <1>1, <1>2, <1>3 DEF Single, HolderInv, Met

\* What is left under way when a write failed.
LEMMA WritesLeft ==
    ASSUME PlanTyped, NEW w \in flight, WriteThrows(w)
    PROVE  /\ \A x \in flight' : \E v \in flight :
                x.op = v.op /\ (x.op = "number" => x.task = v.task /\ x.number = v.number)
           /\ w.by = NoJob => flight' = flight \ {w}
<1>1. flight' = {IF v.by = w.by THEN [v EXCEPT !.by = NoJob] ELSE v : v \in flight \ {w}}
  BY DEF WriteThrows
<1>2. \A v \in flight : v \in WriteDoc
  BY DEF PlanTyped, FlightShaped
<1>3. ASSUME NEW v \in flight
      PROVE  LET x == [v EXCEPT !.by = NoJob]
             IN  /\ x.op = v.op /\ (x.op = "number" => x.task = v.task /\ x.number = v.number)
                 /\ v.by = NoJob => x = v
  BY <1>2 DEF WriteDoc
<1>4. w.by = NoJob => flight' = flight \ {w}
  BY <1>1, <1>3
<1>5. ASSUME NEW x \in flight'
      PROVE  \E v \in flight : x.op = v.op /\ (x.op = "number" => x.task = v.task /\ x.number = v.number)
  BY <1>1, <1>3
<1> QED
  BY <1>4, <1>5

\* A number lands, or its write fails.
LEMMA WritesOrdered ==
    ASSUME PlanTyped, HolderInv, NEW j \in Job, Single(j), OrderBody(j), NEW w \in flight,
           Land(w) \/ WriteThrows(w)
    PROVE  OrderBody(j)'
<1> DEFINE t == work[j].trip
<1>1. UNCHANGED <<trips, work>> /\ Live(t)' = Live(t) /\ NumbersLast(j)' = NumbersLast(j)
      /\ \A k, i : Placed(j, k, i)' = Placed(j, k, i)
  BY DEF Land, WriteThrows, Live, NumbersLast, Placed
<1>2. CASE Land(w)
  <2>1. job' = job /\ flight' = flight \ {w} /\ Worker(j)' = Worker(j) /\ \A names : Did(j, names)' = Did(j, names)
    BY <1>2 DEF Land, Worker, Did
  <2>2. ReadNow(j)' /\ Ordered(j)'
    BY <1>1, <2>1 DEF OrderBody, ReadNow, Ordered, InOrder
  <2>3. Numbered(j)'
    <3> SUFFICES ASSUME job[j].at \in Forth, NumbersLast(j) PROVE Numbered(j)'
      BY <1>1, <2>1 DEF Numbered
    <3>1. Numbered(j)
      BY DEF OrderBody
    <3>2. w.op = "number" /\ Live(t) /\ Placed(j, w.task, w.number)
      BY <3>1 DEF Numbered
    <3>3. tasks' = [tasks EXCEPT ![w.task].number = w.number] /\ tasks \in [Task -> TaskDoc]
      BY <1>2, <3>2 DEF Land, PlanTyped, TasksTyped
    <3>4. \A k \in Task : tasks'[k].number = IF k = w.task THEN w.number ELSE tasks[k].number
      BY <3>3 DEF TaskDoc
    <3>5. \A k \in ToSet(trips[t].tasks) : k \in Task
      BY <3>2, HeldTasks
    <3> QED
      BY <1>1, <2>1, <3>1, <3>2, <3>4, <3>5 DEF Numbered
  <2> QED
    BY <2>2, <2>3 DEF OrderBody
<1>3. CASE WriteThrows(w) /\ w.by = NoJob
  <2>1. job' = job /\ flight' = flight \ {w} /\ tasks' = tasks
        /\ Worker(j)' = Worker(j) /\ \A names : Did(j, names)' = Did(j, names)
    BY <1>3, WritesLeft DEF WriteThrows, Worker, Did
  <2>2. ReadNow(j)' /\ Ordered(j)'
    BY <1>1, <2>1 DEF OrderBody, ReadNow, Ordered, InOrder
  <2>3. Numbered(j)'
    <3>1. NoJob # j
      BY PlanningAssumption
    <3> QED
      BY <1>1, <1>3, <2>1, <3>1 DEF OrderBody, Numbered
  <2> QED
    BY <2>2, <2>3 DEF OrderBody
<1>4. CASE WriteThrows(w) /\ w.by # NoJob
  <2>1. w.by = j /\ job[j].at \in {"number", "unnumber"}
    BY <1>4, SingleWrites
  <2>2. PICK place \in {"stepFailed", "undo", "broken"} :
          GoesTo(j, place) /\ (place = "stepFailed" => job[j].at = "number")
    BY <1>4, <2>1 DEF WriteThrows
  <2>3. /\ job'[j].at = place /\ Worker(j)' = Worker(j) /\ \A names : Did(j, names)' <=> Did(j, names)
    BY <1>1, <2>2, StepStays
  <2>4. CASE place # "stepFailed"
    BY <2>3, <2>4, UndoneOrder
  <2>5. CASE place = "stepFailed"
    <3>1. ReadNow(j)' /\ Ordered(j)'
      BY <1>1, <2>2, <2>3, <2>5 DEF OrderBody, ReadNow, Ordered, InOrder, Forth
    <3>2. Numbered(j)'
      <4>1. tasks' = tasks
        BY <1>4 DEF WriteThrows
      <4> QED
        BY <1>1, <1>4, <2>2, <2>3, <2>5, <4>1, WritesLeft DEF OrderBody, Numbered, Forth
    <3> QED
      BY <3>1, <3>2 DEF OrderBody
  <2> QED
    BY <2>4, <2>5
<1> QED
  BY <1>2, <1>3, <1>4

\* A workflow that begins has done nothing.
LEMMA SubmitOrdered ==
    ASSUME PlanTyped, NEW j \in Job, Submit(j), flight = {}, work[j].kind = "saga" PROVE OrderBody(j)'
<1>1. work' = work /\ flight' = {} /\ GoesTo(j, "call") /\ job[j].at = "ready"
  BY DEF Submit, Creations
<1>2. job'[j].at = "call" /\ \A names : ~Did(j, names)'
  <2>1. job[j].out = <<>>
    BY <1>1 DEF PlanTyped, JobsShaped, Shaped
  <2> QED
    BY <1>1, <2>1, StepStays DEF Did
<1> QED
  BY <1>1, <1>2 DEF OrderBody, ReadNow, Ordered, Numbered

\* Every step keeps the order.
LEMMA OrderStep == PlanTyped /\ HolderInv /\ OrderInv /\ [Next]_vars => OrderInv'
<1> SUFFICES ASSUME PlanTyped, HolderInv, OrderInv, [Next]_vars, NEW j \in Job, Single(j)'
             PROVE  OrderBody(j)'
  BY DEF OrderInv, OrderBody
<1>1. Single(j) => OrderBody(j)
  BY DEF OrderInv, OrderBody
<1>2. CASE Single(j) /\ SagaStep(j)
  BY <1>1, <1>2, SagaOrdered
<1>3. CASE Single(j) /\ \E w \in flight : Land(w) \/ WriteThrows(w)
  BY <1>1, <1>3, WritesOrdered
<1>4. CASE Submit(j) /\ flight = {} /\ work[j].kind = "saga"
  BY <1>4, SubmitOrdered
<1>5. CASE Single(j) /\ UNCHANGED <<trips, tasks, work, job, flight, before, overlapped, damaged>>
  BY <1>1, <1>5 DEF OrderBody, ReadNow, Ordered, Numbered, NumbersLast, InOrder, Placed, Did, Worker, Live
<1> QED
  BY <1>2, <1>3, <1>4, <1>5, SingleGoes

\* A workflow ends by a step of its own.
LEMMA EndsItself ==
    ASSUME PlanTyped, HolderInv, [PlanningNext]_planning, NEW j \in Job, NEW place \in {"ok", "undone"},
           Ending(j, place), work[j].kind = "saga"
    PROVE  SagaStep(j)
<1>1. CASE UNCHANGED planning
  BY <1>1 DEF planning, Ending
<1>2. ASSUME NEW i \in Job, JobStep(i) PROVE SagaStep(j)
  <2>1. SagaStep(i) \/ RequestStep(i) \/ Submit(i)
    BY <1>2 DEF JobStep, SagaStep, RequestStep
  <2>2. \A l \in Job \ {i} : job'[l] = job[l]
    <3>1. CASE SagaStep(i)
      BY <3>1, SagaMoves DEF Going
    <3>2. CASE RequestStep(i)
      BY <3>2, RequestMoves
    <3>3. CASE Submit(i)
      <4>1. \E p : GoesTo(i, p)
        BY <3>3 DEF Submit
      <4> QED
        BY <4>1, JobMoves DEF PlanTyped
    <3> QED
      BY <2>1, <3>1, <3>2, <3>3
  <2>3. i = j
    BY <2>2 DEF Ending
  <2>4. ~RequestStep(j)
    BY RequestMoves DEF Ending
  <2>5. ~Submit(j)
    <3> SUFFICES ASSUME Submit(j) PROVE FALSE
      OBVIOUS
    <3>1. GoesTo(j, "call")
      BY DEF Submit, Creations
    <3>2. job'[j].at = "call"
      BY <3>1, JobMoves DEF PlanTyped
    <3> QED
      BY <3>2 DEF Ending
  <2> QED
    BY <2>1, <2>3, <2>4, <2>5
<1>3. ASSUME NEW w \in flight, Land(w) \/ WriteThrows(w) PROVE FALSE
  <2>1. CASE Land(w) \/ w.by = NoJob
    BY <1>3, <2>1 DEF Land, WriteThrows, Ending
  <2>2. CASE WriteThrows(w) /\ w.by # NoJob
    <3> DEFINE i == w.by
    <3>1. i \in Job /\ \E p \in {"stepFailed", "undo", "broken"} : GoesTo(i, p)
      BY <2>2, WriteIs DEF WriteThrows
    <3> HIDE DEF i
    <3>2. (\A l \in Job \ {i} : job'[l] = job[l]) /\ job'[i].at \in {"stepFailed", "undo", "broken"}
      BY <3>1, JobMoves DEF PlanTyped
    <3> QED
      BY <3>2 DEF Ending
  <2> QED
    BY <1>3, <2>1, <2>2
<1> QED
  BY <1>1, <1>2, <1>3 DEF PlanningNext

\* Before any request no workflow is under way.
LEMMA OrderInit == Init => OrderInv
<1> SUFFICES ASSUME Init, NEW j \in Job, Single(j) PROVE FALSE
  BY DEF OrderInv
<1>1. job[j].at = "ready"
  BY DEF Init, PlanningInit, Waiting
<1> QED
  BY <1>1 DEF Single, Active

\* A step is one of planning, or a call's, which leaves the jobs alone.
LEMMA NextIs == [Next]_vars => [PlanningNext]_planning \/ job' = job
<1>1. ASSUME NEW c \in Call, CallStep(c) PROVE job' = job
  BY <1>1 DEF CallStep, ReadCache, ReadTripOfStaff, ReadTaskPool, GetAssignTask, ReadThrows, SaveCache,
              SaveCacheThrows, planning
<1> QED
  BY <1>1 DEF Next, vars

\* A workflow that ends well leaves its trip in order and its tasks numbered.
LEMMA EndsInOrder ==
    ASSUME PlanTyped, HolderInv, OrderInv, [PlanningNext]_planning, NEW j \in Job,
           Ending(j, "ok"), j \notin overlapped, work[j].kind = "saga", NumbersLast(j), Live(work[j].trip)
    PROVE  LET doc == trips'[work[j].trip]
           IN  /\ InOrder(doc)
               /\ \A k \in ToSet(doc.tasks) :
                    tasks'[k].number \in DOMAIN doc.tasks /\ doc.tasks[tasks'[k].number] = k
<1> DEFINE t == work[j].trip
           n == Len(job[j].out)
<1>1. SagaStep(j)
  BY EndsItself
<1>2. Single(j) /\ work' = work
  BY <1>1, SagaMoves DEF Going, Single
<1>3. OrderBody(j)'
  BY <1>1, <1>2, SagaOrdered DEF OrderInv, OrderBody
<1>4. PICK o \in Noted : Completed(j, o) /\ job[j].at \in {"call", "write", "number"}
  <2>1. \A place : GoesTo(j, place) => job'[j].at = place
    BY JobMoves DEF PlanTyped
  <2>2. Compensated(j) => job'[j].at # "ok"
    BY JobMoves DEF PlanTyped
  <2>3. job'[j].at = "ok"
    BY DEF Ending
  <2>4. \A i \in Job : job[i].at \in {"write", "number"} /\ Worker(i) \in OnTrip => Found(i) \in Noted
    BY ReadIs
  <2>5. CASE ReadTrip(j)
    <3>1. CASE Live(t) /\ ~GoesTo(j, "stepFailed")
      <4>1. PICK doc : job' = [job EXCEPT ![j].at = "write", ![j].doc = doc]
        BY <2>5, <3>1 DEF ReadTrip
      <4>2. DOMAIN job = Job /\ DOMAIN job[j] = {"at", "step", "doc", "out"}
        BY DEF PlanTyped, JobsShaped, Shaped
      <4>3. job'[j].at = "write"
        BY <4>1, <4>2
      <4> QED
        BY <2>3, <4>3
    <3>2. CASE ~(Live(t) /\ ~GoesTo(j, "stepFailed"))
      BY <2>1, <2>3, <2>5, <3>2, NotedIs DEF ReadTrip, Called, At
    <3> QED
      BY <3>1, <3>2
  <2>6. CASE TasksAreNumbered(j)
    <3>1. job[j].at = "number" /\ Worker(j) = "number" /\ Completed(j, Found(j))
      BY <2>6, AtStep DEF TasksAreNumbered, At
    <3> QED
      BY <2>4, <3>1 DEF OnTrip
  <2>7. CASE RemoveTaskFromTrip(j) \/ ReorderTaskSequenceInTrip(j)
    <3>1. job[j].at = "write" /\ Worker(j) \in OnTrip /\ Answers(j, Found(j))
      BY <2>7 DEF RemoveTaskFromTrip, ReorderTaskSequenceInTrip, Writing, At, OnTrip
    <3> QED
      BY <2>1, <2>3, <2>4, <3>1 DEF Answers
  <2>8. CASE AssignStaffToTasks(j) \/ DeleteTodosByTask(j) \/ DeleteTaskById(j) \/ OtherStep(j)
    <3>1. job[j].at \in {"call", "write"} /\ (Completed(j, NotFound) \/ GoesTo(j, "stepFailed"))
      BY <2>8 DEF AssignStaffToTasks, DeleteTodosByTask, DeleteTaskById, OtherStep, Answers, Called, Writing, At
    <3> QED
      BY <2>1, <2>3, <3>1, NotedIs
  <2>9. CASE \/ SetTaskSequenceSystemByTrip(j) \/ ReadTodos(j) \/ StepThrows(j) \/ Again(j)
             \/ Compensate(j) \/ NothingToRestore(j) \/ RestoreNumbers(j)
    <3>1. \E place \in {"number", "stepFailed", "write", "call", "undone", "undo", "broken", "unnumber"} :
            GoesTo(j, place)
      BY <2>9 DEF SetTaskSequenceSystemByTrip, ReadTodos, StepThrows, Again, Compensate, NothingToRestore,
                  RestoreNumbers
    <3> QED
      BY <2>1, <2>3, <3>1
  <2>10. CASE \/ RestoreTrip(j) \/ RestoreSequence(j) \/ NumbersAreRestored(j) \/ RestoreStaff(j)
              \/ RestoreTodos(j) \/ RestoreTask(j) \/ UndoOther(j) \/ UndoThrows(j)
    <3>1. Compensated(j) \/ CompensationThrows(j)
      BY <2>10 DEF RestoreTrip, RestoreSequence, RestoreStaff, RestoreTodos, RestoreTask, UndoOther, UndoThrows,
                   NumbersAreRestored, CompensationAnswers
    <3> QED
      BY <2>1, <2>2, <2>3, <3>1 DEF CompensationThrows
  <2> QED
    BY <1>1, <2>5, <2>6, <2>7, <2>8, <2>9, <2>10 DEF SagaStep
<1>5. /\ Len(job'[j].out) = Len(work[j].steps) /\ DOMAIN job'[j].out = 1..(n + 1) /\ n \in Nat
      /\ Len(job'[j].out) = n + 1 /\ Worker(j) = work[j].steps[n + 1] /\ job'[j].at = "ok"
  BY <1>2, <1>4, StepDone DEF Ending
<1>6. work[j].steps \in Seq(Workers) /\ DOMAIN work[j].steps = 1..(n + 1)
  <2> DEFINE steps == work[j].steps
  <2>1. steps \in Seq(Workers)
    BY WorkIs DEF PlanTyped
  <2>2. Len(steps) = n + 1
    BY <1>5
  <2> HIDE DEF steps, n
  <2>3. DOMAIN steps = 1..(n + 1)
    BY <2>1, <2>2
  <2> QED
    BY <2>1, <2>3 DEF steps
<1>7. Did(j, {"number"})' /\ Did(j, {"remove", "reorder"})'
  <2>1. \A x \in ToSet(work[j].steps) : \E i \in DOMAIN job'[j].out : work[j].steps[i] = x
    BY <1>5, <1>6 DEF ToSet
  <2>2. \A names : Did(j, names)' <=> \E i \in DOMAIN job'[j].out : work[j].steps[i] \in names
    BY <1>2 DEF Did
  <2>3. "number" \in ToSet(work[j].steps) /\ \E x \in {"remove", "reorder"} : x \in ToSet(work[j].steps)
    BY DEF NumbersLast
  <2> QED
    BY <2>1, <2>2, <2>3
<1>8. Worker(j) \notin {"remove", "reorder"}
  <2>1. PICK i \in 1..(n + 1) : work[j].steps[i] = "number"
    BY <1>6 DEF NumbersLast, ToSet
  <2>2. n + 1 \in DOMAIN work[j].steps /\ ~(n + 1 < i)
    BY <1>5, <1>6, <2>1
  <2> QED
    BY <1>5, <1>6, <2>1, <2>2 DEF NumbersLast
<1>9. trips' = trips
  <2>1. ~RemoveTaskFromTrip(j) /\ ~ReorderTaskSequenceInTrip(j)
    BY <1>8 DEF RemoveTaskFromTrip, ReorderTaskSequenceInTrip, Writing
  <2>2. ~RestoreTrip(j) /\ ~RestoreSequence(j)
    BY <1>4 DEF RestoreTrip, RestoreSequence, Undoing, At
  <2> QED
    BY <1>1, <2>1, <2>2
    DEF SagaStep, ReadTrip, SetTaskSequenceSystemByTrip, TasksAreNumbered, AssignStaffToTasks, ReadTodos,
        DeleteTodosByTask, DeleteTaskById, OtherStep, StepThrows, Again, Compensate, NothingToRestore,
        RestoreNumbers, NumbersAreRestored, RestoreStaff, RestoreTodos, RestoreTask, UndoOther, UndoThrows
<1>10. Live(t)' /\ NumbersLast(j)'
  BY <1>2, <1>9 DEF Live, NumbersLast
<1>11. InOrder(trips[t])'
  BY <1>3, <1>5, <1>7, <1>10 DEF OrderBody, Ordered, Forth
<1>12. \A k \in ToSet(trips'[t].tasks) : Placed(j, k, tasks[k].number)'
  BY <1>2, <1>3, <1>5, <1>7, <1>10 DEF OrderBody, Numbered, Forth
<1> QED
  BY <1>2, <1>11, <1>12 DEF InOrder, Placed

\* What keeps a task in one trip holds always.
LEMMA HolderInvHolds == Spec => []HolderInv
<1>1. Init => HolderInv
  BY HolderInit
<1>2. TypeInv /\ HolderInv /\ [Next]_vars => HolderInv'
  BY HolderStep DEF TypeInv
<1>3. Spec => []TypeInv
  BY TypeInvHolds
<1> QED
  BY <1>1, <1>2, <1>3, PTL DEF Spec

\* A workflow that shortens or reorders a trip and numbers its tasks after that leaves, when it
\* met nobody, the trip in the order of its tasks and each task where its number says, however
\* often a step was tried (reorderTaskSequenceInTrip, removeTaskFromTrip and
\* setTaskSequenceSystemByTrip).
THEOREM NumberedInOrderHolds == Spec => NumberedInOrder
<1>1. Init => OrderInv
  BY OrderInit
<1>2. TypeInv /\ HolderInv /\ OrderInv /\ [Next]_vars => OrderInv'
  BY OrderStep DEF TypeInv
<1> DEFINE A ==
    \A j \in Job :
        (/\ Ending(j, "ok") /\ j \notin overlapped /\ work[j].kind = "saga"
         /\ NumbersLast(j) /\ Live(work[j].trip)) =>
        LET doc == trips'[work[j].trip]
        IN  /\ InOrder(doc)
            /\ \A k \in ToSet(doc.tasks) :
                tasks'[k].number \in DOMAIN doc.tasks /\ doc.tasks[tasks'[k].number] = k
<1>3. TypeInv /\ HolderInv /\ OrderInv /\ [Next]_vars => [A]_planning
  <2> SUFFICES ASSUME TypeInv, HolderInv, OrderInv, [Next]_vars PROVE A
    OBVIOUS
  <2>1. [PlanningNext]_planning \/ job' = job
    BY NextIs
  <2>2. CASE job' = job
    BY <2>2 DEF Ending
  <2>3. CASE [PlanningNext]_planning
    BY <2>3, EndsInOrder DEF TypeInv
  <2> QED
    BY <2>1, <2>2, <2>3
<1>4. Spec => []TypeInv /\ []HolderInv
  BY TypeInvHolds, HolderInvHolds
<1> HIDE DEF A
<1>5. Spec => [][A]_planning
  BY <1>1, <1>2, <1>3, <1>4, PTL DEF Spec
<1> QED
  BY <1>5 DEF NumberedInOrder, A

(***************************************************************************)
(* No trace: all a workflow that is alone has changed is explained by the  *)
(* notes of its steps, so that the compensations take it back.             *)
(***************************************************************************)

\* What the n-th step wrote of the trip: it emptied and deleted it, shortened it, or
\* wrote its list of tasks.
Emptied(j, n) ==
    work[j].steps[n] = "remove" /\ ToSet(job[j].out[n].trip.tasks) = {work[j].task}
Shortened(j, n) ==
    work[j].steps[n] = "remove" /\ ToSet(job[j].out[n].trip.tasks) # {work[j].task}
Rewrote(j, n) ==
    Shortened(j, n) \/ (work[j].steps[n] = "reorder" /\ job[j].out[n].found)
\* It wrote the number of the task.
Renumbered(j, n, k) ==
    /\ work[j].steps[n] = "number" /\ job[j].out[n].found
    /\ k \in ToSet(job[j].out[n].trip.tasks)

\* What the document shows is what the trip was before or written by the first n steps.
Explained(j, doc, n) ==
    LET old == before[j].trips[work[j].trip]
    IN  /\ doc.tasks = old.tasks \/ \E i \in 1..n : Rewrote(j, i)
        /\ doc.window = old.window \/ \E i \in 1..n : Rewrote(j, i)
        /\ doc.done = old.done \/ \E i \in 1..n : Shortened(j, i)
        /\ doc.deleted = old.deleted \/ \E i \in 1..n : Emptied(j, i)
        /\ doc.staffs = old.staffs
NumberExplained(j, k, number, n) ==
    number = before[j].tasks[k].number \/ \E i \in 1..n : Renumbered(j, i, k)

\* So it is of the trips as they are,
TripsExplained(j) ==
    /\ DOMAIN trips = DOMAIN before[j].trips
    /\ \A t \in DOMAIN trips :
        IF t = work[j].trip THEN Explained(j, trips[t], Len(job[j].out)) ELSE trips[t] = before[j].trips[t]

\* of the tasks as they are,
TasksExplained(j) ==
    \A k \in Task :
        LET old == before[j].tasks[k]
        IN  /\ \/ NumberExplained(j, k, tasks[k].number, Len(job[j].out))
               \/ job[j].at = "number" /\ k \in ToSet(job[j].doc.trip.tasks)
            /\ \/ tasks[k].staffs = old.staffs /\ tasks[k].trip = old.trip
               \/ k \in ToSet(work[j].tasks) /\ Did(j, {"assign"})
            /\ tasks[k].deleted = old.deleted \/ (k = work[j].task /\ Did(j, {"deleteTask"}))
            /\ tasks[k].todosDeleted = old.todosDeleted \/ (k = work[j].task /\ Did(j, {"deleteTodos"}))

\* and of what each step noted, which read the trip before it was emptied.
NotesExplained(j) ==
    \A m \in DOMAIN job[j].out : job[j].out[m].found =>
        /\ work[j].trip \in DOMAIN trips /\ ~job[j].out[m].trip.deleted
        /\ Explained(j, job[j].out[m].trip, m - 1)
        /\ \A k \in Task : NumberExplained(j, k, job[j].out[m].numbers[k], m - 1)
        /\ \A i \in 1..(m - 1) : ~Emptied(j, i)
ReadExplained(j) ==
    (job[j].at \in {"write", "number"} /\ Worker(j) \in OnTrip) =>
        /\ \A k \in Task : NumberExplained(j, k, job[j].doc.numbers[k], Len(job[j].out))
        /\ Worker(j) = "remove" => work[j].task \in ToSet(job[j].doc.trip.tasks)

\* A trip that was emptied stays deleted until this is undone.
StaysEmptied(j) ==
    \A i \in DOMAIN job[j].out : Emptied(j, i) =>
        \/ work[j].trip \in DOMAIN trips /\ trips[work[j].trip].deleted
        \/ job[j].at = "undo" /\ i = Len(job[j].out)

\* The numbers under way are of tasks of the trip, forth or back.
WritesExplained(j) ==
    \A w \in flight :
        /\ w.by = j /\ w.op = "number"
        /\ job[j].at = "number" => w.task \in ToSet(job[j].doc.trip.tasks)
        /\ job[j].at = "unnumber" =>
            /\ w.task \in ToSet(Last(job[j].out).trip.tasks)
            /\ w.number = Last(job[j].out).numbers[w.task]
Renumbering(j) ==
    job[j].at = "unnumber" =>
        /\ work[j].steps[Len(job[j].out)] = "number" /\ Last(job[j].out).found
        /\ \A k \in ToSet(Last(job[j].out).trip.tasks) :
            tasks[k].number = Last(job[j].out).numbers[k] \/ \E w \in flight : w.task = k

\* Whatever a workflow that is alone has changed, one of its steps can undo.
Undoable(j) ==
    /\ TripsExplained(j) /\ TasksExplained(j) /\ NotesExplained(j) /\ ReadExplained(j)
    /\ StaysEmptied(j) /\ WritesExplained(j) /\ Renumbering(j)
TraceInv == \A j \in Job : (Single(j) /\ damaged = {} /\ WasWhole(j)) => Undoable(j)

\* What the first m steps did does not change.
LEMMA SameNotes ==
    ASSUME NEW j \in Job, NEW m \in Nat, work' = work, before'[j] = before[j],
           \A i \in 1..m : job'[j].out[i] = job[j].out[i]
    PROVE  /\ \A i \in 1..m : Emptied(j, i)' <=> Emptied(j, i)
           /\ \A l \in 0..m : \A doc : Explained(j, doc, l)' <=> Explained(j, doc, l)
           /\ \A l \in 0..m : \A k, number : NumberExplained(j, k, number, l)' <=> NumberExplained(j, k, number, l)
<1>1. \A i \in 1..m : /\ Emptied(j, i)' <=> Emptied(j, i)
                      /\ Shortened(j, i)' <=> Shortened(j, i)
                      /\ Rewrote(j, i)' <=> Rewrote(j, i)
                      /\ \A k : Renumbered(j, i, k)' <=> Renumbered(j, i, k)
  BY DEF Emptied, Shortened, Rewrote, Renumbered
<1>2. \A l \in 0..m : \A i \in 1..l : i \in 1..m
  OBVIOUS
<1>3. ASSUME NEW l \in 0..m, NEW doc PROVE Explained(j, doc, l)' <=> Explained(j, doc, l)
  BY <1>1, <1>2 DEF Explained
<1>4. ASSUME NEW l \in 0..m, NEW k, NEW number
      PROVE  NumberExplained(j, k, number, l)' <=> NumberExplained(j, k, number, l)
  BY <1>1, <1>2 DEF NumberExplained
<1> QED
  BY <1>1, <1>3, <1>4

\* What some steps explain, more of them explain,
LEMMA ExplainedByMore ==
    ASSUME NEW j \in Job, NEW l \in Nat, NEW m \in Nat, l <= m
    PROVE  /\ \A doc : Explained(j, doc, l) => Explained(j, doc, m)
           /\ \A k, number : NumberExplained(j, k, number, l) => NumberExplained(j, k, number, m)
<1>1. \A i \in 1..l : i \in 1..m
  OBVIOUS
<1> QED
  BY <1>1 DEF Explained, NumberExplained

\* and all but one that did not write it.
LEMMA ExplainedByLess ==
    ASSUME NEW j \in Job, NEW m \in Nat, 1 <= m
    PROVE  /\ \A doc : (Explained(j, doc, m) /\ ~Rewrote(j, m) /\ ~Emptied(j, m)) => Explained(j, doc, m - 1)
           /\ \A k, number : (NumberExplained(j, k, number, m) /\ ~Renumbered(j, m, k)) =>
                NumberExplained(j, k, number, m - 1)
<1>1. \A i \in 1..m : i = m \/ i \in 1..(m - 1)
  OBVIOUS
<1>2. Shortened(j, m) => Rewrote(j, m)
  BY DEF Rewrote
<1>3. ASSUME NEW doc, Explained(j, doc, m), ~Rewrote(j, m), ~Emptied(j, m) PROVE Explained(j, doc, m - 1)
  BY <1>1, <1>2, <1>3 DEF Explained
<1>4. ASSUME NEW k, NEW number, NumberExplained(j, k, number, m), ~Renumbered(j, m, k)
      PROVE NumberExplained(j, k, number, m - 1)
  BY <1>1, <1>4 DEF NumberExplained
<1> QED
  BY <1>3, <1>4

\* Nothing is under way while the workflow waits for no write.
LEMMA NoWrites ==
    ASSUME PlanTyped, NEW j \in Job, WritesExplained(j), job[j].at \notin {"number", "unnumber"}
    PROVE  flight = {}
<1> SUFFICES ASSUME NEW w \in flight PROVE FALSE
  OBVIOUS
<1>1. w.by = j /\ NoJob \notin Job
  BY PlanningAssumption DEF WritesExplained
<1> QED
  BY <1>1 DEF PlanTyped, FlightShaped

\* A step that goes to another place and writes nothing.
LEMMA StaysUndoable ==
    ASSUME PlanTyped, NEW j \in Job, Undoable(j), UNCHANGED <<trips, tasks, work, flight, before>>,
           NEW place \in {"call", "write", "stepFailed", "undo", "undone"}, GoesTo(j, place),
           job[j].at \in {"call", "write", "stepFailed", "undo"}, job[j].at = "undo" => place = "undo",
           place = "write" => Worker(j) \notin OnTrip
    PROVE  Undoable(j)'
<1> DEFINE n == Len(job[j].out)
<1>1. /\ job'[j].at = place /\ job'[j].out = job[j].out /\ job'[j].doc = job[j].doc
      /\ Worker(j)' = Worker(j) /\ \A names : Did(j, names)' <=> Did(j, names)
  BY StepStays
<1>2. n \in Nat /\ DOMAIN job[j].out = 1..n
  BY DEF PlanTyped, JobsShaped, Shaped
<1>3. /\ \A i \in 1..n : Emptied(j, i)' <=> Emptied(j, i)
      /\ \A l \in 0..n : \A doc : Explained(j, doc, l)' <=> Explained(j, doc, l)
      /\ \A l \in 0..n : \A k, number : NumberExplained(j, k, number, l)' <=> NumberExplained(j, k, number, l)
  BY <1>1, <1>2, SameNotes
<1>4. n \in 0..n /\ \A m \in 1..n : m - 1 \in 0..n /\ \A i \in 1..(m - 1) : i \in 1..n
  BY <1>2
<1>5. flight = {}
  BY NoWrites DEF Undoable
<1>6. TripsExplained(j)'
  BY <1>1, <1>3, <1>4 DEF Undoable, TripsExplained
<1>7. TasksExplained(j)'
  BY <1>1, <1>3, <1>4 DEF Undoable, TasksExplained
<1>8. NotesExplained(j)'
  BY <1>1, <1>2, <1>3, <1>4 DEF Undoable, NotesExplained
<1>9. ReadExplained(j)'
  BY <1>1 DEF ReadExplained
<1>10. StaysEmptied(j)'
  BY <1>1, <1>2, <1>3 DEF Undoable, StaysEmptied
<1>11. WritesExplained(j)' /\ Renumbering(j)'
  BY <1>1, <1>5 DEF WritesExplained, Renumbering
<1> QED
  BY <1>6, <1>7, <1>8, <1>9, <1>10, <1>11 DEF Undoable

\* A worker completes: what it did is explained by what it notes.
LEMMA MoreUndoable ==
    ASSUME PlanTyped, NEW j \in Job, Undoable(j), UNCHANGED <<work, before>>, flight = {}, flight' = {},
           job[j].at \in {"call", "write", "number"}, NEW o \in Noted, Completed(j, o),
           TripsExplained(j)', TasksExplained(j)', DOMAIN trips' = DOMAIN trips,
           LET t == work[j].trip
               n == Len(job[j].out)
           IN  /\ o.found =>
                    /\ Live(t) /\ ~o.trip.deleted /\ Explained(j, o.trip, n)
                    /\ \A k \in Task : NumberExplained(j, k, o.numbers[k], n)
               /\ (Worker(j) = "remove" /\ ToSet(o.trip.tasks) = {work[j].task}) =>
                    t \in DOMAIN trips /\ trips'[t].deleted
               /\ (t \in DOMAIN trips /\ trips[t].deleted) => trips'[t].deleted
    PROVE  Undoable(j)'
<1> DEFINE t == work[j].trip
           n == Len(job[j].out)
           more == job'[j].out
<1>1. /\ job'[j].at \in {"ok", "call"} /\ job'[j].doc = job[j].doc
      /\ n \in Nat /\ Len(more) = n + 1 /\ DOMAIN more = 1..(n + 1) /\ DOMAIN job[j].out = 1..n
      /\ more[n + 1] = o /\ \A i \in 1..n : more[i] = job[j].out[i]
      /\ Worker(j) = work[j].steps[n + 1]
  BY StepDone
<1>2. /\ \A i \in 1..n : Emptied(j, i)' <=> Emptied(j, i)
      /\ \A l \in 0..n : \A doc : Explained(j, doc, l)' <=> Explained(j, doc, l)
      /\ \A l \in 0..n : \A k, number : NumberExplained(j, k, number, l)' <=> NumberExplained(j, k, number, l)
  BY <1>1, SameNotes
<1>3. /\ n \in 0..n /\ (\A m \in 1..n : m - 1 \in 0..n /\ \A i \in 1..(m - 1) : i \in 1..n)
      /\ (\A m \in 1..(n + 1) : m \in 1..n \/ m = n + 1) /\ n + 1 - 1 = n
  BY <1>1
<1>4. \A i \in 1..n : Emptied(j, i) => t \in DOMAIN trips /\ trips[t].deleted
  BY <1>1 DEF Undoable, StaysEmptied
<1>5. NotesExplained(j)'
  <2> SUFFICES ASSUME NEW m \in 1..(n + 1), (job[j].out[m].found)'
               PROVE  /\ t \in DOMAIN trips' /\ ~(job[j].out[m].trip.deleted)'
                      /\ Explained(j, job[j].out[m].trip, m - 1)'
                      /\ \A k \in Task : NumberExplained(j, k, job[j].out[m].numbers[k], m - 1)'
                      /\ \A i \in 1..(m - 1) : ~Emptied(j, i)'
    BY <1>1 DEF NotesExplained
  <2>1. CASE m \in 1..n
    <3>1. more[m] = job[j].out[m] /\ m \in DOMAIN job[j].out
      BY <1>1, <2>1
    <3>2. /\ t \in DOMAIN trips /\ ~job[j].out[m].trip.deleted
          /\ Explained(j, job[j].out[m].trip, m - 1)
          /\ \A k \in Task : NumberExplained(j, k, job[j].out[m].numbers[k], m - 1)
          /\ \A i \in 1..(m - 1) : ~Emptied(j, i)
      BY <3>1 DEF Undoable, NotesExplained
    <3> QED
      BY <1>2, <1>3, <2>1, <3>1, <3>2
  <2>2. CASE m = n + 1
    <3>1. /\ Live(t) /\ ~o.trip.deleted /\ Explained(j, o.trip, n)
          /\ \A k \in Task : NumberExplained(j, k, o.numbers[k], n)
      BY <1>1, <2>2
    <3>2. job'[j].out[m] = o /\ m - 1 = n
      BY <1>1, <1>3, <2>2
    <3>3. \A i \in 1..n : ~Emptied(j, i)'
      BY <1>2, <1>4, <3>1 DEF Live
    <3>4. t \in DOMAIN trips'
      BY <3>1 DEF Live
    <3>5. Explained(j, o.trip, m - 1) /\ \A k \in Task : NumberExplained(j, k, o.numbers[k], m - 1)
      BY <3>1, <3>2
    <3>6. m - 1 \in 0..n
      BY <1>3, <3>2
    <3>7. Explained(j, o.trip, m - 1)' /\ \A k \in Task : NumberExplained(j, k, o.numbers[k], m - 1)'
      BY <1>2, <3>5, <3>6
    <3>8. /\ Explained(j, job[j].out[m].trip, m - 1)'
          /\ \A k \in Task : NumberExplained(j, k, job[j].out[m].numbers[k], m - 1)'
      BY <3>2, <3>7
    <3> QED
      BY <3>1, <3>2, <3>3, <3>4, <3>8
  <2> QED
    BY <1>3, <2>1, <2>2
<1>6. StaysEmptied(j)'
  <2> SUFFICES ASSUME NEW i \in 1..(n + 1), Emptied(j, i)' PROVE t \in DOMAIN trips' /\ trips'[t].deleted
    BY <1>1 DEF StaysEmptied
  <2>1. CASE i \in 1..n
    BY <1>2, <1>4, <2>1
  <2>2. CASE i = n + 1
    <3>1. Worker(j) = "remove" /\ ToSet(o.trip.tasks) = {work[j].task}
      BY <1>1, <2>2 DEF Emptied
    <3> QED
      BY <3>1
  <2> QED
    BY <1>3, <2>1, <2>2
<1>7. ReadExplained(j)' /\ WritesExplained(j)' /\ Renumbering(j)'
  BY <1>1 DEF ReadExplained, WritesExplained, Renumbering
<1> QED
  BY <1>5, <1>6, <1>7 DEF Undoable

\* A compensation that is done: what is noted of the step before.
LEMMA StepUndone ==
    ASSUME PlanTyped, NEW j \in Job, Compensated(j), job[j].at \in {"undo", "unnumber"}, work' = work
    PROVE  LET less == job'[j].out
               n == Len(job[j].out)
           IN  /\ n \in Nat /\ 1 <= n /\ Len(less) = n - 1 /\ DOMAIN less = 1..(n - 1)
               /\ DOMAIN job[j].out = 1..n
               /\ \A i \in 1..(n - 1) : less[i] = job[j].out[i]
               /\ job'[j].at \in {"undone", "undo"} /\ job'[j].doc = job[j].doc
               /\ \A names : (Did(j, names) /\ work[j].steps[n] \notin names) => Did(j, names)'
<1> DEFINE out == job[j].out
           less == job'[j].out
           n == Len(out)
<1>1. out \in Seq(Noted) /\ out # <<>>
  BY OutputIs
<1>2. less = Front(out) /\ job'[j].at \in {"undone", "undo"} /\ job'[j].doc = job[j].doc
  BY JobMoves DEF PlanTyped
<1> HIDE DEF out, less
<1>3. n \in Nat /\ 1 <= n /\ DOMAIN out = 1..n
  BY <1>1
<1>4. less = [i \in 1..(n - 1) |-> out[i]]
  BY <1>2, <1>3 DEF Front, SubSeq
<1>5. Len(less) = n - 1 /\ DOMAIN less = 1..(n - 1) /\ \A i \in 1..(n - 1) : less[i] = out[i]
  BY <1>3, <1>4
<1>6. ASSUME NEW names, Did(j, names), work[j].steps[n] \notin names PROVE Did(j, names)'
  <2>1. PICK i \in 1..n : work[j].steps[i] \in names
    BY <1>3, <1>6 DEF Did, out
  <2>2. i \in 1..(n - 1)
    <3>1. i # n
      BY <1>6, <2>1
    <3> QED
      BY <1>3, <3>1
  <2> QED
    BY <1>5, <2>1, <2>2 DEF Did, less
<1> QED
  BY <1>2, <1>3, <1>5, <1>6 DEF out, less

\* A compensation completes: what it wrote back was noted before.
LEMMA LessUndoable ==
    ASSUME PlanTyped, NEW j \in Job, Undoable(j), UNCHANGED <<work, before>>, flight = {}, flight' = {},
           job[j].at \in {"undo", "unnumber"}, Compensated(j),
           TripsExplained(j)', TasksExplained(j)', DOMAIN trips' = DOMAIN trips,
           trips' = trips \/ Output(j).found
    PROVE  Undoable(j)'
<1> DEFINE t == work[j].trip
           n == Len(job[j].out)
           less == job'[j].out
<1>1. /\ n \in Nat /\ 1 <= n /\ Len(less) = n - 1 /\ DOMAIN less = 1..(n - 1)
      /\ DOMAIN job[j].out = 1..n
      /\ \A i \in 1..(n - 1) : less[i] = job[j].out[i]
      /\ job'[j].at \in {"undone", "undo"}
  BY StepUndone
<1> DEFINE m == n - 1
<1>2. m \in Nat /\ (\A l \in 1..m : l \in 1..n /\ l # n /\ l - 1 \in 0..m /\ \A i \in 1..(l - 1) : i \in 1..m)
  BY <1>1
<1> HIDE DEF less
<1>3. /\ \A i \in 1..m : Emptied(j, i)' <=> Emptied(j, i)
      /\ \A l \in 0..m : \A doc : Explained(j, doc, l)' <=> Explained(j, doc, l)
      /\ \A l \in 0..m : \A k, number : NumberExplained(j, k, number, l)' <=> NumberExplained(j, k, number, l)
  BY <1>1, <1>2, SameNotes DEF less
<1>4. NotesExplained(j)'
  <2> SUFFICES ASSUME NEW l \in 1..m, (job[j].out[l].found)'
               PROVE  /\ t \in DOMAIN trips' /\ ~(job[j].out[l].trip.deleted)'
                      /\ Explained(j, job[j].out[l].trip, l - 1)'
                      /\ \A k \in Task : NumberExplained(j, k, job[j].out[l].numbers[k], l - 1)'
                      /\ \A i \in 1..(l - 1) : ~Emptied(j, i)'
    BY <1>1 DEF NotesExplained, less
  <2>1. job'[j].out[l] = job[j].out[l] /\ l \in DOMAIN job[j].out
    BY <1>1, <1>2 DEF less
  <2> HIDE DEF m, n
  <2>2. /\ t \in DOMAIN trips /\ ~job[j].out[l].trip.deleted
        /\ Explained(j, job[j].out[l].trip, l - 1)
        /\ \A k \in Task : NumberExplained(j, k, job[j].out[l].numbers[k], l - 1)
        /\ \A i \in 1..(l - 1) : ~Emptied(j, i)
    BY <2>1 DEF Undoable, NotesExplained
  <2> QED
    BY <1>2, <1>3, <2>1, <2>2
<1>5. StaysEmptied(j)'
  <2> SUFFICES ASSUME NEW i \in 1..m, Emptied(j, i)' PROVE t \in DOMAIN trips' /\ trips'[t].deleted
    BY <1>1 DEF StaysEmptied, less
  <2>1. Emptied(j, i) /\ i \in DOMAIN job[j].out /\ i # n
    BY <1>1, <1>2, <1>3
  <2>2. t \in DOMAIN trips /\ trips[t].deleted
    BY <2>1 DEF Undoable, StaysEmptied
  <2>3. CASE Output(j).found
    <3>1. n \in DOMAIN job[j].out /\ job[j].out[n].found
      BY <2>3, OutputIs
    <3> QED
      BY <2>1, <3>1 DEF Undoable, NotesExplained
  <2> QED
    BY <2>2, <2>3
<1>6. ReadExplained(j)' /\ WritesExplained(j)' /\ Renumbering(j)'
  BY <1>1 DEF ReadExplained, WritesExplained, Renumbering
<1> QED
  BY <1>4, <1>5, <1>6 DEF Undoable

\* What a worker that completes writes of the trip is explained by what it notes.
LEMMA TripsExplainedBy ==
    ASSUME PlanTyped, NEW j \in Job, TripsExplained(j), UNCHANGED <<work, before>>,
           job[j].at \in {"call", "write", "number"}, NEW o \in Noted, Completed(j, o),
           DOMAIN trips' = DOMAIN trips,
           \A u \in DOMAIN trips \ {work[j].trip} : trips'[u] = trips[u],
           LET t == work[j].trip
               shortens == Worker(j) = "remove" /\ ToSet(o.trip.tasks) # {work[j].task}
               rewrites == shortens \/ (Worker(j) = "reorder" /\ o.found)
               empties == Worker(j) = "remove" /\ ToSet(o.trip.tasks) = {work[j].task}
           IN  t \in DOMAIN trips =>
                /\ trips'[t].staffs = trips[t].staffs
                /\ trips'[t].tasks = trips[t].tasks \/ rewrites
                /\ trips'[t].window = trips[t].window \/ rewrites
                /\ trips'[t].done = trips[t].done \/ shortens
                /\ trips'[t].deleted = trips[t].deleted \/ empties
    PROVE  TripsExplained(j)'
<1> DEFINE t == work[j].trip
<1>0. PICK n \in Nat : n = Len(job[j].out)
  BY StepDone
<1>1. /\ Len(job'[j].out) = n + 1 /\ (job'[j].out)[n + 1] = o
      /\ (\A i \in 1..n : job'[j].out[i] = job[j].out[i]) /\ Worker(j) = work[j].steps[n + 1]
  BY <1>0, StepDone
<1>2. (\A i \in 1..n : i \in 1..(n + 1)) /\ n + 1 \in 1..(n + 1)
  OBVIOUS
<1>3. \A i \in 1..n : /\ Emptied(j, i) => Emptied(j, i)'
                      /\ Shortened(j, i) => Shortened(j, i)'
                      /\ Rewrote(j, i) => Rewrote(j, i)'
  BY <1>1 DEF Emptied, Shortened, Rewrote
<1>4. /\ (Worker(j) = "remove" /\ ToSet(o.trip.tasks) # {work[j].task}) =>
            Shortened(j, n + 1)' /\ Rewrote(j, n + 1)'
      /\ (Worker(j) = "reorder" /\ o.found) => Rewrote(j, n + 1)'
      /\ (Worker(j) = "remove" /\ ToSet(o.trip.tasks) = {work[j].task}) => Emptied(j, n + 1)'
  BY <1>1 DEF Emptied, Shortened, Rewrote
<1>5. ASSUME t \in DOMAIN trips PROVE Explained(j, trips[t], n + 1)'
  <2> DEFINE old == before[j].trips[t]
             some == 1..(n + 1)
  <2>1. Explained(j, trips[t], n)
    BY <1>0, <1>5 DEF TripsExplained
  <2>2. /\ (\E i \in 1..n : Emptied(j, i)) => \E i \in some : Emptied(j, i)'
        /\ (\E i \in 1..n : Shortened(j, i)) => \E i \in some : Shortened(j, i)'
        /\ (\E i \in 1..n : Rewrote(j, i)) => \E i \in some : Rewrote(j, i)'
    BY <1>2, <1>3
  <2>3. /\ trips'[t].tasks = old.tasks \/ \E i \in some : Rewrote(j, i)'
        /\ trips'[t].window = old.window \/ \E i \in some : Rewrote(j, i)'
    BY <1>2, <1>4, <1>5, <2>1, <2>2 DEF Explained
  <2>4. trips'[t].done = old.done \/ \E i \in some : Shortened(j, i)'
    BY <1>2, <1>4, <1>5, <2>1, <2>2 DEF Explained
  <2>5. trips'[t].deleted = old.deleted \/ \E i \in some : Emptied(j, i)'
    BY <1>2, <1>4, <1>5, <2>1, <2>2 DEF Explained
  <2>6. trips'[t].staffs = old.staffs
    BY <1>5, <2>1 DEF Explained
  <2> QED
    BY <2>3, <2>4, <2>5, <2>6 DEF Explained
<1> QED
  BY <1>1, <1>5 DEF TripsExplained

\* So is what it writes of the tasks.
LEMMA TasksExplainedBy ==
    ASSUME PlanTyped, NEW j \in Job, TasksExplained(j), UNCHANGED <<work, before>>,
           job[j].at \in {"call", "write", "number"}, NEW o \in Noted, Completed(j, o),
           job[j].at = "number" => Worker(j) = "number" /\ o.found /\ o.trip = job[j].doc.trip,
           \A k \in Task :
                /\ tasks'[k].number = tasks[k].number
                /\ \/ tasks'[k].staffs = tasks[k].staffs /\ tasks'[k].trip = tasks[k].trip
                   \/ Worker(j) = "assign" /\ k \in ToSet(work[j].tasks)
                /\ tasks'[k].deleted = tasks[k].deleted \/ (Worker(j) = "deleteTask" /\ k = work[j].task)
                /\ tasks'[k].todosDeleted = tasks[k].todosDeleted
                      \/ (Worker(j) = "deleteTodos" /\ k = work[j].task)
    PROVE  TasksExplained(j)'
<1>0. PICK n \in Nat : n = Len(job[j].out)
  BY StepDone
<1>1. /\ Len(job'[j].out) = n + 1 /\ (job'[j].out)[n + 1] = o
      /\ (\A i \in 1..n : job'[j].out[i] = job[j].out[i]) /\ Worker(j) = work[j].steps[n + 1]
      /\ \A names : Did(j, names)' <=> Did(j, names) \/ Worker(j) \in names
  BY <1>0, StepDone
<1>2. (\A i \in 1..n : i \in 1..(n + 1)) /\ n + 1 \in 1..(n + 1)
  OBVIOUS
<1>3. \A i \in 1..n : \A k : Renumbered(j, i, k) => Renumbered(j, i, k)'
  BY <1>1 DEF Renumbered
<1>4. ASSUME NEW k \in Task PROVE NumberExplained(j, k, tasks[k].number, n + 1)'
  <2>1. CASE NumberExplained(j, k, tasks[k].number, n)
    BY <1>2, <1>3, <2>1 DEF NumberExplained
  <2>2. CASE job[j].at = "number" /\ k \in ToSet(job[j].doc.trip.tasks)
    <3>1. Renumbered(j, n + 1, k)'
      BY <1>1, <2>2 DEF Renumbered
    <3> QED
      BY <1>2, <3>1 DEF NumberExplained
  <2> QED
    BY <1>0, <2>1, <2>2 DEF TasksExplained
<1> QED
  BY <1>1, <1>4 DEF TasksExplained

\* A worker reads the trip, and what it reads can be undone.
LEMMA ReadUndoable ==
    ASSUME PlanTyped, NEW j \in Job, Undoable(j), ReadTrip(j) PROVE Undoable(j)'
<1> DEFINE t == work[j].trip
<1>1. /\ job[j].at = "call" /\ Worker(j) \in OnTrip
      /\ UNCHANGED <<trips, tasks, work, flight, faults, before, overlapped, damaged>>
  BY DEF ReadTrip, Called, At, OnTrip
<1>2. flight = {}
  BY <1>1, NoWrites DEF Undoable
<1>3. CASE GoesTo(j, "stepFailed")
  BY <1>1, <1>3, StaysUndoable
<1>4. CASE ~GoesTo(j, "stepFailed") /\ ~Live(t)
  <2>1. Completed(j, NotFound) /\ Worker(j) # "remove"
    BY <1>4 DEF ReadTrip
  <2>2. TripsExplained(j)' /\ TasksExplained(j)'
    BY <1>1, <2>1, NotedIs, TripsExplainedBy, TasksExplainedBy DEF Undoable
  <2> QED
    BY <1>1, <1>2, <2>1, <2>2, NotedIs, MoreUndoable
<1>5. CASE ~GoesTo(j, "stepFailed") /\ Live(t)
  <2> DEFINE doc == [trip |-> trips[t], numbers |-> [k \in Task |-> tasks[k].number]]
  <2>1. /\ job' = [job EXCEPT ![j].at = "write", ![j].doc = doc]
        /\ Worker(j) = "remove" => work[j].task \in ToSet(trips[t].tasks)
    BY <1>5 DEF ReadTrip
  <2>2. doc.trip = trips[t] /\ \A k \in Task : doc.numbers[k] = tasks[k].number
    OBVIOUS
  <2> HIDE DEF doc
  <2>3. DOMAIN job = Job /\ DOMAIN job[j] = {"at", "step", "doc", "out"}
    BY DEF PlanTyped, JobsShaped, Shaped
  <2>4. /\ job'[j].at = "write" /\ job'[j].step = job[j].step
        /\ job'[j].doc = doc /\ job'[j].out = job[j].out
    BY <2>1, <2>3
  <2>5. Worker(j)' = Worker(j) /\ \A names : Did(j, names)' <=> Did(j, names)
    BY <1>1, <2>4 DEF Worker, Did
  <2>6. PICK n \in Nat : n = Len(job[j].out) /\ DOMAIN job[j].out = 1..n
    BY DEF PlanTyped, JobsShaped, Shaped
  <2>7. /\ \A i \in 1..n : Emptied(j, i)' <=> Emptied(j, i)
        /\ \A l \in 0..n : \A d : Explained(j, d, l)' <=> Explained(j, d, l)
        /\ \A l \in 0..n : \A k, number : NumberExplained(j, k, number, l)' <=> NumberExplained(j, k, number, l)
    BY <1>1, <2>4, SameNotes
  <2>8. n \in 0..n /\ \A m \in 1..n : m - 1 \in 0..n /\ \A i \in 1..(m - 1) : i \in 1..n
    OBVIOUS
  <2>9. \A k \in Task : NumberExplained(j, k, tasks[k].number, n)
    BY <1>1, <2>6 DEF Undoable, TasksExplained
  <2>10. TripsExplained(j)'
    BY <1>1, <2>4, <2>6, <2>7, <2>8 DEF Undoable, TripsExplained
  <2>11. TasksExplained(j)'
    BY <1>1, <2>4, <2>5, <2>6, <2>7, <2>8, <2>9 DEF Undoable, TasksExplained
  <2>12. NotesExplained(j)'
    BY <1>1, <2>4, <2>6, <2>7, <2>8 DEF Undoable, NotesExplained
  <2>13. ReadExplained(j)'
    BY <1>1, <2>1, <2>2, <2>4, <2>5, <2>6, <2>7, <2>8, <2>9 DEF ReadExplained
  <2>14. StaysEmptied(j)'
    BY <1>1, <2>4, <2>6, <2>7 DEF Undoable, StaysEmptied
  <2>15. WritesExplained(j)' /\ Renumbering(j)'
    BY <1>1, <1>2, <2>4 DEF WritesExplained, Renumbering
  <2> QED
    BY <2>10, <2>11, <2>12, <2>13, <2>14, <2>15 DEF Undoable
<1> QED
  BY <1>3, <1>4, <1>5

\* What a worker notes of the trip it has read as it is.
LEMMA NoteIs ==
    ASSUME PlanTyped, NEW j \in Job, Undoable(j), ReadNow(j), job[j].at \in {"write", "number"},
           Worker(j) \in OnTrip
    PROVE  LET t == work[j].trip
               o == Found(j)
               n == Len(job[j].out)
           IN  /\ o \in Noted /\ o.found /\ o.trip = trips[t] /\ o.trip = job[j].doc.trip
               /\ Live(t) /\ t \in DOMAIN trips /\ trips[t] \in TripDoc /\ ~o.trip.deleted
               /\ Explained(j, o.trip, n)
               /\ \A k \in Task : NumberExplained(j, k, o.numbers[k], n)
               /\ Worker(j) = "remove" => work[j].task \in ToSet(o.trip.tasks)
<1> DEFINE t == work[j].trip
<1>1. Found(j) \in Noted /\ Found(j).found
  BY ReadIs
<1>2. Found(j).trip = job[j].doc.trip /\ Found(j).numbers = job[j].doc.numbers
  BY DEF Found
<1>3. Live(t) /\ job[j].doc.trip = trips[t]
  BY DEF ReadNow
<1>4. t \in DOMAIN trips /\ ~trips[t].deleted /\ trips[t] \in TripDoc
  BY <1>3 DEF Live, PlanTyped, TripsTyped
<1>5. Explained(j, trips[t], Len(job[j].out))
  BY <1>4 DEF Undoable, TripsExplained
<1> QED
  BY <1>1, <1>2, <1>3, <1>4, <1>5 DEF Undoable, ReadExplained

\* The rest is empty just when the task was the only one.
LEMMA RestIs ==
    ASSUME PlanTyped, NEW j \in Job, job[j].doc.trip.tasks \in Seq(Task),
           work[j].task \in ToSet(job[j].doc.trip.tasks)
    PROVE  Rest(j) = <<>> <=> ToSet(job[j].doc.trip.tasks) = {work[j].task}
<1> DEFINE s == job[j].doc.trip.tasks
<1>1. ToSet(Rest(j)) = ToSet(s) \cap (Task \ {work[j].task}) /\ Rest(j) \in Seq(Task)
  BY ByWindowIs DEF Rest
<1>2. ToSet(s) \subseteq Task
  BY DEF ToSet
<1>3. Rest(j) = <<>> <=> ToSet(Rest(j)) = {}
  BY <1>1 DEF ToSet
<1> QED
  BY <1>1, <1>2, <1>3

\* A worker whose answer arrived has completed.
LEMMA AnswerArrived ==
    ASSUME NEW j \in Job, NEW o, Answers(j, o), damaged' = {} PROVE Completed(j, o)
BY DEF Answers

\* removeTaskFromTrip can be undone.
LEMMA RemoveUndoable ==
    ASSUME PlanTyped, NEW j \in Job, Undoable(j), ReadNow(j), RemoveTaskFromTrip(j), damaged' = {}
    PROVE  Undoable(j)'
<1> DEFINE t == work[j].trip
           o == Found(j)
           rest == Rest(j)
<1>1. /\ job[j].at = "write" /\ Worker(j) = "remove" /\ Completed(j, o)
      /\ UNCHANGED <<tasks, work, flight, before>>
  BY AnswerArrived DEF RemoveTaskFromTrip, Writing, At
<1>2. flight = {}
  BY <1>1, NoWrites DEF Undoable
<1>3. /\ o \in Noted /\ o.found /\ o.trip = trips[t] /\ o.trip = job[j].doc.trip
      /\ Live(t) /\ t \in DOMAIN trips /\ trips[t] \in TripDoc /\ ~o.trip.deleted
      /\ Explained(j, o.trip, Len(job[j].out))
      /\ \A k \in Task : NumberExplained(j, k, o.numbers[k], Len(job[j].out))
      /\ work[j].task \in ToSet(o.trip.tasks)
  BY <1>1, NoteIs DEF OnTrip
<1>4. rest = <<>> <=> ToSet(o.trip.tasks) = {work[j].task}
  BY <1>1, <1>3, ReadIs, RestIs DEF OnTrip
<1>5. /\ DOMAIN trips' = DOMAIN trips /\ \A u \in DOMAIN trips \ {t} : trips'[u] = trips[u]
      /\ trips'[t].staffs = trips[t].staffs
      /\ rest = <<>> => trips'[t].deleted /\ trips'[t].tasks = trips[t].tasks
                        /\ trips'[t].window = trips[t].window /\ trips'[t].done = trips[t].done
      /\ rest # <<>> => trips'[t].deleted = trips[t].deleted
  <2>1. CASE rest = <<>>
    <3>1. trips' = [trips EXCEPT ![t].deleted = TRUE]
      BY <2>1 DEF RemoveTaskFromTrip
    <3> QED
      BY <1>3, <2>1, <3>1 DEF TripDoc
  <2>2. CASE rest # <<>>
    <3> DEFINE done == job[j].doc.trip.done \/ ToSet(Rest(j)) \cap Open = {}
    <3>1. trips' = [trips EXCEPT ![t].tasks = rest, ![t].window = Hull(rest), ![t].done = done]
      BY <2>2 DEF RemoveTaskFromTrip
    <3> HIDE DEF rest, done
    <3> QED
      BY <1>3, <2>2, <3>1 DEF TripDoc
  <2> QED
    BY <2>1, <2>2
<1> HIDE DEF o, rest, t
<1>6. TripsExplained(j)'
  BY <1>1, <1>3, <1>4, <1>5, TripsExplainedBy DEF Undoable, t
<1>7. TasksExplained(j)'
  BY <1>1, <1>3, TasksExplainedBy DEF Undoable
<1> QED
  BY <1>1, <1>2, <1>3, <1>4, <1>5, <1>6, <1>7, MoreUndoable DEF t

\* reorderTaskSequenceInTrip can be undone.
LEMMA ReorderUndoable ==
    ASSUME PlanTyped, NEW j \in Job, Undoable(j), ReadNow(j), ReorderTaskSequenceInTrip(j), damaged' = {}
    PROVE  Undoable(j)'
<1> DEFINE t == work[j].trip
           o == Found(j)
           sorted == ByWindow(job[j].doc.trip.tasks, Task)
<1>1. /\ job[j].at = "write" /\ Worker(j) = "reorder" /\ Completed(j, o)
      /\ UNCHANGED <<tasks, work, flight, before>>
  BY AnswerArrived DEF ReorderTaskSequenceInTrip, Writing, At
<1>2. flight = {}
  BY <1>1, NoWrites DEF Undoable
<1>3. /\ o \in Noted /\ o.found /\ o.trip = trips[t] /\ o.trip = job[j].doc.trip
      /\ Live(t) /\ t \in DOMAIN trips /\ trips[t] \in TripDoc /\ ~o.trip.deleted
      /\ Explained(j, o.trip, Len(job[j].out))
      /\ \A k \in Task : NumberExplained(j, k, o.numbers[k], Len(job[j].out))
  BY <1>1, NoteIs DEF OnTrip
<1>4. trips' = [trips EXCEPT ![t].tasks = sorted, ![t].window = Hull(sorted)]
  BY <1>3 DEF ReorderTaskSequenceInTrip
<1> HIDE DEF o, sorted
<1>5. /\ DOMAIN trips' = DOMAIN trips /\ \A u \in DOMAIN trips \ {t} : trips'[u] = trips[u]
      /\ trips'[t].staffs = trips[t].staffs /\ trips'[t].done = trips[t].done
      /\ trips'[t].deleted = trips[t].deleted
  BY <1>3, <1>4 DEF TripDoc
<1> HIDE DEF t
<1>6. TripsExplained(j)'
  BY <1>1, <1>3, <1>5, TripsExplainedBy DEF Undoable, t
<1>7. TasksExplained(j)'
  BY <1>1, <1>3, TasksExplainedBy DEF Undoable
<1> QED
  BY <1>1, <1>2, <1>3, <1>5, <1>6, <1>7, MoreUndoable DEF t

\* setTaskSequenceSystemByTrip writes to the tasks of the trip it has read.
LEMMA NumberUndoable ==
    ASSUME PlanTyped, NEW j \in Job, Undoable(j), SetTaskSequenceSystemByTrip(j)
    PROVE  Undoable(j)'
<1> DEFINE sorted == ByWindow(job[j].doc.trip.tasks, Task)
           number == [k \in ToSet(sorted) |-> CHOOSE i \in DOMAIN sorted : sorted[i] = k]
<1>1. /\ job[j].at = "write" /\ Worker(j) = "number" /\ GoesTo(j, "number")
      /\ UNCHANGED <<trips, tasks, work, before>>
      /\ flight' = flight \cup Numbering(j, number)
  BY DEF SetTaskSequenceSystemByTrip, Writing, At
<1> HIDE DEF number
<1>2. flight = {}
  BY <1>1, NoWrites DEF Undoable
<1>3. /\ job'[j].at = "number" /\ job'[j].out = job[j].out /\ job'[j].doc = job[j].doc
      /\ Worker(j)' = Worker(j) /\ \A names : Did(j, names)' <=> Did(j, names)
  BY <1>1, StepStays
<1>4. PICK n \in Nat : n = Len(job[j].out) /\ DOMAIN job[j].out = 1..n
  BY DEF PlanTyped, JobsShaped, Shaped
<1>5. /\ \A i \in 1..n : Emptied(j, i)' <=> Emptied(j, i)
      /\ \A l \in 0..n : \A d : Explained(j, d, l)' <=> Explained(j, d, l)
      /\ \A l \in 0..n : \A k, x : NumberExplained(j, k, x, l)' <=> NumberExplained(j, k, x, l)
  BY <1>1, <1>3, SameNotes
<1>6. n \in 0..n /\ \A m \in 1..n : m - 1 \in 0..n /\ \A i \in 1..(m - 1) : i \in 1..n
  OBVIOUS
<1>7. \A k \in Task : NumberExplained(j, k, tasks[k].number, n)
  BY <1>1, <1>4 DEF Undoable, TasksExplained
<1>8. TripsExplained(j)'
  BY <1>1, <1>3, <1>4, <1>5, <1>6 DEF Undoable, TripsExplained
<1>9. TasksExplained(j)'
  BY <1>1, <1>3, <1>4, <1>5, <1>6, <1>7 DEF Undoable, TasksExplained
<1>10. NotesExplained(j)'
  BY <1>1, <1>3, <1>4, <1>5, <1>6 DEF Undoable, NotesExplained
<1>11. ReadExplained(j)'
  BY <1>1, <1>3, <1>4, <1>5, <1>6 DEF Undoable, ReadExplained
<1>12. StaysEmptied(j)'
  BY <1>1, <1>3, <1>4, <1>5 DEF Undoable, StaysEmptied
<1>13. \A w \in flight' : w.by = j /\ w.op = "number" /\ w.task \in ToSet(job[j].doc.trip.tasks)
  BY <1>1, <1>2 DEF Numbering
<1>14. WritesExplained(j)' /\ Renumbering(j)'
  BY <1>3, <1>13 DEF WritesExplained, Renumbering
<1> QED
  BY <1>8, <1>9, <1>10, <1>11, <1>12, <1>14 DEF Undoable

\* When its numbers have landed it notes what they were.
LEMMA NumberedUndoable ==
    ASSUME PlanTyped, NEW j \in Job, Undoable(j), ReadNow(j), TasksAreNumbered(j) PROVE Undoable(j)'
<1> DEFINE t == work[j].trip
           o == Found(j)
<1>1. /\ job[j].at = "number" /\ Completed(j, o) /\ ~\E w \in flight : w.by = j
      /\ UNCHANGED <<trips, tasks, work, flight, before>>
  BY DEF TasksAreNumbered, At
<1>2. Worker(j) = "number"
  BY <1>1, AtStep
<1>3. flight = {}
  BY <1>1 DEF Undoable, WritesExplained
<1>4. /\ o \in Noted /\ o.found /\ o.trip = trips[t] /\ o.trip = job[j].doc.trip
      /\ Live(t) /\ t \in DOMAIN trips /\ ~o.trip.deleted
      /\ Explained(j, o.trip, Len(job[j].out))
      /\ \A k \in Task : NumberExplained(j, k, o.numbers[k], Len(job[j].out))
  BY <1>1, <1>2, NoteIs DEF OnTrip
<1> HIDE DEF o, t
<1>5. TripsExplained(j)'
  BY <1>1, <1>2, <1>4, TripsExplainedBy DEF Undoable, t
<1>6. TasksExplained(j)'
  BY <1>1, <1>2, <1>4, TasksExplainedBy DEF Undoable
<1> QED
  BY <1>1, <1>2, <1>3, <1>4, <1>5, <1>6, MoreUndoable DEF t

\* The workers that write to tasks or nothing, failing, calling again and giving up.
LEMMA OthersUndoable ==
    ASSUME PlanTyped, NEW j \in Job, Undoable(j), damaged' = {},
           \/ AssignStaffToTasks(j) \/ ReadTodos(j) \/ DeleteTodosByTask(j) \/ DeleteTaskById(j)
           \/ OtherStep(j) \/ StepThrows(j) \/ Again(j) \/ Compensate(j)
    PROVE  Undoable(j)'
<1>1. CASE ReadTodos(j)
  <2>1. job[j].at = "call" /\ Worker(j) \notin OnTrip /\ (GoesTo(j, "stepFailed") \/ GoesTo(j, "write"))
    BY <1>1 DEF ReadTodos, Called, At, OnTrip
  <2>2. UNCHANGED <<trips, tasks, work, flight, before>>
    BY <1>1 DEF ReadTodos
  <2> QED
    BY <2>1, <2>2, StaysUndoable
<1>2. CASE StepThrows(j) \/ Again(j) \/ Compensate(j)
  <2>1. UNCHANGED <<trips, tasks, work, flight, before>> /\ job[j].at \in {"call", "write", "stepFailed"}
    BY <1>2 DEF StepThrows, Again, Compensate, At
  <2>2. \E place \in {"stepFailed", "call", "undo", "undone"} : GoesTo(j, place)
    BY <1>2 DEF StepThrows, Again, Compensate
  <2> QED
    BY <2>1, <2>2, StaysUndoable
<1>3. CASE AssignStaffToTasks(j) \/ DeleteTodosByTask(j) \/ DeleteTaskById(j) \/ OtherStep(j)
  <2>1. /\ job[j].at \in {"call", "write"} /\ Worker(j) \notin OnTrip /\ Completed(j, NotFound)
        /\ UNCHANGED <<trips, work, flight, before>>
    BY <1>3, AnswerArrived
    DEF AssignStaffToTasks, DeleteTodosByTask, DeleteTaskById, OtherStep, Called, Writing, At, OnTrip
  <2>2. flight = {}
    BY <2>1, NoWrites DEF Undoable
  <2>3. Worker(j) \notin {"remove", "reorder", "number"} /\ NotFound \in Noted /\ ~NotFound.found
    BY <2>1, NotedIs DEF OnTrip
  <2>4. TripsExplained(j)'
    BY <2>1, <2>3, TripsExplainedBy DEF Undoable
  <2>5. tasks \in [Task -> TaskDoc]
    BY DEF PlanTyped, TasksTyped
  <2>6. \A k \in Task :
            /\ tasks'[k].number = tasks[k].number
            /\ \/ tasks'[k].staffs = tasks[k].staffs /\ tasks'[k].trip = tasks[k].trip
               \/ Worker(j) = "assign" /\ k \in ToSet(work[j].tasks)
            /\ tasks'[k].deleted = tasks[k].deleted \/ (Worker(j) = "deleteTask" /\ k = work[j].task)
            /\ tasks'[k].todosDeleted = tasks[k].todosDeleted
                  \/ (Worker(j) = "deleteTodos" /\ k = work[j].task)
    <3>1. CASE AssignStaffToTasks(j)
      <4>1. Worker(j) = "assign"
        BY <3>1 DEF AssignStaffToTasks, Called
      <4> QED
        BY <2>5, <3>1, <4>1 DEF AssignStaffToTasks, TaskDoc
    <3>2. CASE DeleteTodosByTask(j)
      <4>1. Worker(j) = "deleteTodos"
        BY <3>2 DEF DeleteTodosByTask, Writing
      <4> QED
        BY <2>5, <3>2, <4>1 DEF DeleteTodosByTask, TaskDoc
    <3>3. CASE DeleteTaskById(j)
      <4>1. Worker(j) = "deleteTask"
        BY <3>3 DEF DeleteTaskById, Called
      <4> QED
        BY <2>5, <3>3, <4>1 DEF DeleteTaskById, TaskDoc
    <3>4. CASE OtherStep(j)
      BY <3>4 DEF OtherStep
    <3> QED
      BY <1>3, <3>1, <3>2, <3>3, <3>4
  <2>7. TasksExplained(j)'
    BY <2>1, <2>3, <2>6, TasksExplainedBy DEF Undoable
  <2> QED
    BY <2>1, <2>2, <2>3, <2>4, <2>7, MoreUndoable
<1> QED
  BY <1>1, <1>2, <1>3

\* A compensation that leaves what the steps before its own explain, done or to be called again.
LEMMA CompensationUndoable ==
    ASSUME PlanTyped, NEW j \in Job, Undoable(j), UNCHANGED <<work, flight, before>>, job[j].at = "undo",
           Compensated(j) \/ GoesTo(j, "undo"),
           DOMAIN trips' = DOMAIN trips, \A u \in DOMAIN trips \ {work[j].trip} : trips'[u] = trips[u],
           trips' = trips \/ Output(j).found,
           NEW n \in Nat, n = Len(job[j].out), 1 <= n,
           work[j].trip \in DOMAIN trips => Explained(j, trips'[work[j].trip], n - 1),
           \A k \in Task :
                LET old == before[j].tasks[k]
                    step == work[j].steps[n]
                IN  /\ NumberExplained(j, k, tasks'[k].number, n - 1)
                    /\ \/ tasks'[k].staffs = old.staffs /\ tasks'[k].trip = old.trip
                       \/ tasks'[k].staffs = tasks[k].staffs /\ tasks'[k].trip = tasks[k].trip /\ step # "assign"
                    /\ \/ tasks'[k].deleted = old.deleted
                       \/ tasks'[k].deleted = tasks[k].deleted /\ step # "deleteTask"
                    /\ \/ tasks'[k].todosDeleted = old.todosDeleted
                       \/ tasks'[k].todosDeleted = tasks[k].todosDeleted /\ step # "deleteTodos"
    PROVE  Undoable(j)'
<1> DEFINE t == work[j].trip
<1>1. flight = {}
  BY NoWrites DEF Undoable
<1>2. CASE Compensated(j)
  <2>1. /\ Len(job'[j].out) = n - 1 /\ job'[j].at \in {"undone", "undo"}
        /\ \A i \in 1..(n - 1) : job'[j].out[i] = job[j].out[i]
        /\ \A names : (Did(j, names) /\ work[j].steps[n] \notin names) => Did(j, names)'
    BY <1>2, StepUndone
  <2>2. n - 1 \in Nat /\ n - 1 \in 0..(n - 1)
    OBVIOUS
  <2>3. /\ \A l \in 0..(n - 1) : \A d : Explained(j, d, l)' <=> Explained(j, d, l)
        /\ \A l \in 0..(n - 1) : \A k, x : NumberExplained(j, k, x, l)' <=> NumberExplained(j, k, x, l)
    BY <2>1, <2>2, SameNotes
  <2>4. TripsExplained(j)'
    <3>1. t \in DOMAIN trips => Explained(j, trips[t], n - 1)'
      BY <2>2, <2>3
    <3> QED
      BY <2>1, <3>1 DEF Undoable, TripsExplained
  <2>5. TasksExplained(j)'
    <3>1. \A k \in Task : NumberExplained(j, k, tasks[k].number, n - 1)'
      BY <2>2, <2>3
    <3>2. \A k \in Task :
            LET old == before[j].tasks[k]
            IN  /\ \/ tasks[k].staffs = old.staffs /\ tasks[k].trip = old.trip
                   \/ k \in ToSet(work[j].tasks) /\ Did(j, {"assign"})
                /\ tasks[k].deleted = old.deleted \/ (k = work[j].task /\ Did(j, {"deleteTask"}))
                /\ tasks[k].todosDeleted = old.todosDeleted \/ (k = work[j].task /\ Did(j, {"deleteTodos"}))
      BY DEF Undoable, TasksExplained
    <3>3. /\ (Did(j, {"assign"}) /\ work[j].steps[n] # "assign") => Did(j, {"assign"})'
          /\ (Did(j, {"deleteTask"}) /\ work[j].steps[n] # "deleteTask") => Did(j, {"deleteTask"})'
          /\ (Did(j, {"deleteTodos"}) /\ work[j].steps[n] # "deleteTodos") => Did(j, {"deleteTodos"})'
      BY <2>1
    <3>4. ASSUME NEW k \in Task
          PROVE  LET old == before[j].tasks[k]
                 IN  /\ \/ tasks'[k].staffs = old.staffs /\ tasks'[k].trip = old.trip
                        \/ k \in ToSet(work[j].tasks) /\ Did(j, {"assign"})'
                     /\ tasks'[k].deleted = old.deleted \/ (k = work[j].task /\ Did(j, {"deleteTask"})')
                     /\ \/ tasks'[k].todosDeleted = old.todosDeleted
                        \/ k = work[j].task /\ Did(j, {"deleteTodos"})'
      BY <3>2, <3>3
    <3> QED
      BY <2>1, <3>1, <3>4 DEF TasksExplained
  <2> QED
    BY <1>1, <1>2, <2>4, <2>5, LessUndoable
<1>3. CASE GoesTo(j, "undo")
  <2>1. /\ job'[j].at = "undo" /\ job'[j].out = job[j].out /\ job'[j].doc = job[j].doc
        /\ \A names : Did(j, names)' <=> Did(j, names)
    BY <1>3, StepStays
  <2>2. DOMAIN job[j].out = 1..n
    BY DEF PlanTyped, JobsShaped, Shaped
  <2>3. /\ \A i \in 1..n : Emptied(j, i)' <=> Emptied(j, i)
        /\ \A l \in 0..n : \A d : Explained(j, d, l)' <=> Explained(j, d, l)
        /\ \A l \in 0..n : \A k, x : NumberExplained(j, k, x, l)' <=> NumberExplained(j, k, x, l)
    BY <2>1, SameNotes
  <2>4. n \in 0..n /\ \A m \in 1..n : m - 1 \in 0..n /\ \A i \in 1..(m - 1) : i \in 1..n
    OBVIOUS
  <2>5. n - 1 \in Nat /\ n - 1 <= n
    OBVIOUS
  <2>6. TripsExplained(j)'
    <3>1. t \in DOMAIN trips => Explained(j, trips'[t], n)
      BY <2>5, ExplainedByMore
    <3>2. t \in DOMAIN trips => Explained(j, trips[t], n)'
      BY <2>3, <2>4, <3>1
    <3> QED
      BY <2>1, <3>2 DEF Undoable, TripsExplained
  <2>7. TasksExplained(j)'
    <3>1. \A k \in Task : NumberExplained(j, k, tasks'[k].number, n)
      BY <2>5, ExplainedByMore
    <3>2. \A k \in Task : NumberExplained(j, k, tasks[k].number, n)'
      BY <2>3, <2>4, <3>1
    <3> QED
      BY <2>1, <3>2 DEF Undoable, TasksExplained
  <2>8. NotesExplained(j)'
    BY <2>1, <2>2, <2>3, <2>4 DEF Undoable, NotesExplained
  <2>9. StaysEmptied(j)'
    <3> SUFFICES ASSUME NEW i \in 1..n, Emptied(j, i), i # n PROVE t \in DOMAIN trips' /\ trips'[t].deleted
      BY <2>1, <2>2, <2>3 DEF StaysEmptied
    <3>1. t \in DOMAIN trips /\ trips[t].deleted
      BY <2>2 DEF Undoable, StaysEmptied
    <3>2. CASE Output(j).found
      <4>1. n \in DOMAIN job[j].out /\ job[j].out[n].found /\ i \in 1..(n - 1)
        BY <3>2, OutputIs
      <4> QED
        BY <4>1 DEF Undoable, NotesExplained
    <3> QED
      BY <3>1, <3>2
  <2>10. ReadExplained(j)' /\ WritesExplained(j)' /\ Renumbering(j)'
    BY <1>1, <2>1 DEF ReadExplained, WritesExplained, Renumbering
  <2> QED
    BY <2>6, <2>7, <2>8, <2>9, <2>10 DEF Undoable
<1> QED
  BY <1>2, <1>3

\* What is known of the note a compensation goes by.
LEMMA NoteOfOutput ==
    ASSUME PlanTyped, NEW j \in Job, Undoable(j), job[j].at \in {"undo", "unnumber"},
           NEW n \in Nat, n = Len(job[j].out), Output(j).found
    PROVE  LET t == work[j].trip
               old == Output(j).trip
           IN  /\ job[j].out[n] = Output(j) /\ n \in DOMAIN job[j].out
               /\ t \in DOMAIN trips /\ ~old.deleted /\ Explained(j, old, n - 1)
               /\ \A k \in Task : NumberExplained(j, k, Output(j).numbers[k], n - 1)
               /\ \A i \in 1..(n - 1) : ~Emptied(j, i)
               /\ ~before[j].trips[t].deleted
<1>1. n \in DOMAIN job[j].out /\ job[j].out[n] = Output(j)
  BY OutputIs
<1>2. /\ work[j].trip \in DOMAIN trips /\ ~Output(j).trip.deleted /\ Explained(j, Output(j).trip, n - 1)
      /\ \A k \in Task : NumberExplained(j, k, Output(j).numbers[k], n - 1)
      /\ \A i \in 1..(n - 1) : ~Emptied(j, i)
  BY <1>1 DEF Undoable, NotesExplained
<1>3. ~before[j].trips[work[j].trip].deleted
  BY <1>2 DEF Explained
<1> QED
  BY <1>1, <1>2, <1>3

\* What a compensation that does not touch tasks leaves of them.
LEMMA TasksLeft ==
    ASSUME PlanTyped, NEW j \in Job, Undoable(j), job[j].at = "undo", tasks' = tasks,
           NEW n \in Nat, n = Len(job[j].out), 1 <= n,
           work[j].steps[n] \in {"remove", "reorder", "other"}
    PROVE  \A k \in Task :
                LET old == before[j].tasks[k]
                    step == work[j].steps[n]
                IN  /\ NumberExplained(j, k, tasks'[k].number, n - 1)
                    /\ \/ tasks'[k].staffs = old.staffs /\ tasks'[k].trip = old.trip
                       \/ tasks'[k].staffs = tasks[k].staffs /\ tasks'[k].trip = tasks[k].trip /\ step # "assign"
                    /\ \/ tasks'[k].deleted = old.deleted
                       \/ tasks'[k].deleted = tasks[k].deleted /\ step # "deleteTask"
                    /\ \/ tasks'[k].todosDeleted = old.todosDeleted
                       \/ tasks'[k].todosDeleted = tasks[k].todosDeleted /\ step # "deleteTodos"
<1>1. \A k \in Task : NumberExplained(j, k, tasks[k].number, n) /\ ~Renumbered(j, n, k)
  BY DEF Undoable, TasksExplained, Renumbered
<1>2. \A k \in Task : NumberExplained(j, k, tasks[k].number, n - 1)
  BY <1>1, ExplainedByLess
<1> QED
  BY <1>2

\* restoreTrip.
LEMMA RestoreTripUndoable ==
    ASSUME PlanTyped, NEW j \in Job, Undoable(j), RestoreTrip(j), job'[j].at # "broken" PROVE Undoable(j)'
<1> DEFINE t == work[j].trip
           old == Output(j).trip
           was == before[j].trips[t]
<1>1. /\ job[j].at = "undo" /\ work[j].steps[Len(job[j].out)] = "remove" /\ CompensationAnswers(j)
      /\ UNCHANGED <<tasks, work, flight, before>>
  BY DEF RestoreTrip, Undoing, At
<1>2. Compensated(j) \/ GoesTo(j, "undo")
  <2>1. \A place : GoesTo(j, place) => job'[j].at = place
    BY JobMoves DEF PlanTyped
  <2> QED
    BY <1>1, <2>1 DEF CompensationAnswers, CompensationThrows
<1>3. PICK n \in Nat : n = Len(job[j].out) /\ 1 <= n
  BY <1>1, OutputIs
<1>4. Output(j).found /\ old \in TripDoc
  BY <1>1, OutputIs
<1>5. /\ job[j].out[n] = Output(j) /\ t \in DOMAIN trips /\ ~old.deleted /\ Explained(j, old, n - 1)
      /\ \A i \in 1..(n - 1) : ~Emptied(j, i)
      /\ ~was.deleted
  BY <1>1, <1>3, <1>4, NoteOfOutput
<1>6. trips[t] \in TripDoc /\ Explained(j, trips[t], n)
  BY <1>3, <1>5 DEF PlanTyped, TripsTyped, Undoable, TripsExplained
<1>7. Emptied(j, n) <=> ToSet(old.tasks) = {work[j].task}
  BY <1>1, <1>3, <1>5 DEF Emptied
<1>8. /\ DOMAIN trips' = DOMAIN trips /\ \A u \in DOMAIN trips \ {t} : trips'[u] = trips[u]
      /\ Explained(j, trips'[t], n - 1)
  <2>0. \A i \in 1..n : i = n \/ i \in 1..(n - 1)
    OBVIOUS
  <2>1. CASE ToSet(old.tasks) = {work[j].task}
    <3>1. trips' = [trips EXCEPT ![t].deleted = FALSE]
      BY <2>1 DEF RestoreTrip
    <3>2. /\ DOMAIN trips' = DOMAIN trips /\ \A u \in DOMAIN trips \ {t} : trips'[u] = trips[u]
          /\ trips'[t].deleted = FALSE /\ trips'[t].tasks = trips[t].tasks /\ trips'[t].window = trips[t].window
          /\ trips'[t].done = trips[t].done /\ trips'[t].staffs = trips[t].staffs
      BY <1>5, <1>6, <3>1 DEF TripDoc
    <3>3. ~Shortened(j, n) /\ ~Rewrote(j, n)
      BY <1>1, <1>3, <1>5, <2>1 DEF Shortened, Rewrote
    <3>4. was.deleted = FALSE
      <4>1. old.deleted = was.deleted \/ \E i \in 1..(n - 1) : Emptied(j, i)
        BY <1>5 DEF Explained
      <4>2. old.deleted = FALSE
        BY <1>4, <1>5 DEF TripDoc
      <4> QED
        BY <1>5, <4>1, <4>2
    <3> QED
      BY <1>6, <2>0, <3>2, <3>3, <3>4 DEF Explained
  <2>2. CASE ToSet(old.tasks) # {work[j].task}
    <3> DEFINE ks == old.tasks
               done == old.done
               window == old.window
    <3>1. trips' = [trips EXCEPT ![t].tasks = ks, ![t].done = done, ![t].window = window]
      BY <2>2 DEF RestoreTrip
    <3> HIDE DEF ks, done, window
    <3>2. /\ DOMAIN trips' = DOMAIN trips /\ \A u \in DOMAIN trips \ {t} : trips'[u] = trips[u]
          /\ trips'[t].deleted = trips[t].deleted /\ trips'[t].tasks = ks /\ trips'[t].window = window
          /\ trips'[t].done = done /\ trips'[t].staffs = trips[t].staffs
      BY <1>5, <1>6, <3>1 DEF TripDoc
    <3>3. trips[t].deleted = was.deleted /\ trips[t].staffs = was.staffs
      BY <1>5, <1>6, <1>7, <2>0, <2>2 DEF Explained
    <3> QED
      BY <1>5, <3>2, <3>3 DEF Explained, ks, done, window
  <2> QED
    BY <2>1, <2>2
<1>9. work[j].steps[n] \in {"remove", "reorder", "other"}
  BY <1>1, <1>3
<1> QED
  BY <1>1, <1>2, <1>3, <1>4, <1>8, <1>9, TasksLeft, CompensationUndoable

\* The compensation of reorderTaskSequenceInTrip.
LEMMA RestoreSequenceUndoable ==
    ASSUME PlanTyped, NEW j \in Job, Undoable(j), RestoreSequence(j), job'[j].at # "broken" PROVE Undoable(j)'
<1> DEFINE t == work[j].trip
           old == Output(j).trip
           was == before[j].trips[t]
<1>1. /\ job[j].at = "undo" /\ work[j].steps[Len(job[j].out)] = "reorder" /\ CompensationAnswers(j)
      /\ Output(j).found /\ UNCHANGED <<tasks, work, flight, before>>
  BY DEF RestoreSequence, Undoing, At
<1>2. Compensated(j) \/ GoesTo(j, "undo")
  <2>1. \A place : GoesTo(j, place) => job'[j].at = place
    BY JobMoves DEF PlanTyped
  <2> QED
    BY <1>1, <2>1 DEF CompensationAnswers, CompensationThrows
<1>3. PICK n \in Nat : n = Len(job[j].out) /\ 1 <= n
  BY <1>1, OutputIs
<1>4. old \in TripDoc
  BY <1>1, OutputIs
<1>5. /\ job[j].out[n] = Output(j) /\ t \in DOMAIN trips /\ ~old.deleted /\ Explained(j, old, n - 1)
      /\ \A i \in 1..(n - 1) : ~Emptied(j, i)
      /\ ~was.deleted
  BY <1>1, <1>3, NoteOfOutput
<1>6. trips[t] \in TripDoc /\ Explained(j, trips[t], n)
  BY <1>3, <1>5 DEF PlanTyped, TripsTyped, Undoable, TripsExplained
<1>7. ~Emptied(j, n) /\ ~Shortened(j, n) /\ \A i \in 1..n : i = n \/ i \in 1..(n - 1)
  BY <1>1, <1>3 DEF Emptied, Shortened
<1>8. /\ trips[t].deleted = was.deleted /\ trips[t].staffs = was.staffs
      /\ trips[t].done = was.done \/ \E i \in 1..(n - 1) : Shortened(j, i)
  BY <1>5, <1>6, <1>7 DEF Explained
<1>9. Live(t)
  BY <1>5, <1>8 DEF Live
<1> DEFINE ks == old.tasks
           window == old.window
<1>10. trips' = [trips EXCEPT ![t].tasks = ks, ![t].window = window]
  BY <1>9 DEF RestoreSequence
<1> HIDE DEF ks, window
<1>11. /\ DOMAIN trips' = DOMAIN trips /\ \A u \in DOMAIN trips \ {t} : trips'[u] = trips[u]
       /\ trips'[t].deleted = trips[t].deleted /\ trips'[t].tasks = ks /\ trips'[t].window = window
       /\ trips'[t].done = trips[t].done /\ trips'[t].staffs = trips[t].staffs
  BY <1>5, <1>6, <1>10 DEF TripDoc
<1>12. Explained(j, trips'[t], n - 1)
  BY <1>5, <1>8, <1>11 DEF Explained, ks, window
<1>13. work[j].steps[n] \in {"remove", "reorder", "other"}
  BY <1>1, <1>3
<1> QED
  BY <1>1, <1>2, <1>3, <1>11, <1>12, <1>13, TasksLeft, CompensationUndoable

\* A step whose compensation leaves the trip alone has not written it.
LEMMA TripLeft ==
    ASSUME PlanTyped, NEW j \in Job, Undoable(j), trips' = trips,
           NEW n \in Nat, n = Len(job[j].out), 1 <= n, work[j].steps[n] \notin {"remove", "reorder"}
    PROVE  work[j].trip \in DOMAIN trips => Explained(j, trips'[work[j].trip], n - 1)
<1>1. ~Rewrote(j, n) /\ ~Emptied(j, n)
  BY DEF Rewrote, Shortened, Emptied
<1> QED
  BY <1>1, ExplainedByLess DEF Undoable, TripsExplained

\* The compensations that write to tasks, or nothing.
LEMMA RestoresUndoable ==
    ASSUME PlanTyped, NEW j \in Job, Undoable(j), WasWhole(j), job'[j].at # "broken",
           RestoreStaff(j) \/ RestoreTodos(j) \/ RestoreTask(j) \/ UndoOther(j)
    PROVE  Undoable(j)'
<1> DEFINE name == work[j].steps[Len(job[j].out)]
<1>1. /\ job[j].at = "undo" /\ name \in {"assign", "deleteTodos", "deleteTask", "other"}
      /\ Compensated(j) \/ CompensationThrows(j)
      /\ UNCHANGED <<trips, work, flight, before>>
  BY DEF RestoreStaff, RestoreTodos, RestoreTask, UndoOther, CompensationAnswers, Undoing, At
<1>2. Compensated(j) \/ GoesTo(j, "undo")
  <2>1. \A place : GoesTo(j, place) => job'[j].at = place
    BY JobMoves DEF PlanTyped
  <2> QED
    BY <1>1, <2>1 DEF CompensationThrows
<1>3. PICK n \in Nat : n = Len(job[j].out) /\ 1 <= n
  BY <1>1, OutputIs
<1>4. work[j].trip \in DOMAIN trips => Explained(j, trips'[work[j].trip], n - 1)
  BY <1>1, <1>3, TripLeft
<1>5. /\ tasks \in [Task -> TaskDoc] /\ work[j].kind = "saga" /\ work[j].task \in Task
      /\ before[j].tasks \in [Task -> TaskDoc]
  <2>1. work[j].kind = "saga"
    BY DEF RestoreStaff, RestoreTodos, RestoreTask, UndoOther, Undoing, At
  <2> QED
    BY <2>1, WorkIs DEF PlanTyped, TasksTyped, BeforeTyped
<1>6. \A k \in Task : tasks'[k].number = tasks[k].number
  <2>1. CASE RestoreStaff(j)
    BY <1>5, <2>1 DEF RestoreStaff, TaskDoc
  <2>2. CASE RestoreTodos(j) \/ RestoreTask(j)
    BY <1>5, <2>2 DEF RestoreTodos, RestoreTask, TaskDoc
  <2>3. CASE UndoOther(j)
    BY <2>3 DEF UndoOther
  <2> QED
    BY <2>1, <2>2, <2>3
<1>7. \A k \in Task : NumberExplained(j, k, tasks'[k].number, n - 1)
  <2>1. \A k \in Task : NumberExplained(j, k, tasks[k].number, n) /\ ~Renumbered(j, n, k)
    BY <1>1, <1>3 DEF Undoable, TasksExplained, Renumbered
  <2> QED
    BY <1>3, <1>6, <2>1, ExplainedByLess
<1>8. \A k \in Task :
        LET old == before[j].tasks[k]
        IN  /\ \/ tasks[k].staffs = old.staffs /\ tasks[k].trip = old.trip
               \/ k \in ToSet(work[j].tasks)
            /\ tasks[k].deleted = old.deleted \/ k = work[j].task
            /\ tasks[k].todosDeleted = old.todosDeleted \/ k = work[j].task
  BY DEF Undoable, TasksExplained
<1>9. \A k \in Task :
        LET old == before[j].tasks[k]
            step == work[j].steps[n]
        IN  /\ \/ tasks'[k].staffs = old.staffs /\ tasks'[k].trip = old.trip
               \/ tasks'[k].staffs = tasks[k].staffs /\ tasks'[k].trip = tasks[k].trip /\ step # "assign"
            /\ \/ tasks'[k].deleted = old.deleted
               \/ tasks'[k].deleted = tasks[k].deleted /\ step # "deleteTask"
            /\ \/ tasks'[k].todosDeleted = old.todosDeleted
               \/ tasks'[k].todosDeleted = tasks[k].todosDeleted /\ step # "deleteTodos"
  <2> SUFFICES ASSUME NEW k \in Task
               PROVE  LET old == before[j].tasks[k]
                          step == work[j].steps[n]
                      IN  /\ \/ tasks'[k].staffs = old.staffs /\ tasks'[k].trip = old.trip
                             \/ /\ tasks'[k].staffs = tasks[k].staffs /\ tasks'[k].trip = tasks[k].trip
                                /\ step # "assign"
                          /\ \/ tasks'[k].deleted = old.deleted
                             \/ tasks'[k].deleted = tasks[k].deleted /\ step # "deleteTask"
                          /\ \/ tasks'[k].todosDeleted = old.todosDeleted
                             \/ tasks'[k].todosDeleted = tasks[k].todosDeleted /\ step # "deleteTodos"
    OBVIOUS
  <2>1. CASE RestoreStaff(j)
    <3>1. work[j].steps[n] = "assign"
      BY <1>3, <2>1 DEF RestoreStaff, Undoing
    <3>2. CASE k \in ToSet(work[j].tasks)
      <4> DEFINE staffs == before[j].tasks[k].staffs
                 trip == before[j].tasks[k].trip
      <4>1. tasks'[k] = [tasks[k] EXCEPT !.staffs = staffs, !.trip = trip]
        BY <2>1, <3>2 DEF RestoreStaff
      <4>2. tasks[k] \in TaskDoc
        BY <1>5
      <4> HIDE DEF staffs, trip
      <4>3. /\ tasks'[k].staffs = staffs /\ tasks'[k].trip = trip /\ tasks'[k].deleted = tasks[k].deleted
            /\ tasks'[k].todosDeleted = tasks[k].todosDeleted
        BY <4>1, <4>2 DEF TaskDoc
      <4> QED
        BY <3>1, <4>3 DEF staffs, trip
    <3>3. CASE k \notin ToSet(work[j].tasks)
      <4>1. tasks'[k] = tasks[k]
        BY <2>1, <3>3 DEF RestoreStaff
      <4> QED
        BY <1>8, <3>1, <3>3, <4>1
    <3> QED
      BY <3>2, <3>3
  <2>2. CASE RestoreTodos(j)
    <3>1. work[j].steps[n] = "deleteTodos"
      BY <1>3, <2>2 DEF RestoreTodos, Undoing
    <3>2. /\ tasks'[k].staffs = tasks[k].staffs /\ tasks'[k].trip = tasks[k].trip
          /\ tasks'[k].deleted = tasks[k].deleted
          /\ tasks'[k].todosDeleted = IF k = work[j].task THEN FALSE ELSE tasks[k].todosDeleted
      BY <1>5, <2>2 DEF RestoreTodos, TaskDoc
    <3>3. before[j].tasks[work[j].task].todosDeleted = FALSE
      BY <1>5 DEF WasWhole, TaskDoc
    <3> QED
      BY <1>8, <3>1, <3>2, <3>3
  <2>3. CASE RestoreTask(j)
    <3>1. work[j].steps[n] = "deleteTask"
      BY <1>3, <2>3 DEF RestoreTask, Undoing
    <3>2. /\ tasks'[k].staffs = tasks[k].staffs /\ tasks'[k].trip = tasks[k].trip
          /\ tasks'[k].todosDeleted = tasks[k].todosDeleted
          /\ tasks'[k].deleted = IF k = work[j].task THEN FALSE ELSE tasks[k].deleted
      BY <1>5, <2>3 DEF RestoreTask, TaskDoc
    <3>3. before[j].tasks[work[j].task].deleted = FALSE
      BY <1>5 DEF WasWhole, TaskDoc
    <3> QED
      BY <1>8, <3>1, <3>2, <3>3
  <2>4. CASE UndoOther(j)
    BY <1>3, <2>4 DEF UndoOther, Undoing
  <2> QED
    BY <2>1, <2>2, <2>3, <2>4
<1> QED
  BY <1>1, <1>2, <1>3, <1>4, <1>7, <1>9, CompensationUndoable

\* The numbers are written back.
LEMMA RestoreNumbersUndoable ==
    ASSUME PlanTyped, NEW j \in Job, Undoable(j), RestoreNumbers(j) PROVE Undoable(j)'
<1> DEFINE o == Output(j)
           new == {[by |-> j, op |-> "number", task |-> k, number |-> o.numbers[k]] : k \in ToSet(o.trip.tasks)}
<1>1. /\ job[j].at = "undo" /\ work[j].steps[Len(job[j].out)] = "number" /\ o.found
      /\ GoesTo(j, "unnumber") /\ UNCHANGED <<trips, tasks, work, before>> /\ flight' = flight \cup new
  BY DEF RestoreNumbers, Undoing, At
<1>2. flight = {}
  BY <1>1, NoWrites DEF Undoable
<1>3. /\ job'[j].at = "unnumber" /\ job'[j].out = job[j].out /\ job'[j].doc = job[j].doc
      /\ \A names : Did(j, names)' <=> Did(j, names)
  BY <1>1, StepStays
<1>4. PICK n \in Nat : n = Len(job[j].out) /\ DOMAIN job[j].out = 1..n
  BY DEF PlanTyped, JobsShaped, Shaped
<1>5. /\ \A i \in 1..n : Emptied(j, i)' <=> Emptied(j, i)
      /\ \A l \in 0..n : \A d : Explained(j, d, l)' <=> Explained(j, d, l)
      /\ \A l \in 0..n : \A k, x : NumberExplained(j, k, x, l)' <=> NumberExplained(j, k, x, l)
  BY <1>1, <1>3, SameNotes
<1>6. n \in 0..n /\ \A m \in 1..n : m - 1 \in 0..n /\ \A i \in 1..(m - 1) : i \in 1..n
  OBVIOUS
<1>7. \A k \in Task : NumberExplained(j, k, tasks[k].number, n)
  BY <1>1, <1>4 DEF Undoable, TasksExplained
<1>8. TripsExplained(j)'
  BY <1>1, <1>3, <1>4, <1>5, <1>6 DEF Undoable, TripsExplained
<1>9. TasksExplained(j)'
  BY <1>1, <1>3, <1>4, <1>5, <1>6, <1>7 DEF Undoable, TasksExplained
<1>10. NotesExplained(j)'
  BY <1>1, <1>3, <1>4, <1>5, <1>6 DEF Undoable, NotesExplained
<1>11. ReadExplained(j)'
  BY <1>3 DEF ReadExplained
<1>12. StaysEmptied(j)'
  <2>1. ~Emptied(j, n)
    BY <1>1, <1>4 DEF Emptied
  <2> QED
    BY <1>1, <1>3, <1>4, <1>5, <2>1 DEF Undoable, StaysEmptied
<1>13. o = Last(job[j].out)
  BY DEF Output
<1> HIDE DEF o
<1>14. /\ \A w \in flight' : w.by = j /\ w.op = "number" /\ w.task \in ToSet(o.trip.tasks)
                             /\ w.number = o.numbers[w.task]
       /\ \A k \in ToSet(o.trip.tasks) : \E w \in flight' : w.task = k
  <2>1. flight' = new
    BY <1>1, <1>2
  <2>2. ASSUME NEW k \in ToSet(o.trip.tasks) PROVE \E w \in flight' : w.task = k
    <3> DEFINE w == [by |-> j, op |-> "number", task |-> k, number |-> o.numbers[k]]
    <3>1. w \in new /\ w.task = k
      OBVIOUS
    <3> QED
      BY <2>1, <3>1
  <2> QED
    BY <2>1, <2>2
<1>15. WritesExplained(j)'
  BY <1>3, <1>13, <1>14 DEF WritesExplained
<1>16. Renumbering(j)'
  BY <1>1, <1>3, <1>13, <1>14 DEF Renumbering
<1> QED
  BY <1>8, <1>9, <1>10, <1>11, <1>12, <1>15, <1>16 DEF Undoable

\* When they have landed the numbers are what they were before the step.
LEMMA NumbersRestoredUndoable ==
    ASSUME PlanTyped, NEW j \in Job, Undoable(j), NumbersAreRestored(j) PROVE Undoable(j)'
<1> DEFINE o == Output(j)
<1>1. /\ job[j].at = "unnumber" /\ ~(\E w \in flight : w.by = j) /\ Compensated(j)
      /\ UNCHANGED <<trips, tasks, work, flight, before>>
  BY DEF NumbersAreRestored, At
<1>2. flight = {}
  BY <1>1 DEF Undoable, WritesExplained
<1>3. PICK n \in Nat : n = Len(job[j].out) /\ 1 <= n
  BY <1>1, OutputIs
<1>4. /\ work[j].steps[n] = "number" /\ o.found
      /\ \A k \in ToSet(o.trip.tasks) : tasks[k].number = o.numbers[k]
  BY <1>1, <1>2, <1>3 DEF Undoable, Renumbering, Output
<1>5. job[j].out[n] = o /\ \A k \in Task : NumberExplained(j, k, o.numbers[k], n - 1)
  BY <1>1, <1>3, <1>4, NoteOfOutput
<1>6. \A k \in Task : NumberExplained(j, k, tasks[k].number, n - 1)
  <2> SUFFICES ASSUME NEW k \in Task PROVE NumberExplained(j, k, tasks[k].number, n - 1)
    OBVIOUS
  <2>1. CASE k \in ToSet(o.trip.tasks)
    BY <1>4, <1>5, <2>1
  <2>2. CASE k \notin ToSet(o.trip.tasks)
    <3>1. NumberExplained(j, k, tasks[k].number, n) /\ ~Renumbered(j, n, k)
      BY <1>1, <1>3, <1>5, <2>2 DEF Undoable, TasksExplained, Renumbered
    <3> QED
      BY <1>3, <3>1, ExplainedByLess
  <2> QED
    BY <2>1, <2>2
<1>7. work[j].trip \in DOMAIN trips => Explained(j, trips'[work[j].trip], n - 1)
  BY <1>1, <1>3, <1>4, TripLeft
<1>8. /\ Len(job'[j].out) = n - 1 /\ job'[j].at \in {"undone", "undo"}
      /\ \A i \in 1..(n - 1) : job'[j].out[i] = job[j].out[i]
      /\ \A names : (Did(j, names) /\ work[j].steps[n] \notin names) => Did(j, names)'
  BY <1>1, <1>3, StepUndone
<1>9. n - 1 \in Nat /\ n - 1 \in 0..(n - 1)
  BY <1>3
<1>10. /\ \A l \in 0..(n - 1) : \A d : Explained(j, d, l)' <=> Explained(j, d, l)
       /\ \A l \in 0..(n - 1) : \A k, x : NumberExplained(j, k, x, l)' <=> NumberExplained(j, k, x, l)
  BY <1>1, <1>8, <1>9, SameNotes
<1>11. TripsExplained(j)'
  <2>1. work[j].trip \in DOMAIN trips => Explained(j, trips[work[j].trip], n - 1)'
    BY <1>1, <1>7, <1>9, <1>10
  <2> QED
    BY <1>1, <1>8, <2>1 DEF Undoable, TripsExplained
<1>12. TasksExplained(j)'
  <2>1. \A k \in Task : NumberExplained(j, k, tasks[k].number, n - 1)'
    BY <1>1, <1>6, <1>9, <1>10
  <2>2. /\ Did(j, {"assign"}) => Did(j, {"assign"})'
        /\ Did(j, {"deleteTask"}) => Did(j, {"deleteTask"})'
        /\ Did(j, {"deleteTodos"}) => Did(j, {"deleteTodos"})'
    BY <1>4, <1>8
  <2> QED
    BY <1>1, <1>8, <2>1, <2>2 DEF Undoable, TasksExplained
<1> QED
  BY <1>1, <1>2, <1>11, <1>12, LessUndoable

\* A compensation that throws.
LEMMA UndoThrowsUndoable ==
    ASSUME PlanTyped, NEW j \in Job, Undoable(j), UndoThrows(j), job'[j].at # "broken" PROVE Undoable(j)'
<1>1. /\ job[j].at = "undo" /\ UNCHANGED <<trips, tasks, work, flight, before>>
      /\ CompensationThrows(j)
  BY DEF UndoThrows, At
<1>2. GoesTo(j, "undo")
  <2>1. \A place : GoesTo(j, place) => job'[j].at = place
    BY JobMoves DEF PlanTyped
  <2> QED
    BY <1>1, <2>1 DEF CompensationThrows
<1> QED
  BY <1>1, <1>2, StaysUndoable

\* Every step of a workflow that is not given up half undone.
LEMMA SagaUndoable ==
    ASSUME PlanTyped, NEW j \in Job, Undoable(j), ReadNow(j), WasWhole(j), SagaStep(j), damaged' = {},
           job'[j].at # "broken"
    PROVE  Undoable(j)'
<1>1. ~NothingToRestore(j)
  <2>1. \A place : GoesTo(j, place) => job'[j].at = place
    BY JobMoves DEF PlanTyped
  <2> QED
    BY <2>1 DEF NothingToRestore
<1> QED
  BY <1>1, ReadUndoable, RemoveUndoable, ReorderUndoable, NumberUndoable, NumberedUndoable, OthersUndoable,
     RestoreTripUndoable, RestoreSequenceUndoable, RestoreNumbersUndoable, NumbersRestoredUndoable,
     RestoresUndoable, UndoThrowsUndoable
  DEF SagaStep

\* A number lands.
LEMMA LandUndoable ==
    ASSUME PlanTyped, NEW j \in Job, Undoable(j), NEW w \in flight, Land(w) PROVE Undoable(j)'
<1>1. /\ w.by = j /\ w.op = "number"
      /\ job[j].at = "number" => w.task \in ToSet(job[j].doc.trip.tasks)
      /\ job[j].at = "unnumber" =>
            /\ w.task \in ToSet(Last(job[j].out).trip.tasks)
            /\ w.number = Last(job[j].out).numbers[w.task]
  BY DEF Undoable, WritesExplained
<1>2. job[j].at \in {"number", "unnumber"}
  BY <1>1, NoWrites DEF Undoable
<1>3. /\ flight' = flight \ {w} /\ tasks' = [tasks EXCEPT ![w.task].number = w.number]
      /\ UNCHANGED <<trips, work, job, before>>
  BY <1>1 DEF Land
<1>4. tasks \in [Task -> TaskDoc]
  BY DEF PlanTyped, TasksTyped
<1>5. \A k \in Task :
        /\ tasks'[k].number = IF k = w.task THEN w.number ELSE tasks[k].number
        /\ tasks'[k].staffs = tasks[k].staffs /\ tasks'[k].trip = tasks[k].trip
        /\ tasks'[k].deleted = tasks[k].deleted /\ tasks'[k].todosDeleted = tasks[k].todosDeleted
  BY <1>3, <1>4 DEF TaskDoc
<1>6. PICK n \in Nat : n = Len(job[j].out) /\ DOMAIN job[j].out = 1..n
  BY DEF PlanTyped, JobsShaped, Shaped
<1>7. /\ \A i \in 1..n : Emptied(j, i)' <=> Emptied(j, i)
      /\ \A l \in 0..n : \A d : Explained(j, d, l)' <=> Explained(j, d, l)
      /\ \A l \in 0..n : \A k, x : NumberExplained(j, k, x, l)' <=> NumberExplained(j, k, x, l)
  BY <1>3, SameNotes
<1>8. n \in 0..n /\ \A m \in 1..n : m - 1 \in 0..n /\ \A i \in 1..(m - 1) : i \in 1..n
  OBVIOUS
<1>9. Worker(j)' = Worker(j) /\ \A names : Did(j, names)' <=> Did(j, names)
  BY <1>3 DEF Worker, Did
<1>10. TripsExplained(j)'
  BY <1>3, <1>6, <1>7, <1>8 DEF Undoable, TripsExplained
<1>11. TasksExplained(j)'
  <2>1. ASSUME NEW k \in Task
        PROVE  \/ NumberExplained(j, k, tasks'[k].number, n)
               \/ job[j].at = "number" /\ k \in ToSet(job[j].doc.trip.tasks)
    <3>1. CASE k # w.task
      BY <1>5, <1>6, <3>1 DEF Undoable, TasksExplained
    <3>2. CASE k = w.task /\ job[j].at = "number"
      BY <1>1, <3>2
    <3>3. CASE k = w.task /\ job[j].at = "unnumber"
      <4>1. n \in 1..n /\ Last(job[j].out) = job[j].out[n]
        BY <1>6, <3>3, OutputIs DEF Output
      <4>2. Renumbered(j, n, k)
        BY <1>1, <1>6, <3>3, <4>1 DEF Renumbered, Undoable, Renumbering
      <4> QED
        BY <4>1, <4>2 DEF NumberExplained
    <3> QED
      BY <1>2, <3>1, <3>2, <3>3
  <2>2. ASSUME NEW k \in Task
        PROVE  \/ NumberExplained(j, k, tasks[k].number, n)'
               \/ job[j].at = "number" /\ k \in ToSet(job[j].doc.trip.tasks)
    BY <1>7, <1>8, <2>1
  <2> QED
    BY <1>3, <1>5, <1>6, <1>9, <2>2 DEF Undoable, TasksExplained
<1>12. NotesExplained(j)'
  BY <1>3, <1>6, <1>7, <1>8 DEF Undoable, NotesExplained
<1>13. ReadExplained(j)'
  BY <1>3, <1>6, <1>7, <1>8, <1>9 DEF Undoable, ReadExplained
<1>14. StaysEmptied(j)'
  BY <1>3, <1>6, <1>7 DEF Undoable, StaysEmptied
<1>15. WritesExplained(j)'
  BY <1>3 DEF Undoable, WritesExplained
<1>16. Renumbering(j)'
  <2> SUFFICES ASSUME job[j].at = "unnumber", NEW k \in ToSet(Last(job[j].out).trip.tasks)
               PROVE  \/ tasks'[k].number = Last(job[j].out).numbers[k]
                      \/ \E v \in flight' : v.task = k
    BY <1>3 DEF Undoable, Renumbering
  <2>1. tasks[k].number = Last(job[j].out).numbers[k] \/ \E v \in flight : v.task = k
    BY DEF Undoable, Renumbering
  <2>2. k \in Task
    <3>1. Last(job[j].out).found
      BY DEF Undoable, Renumbering
    <3>2. Last(job[j].out).trip.tasks \in Seq(Task)
      BY <3>1, OutputIs DEF Output
    <3> QED
      BY <3>2 DEF ToSet
  <2>3. CASE k = w.task
    BY <1>1, <1>5, <2>2, <2>3
  <2>4. CASE k # w.task
    BY <1>3, <1>5, <2>1, <2>2, <2>4
  <2> QED
    BY <2>3, <2>4
<1> QED
  BY <1>10, <1>11, <1>12, <1>13, <1>14, <1>15, <1>16 DEF Undoable

\* Before any request no workflow is under way.
LEMMA TraceInit == Init => TraceInv
<1> SUFFICES ASSUME Init, NEW j \in Job, Single(j) PROVE FALSE
  BY DEF TraceInv
<1>1. job[j].at = "ready"
  BY DEF Init, PlanningInit, Waiting
<1> QED
  BY <1>1 DEF Single, Active

\* A workflow that begins finds everything as it is.
LEMMA SubmitUndoable ==
    ASSUME PlanTyped, NEW j \in Job, Submit(j), flight = {}, work[j].kind = "saga" PROVE Undoable(j)'
<1>1. /\ UNCHANGED <<trips, tasks, work>> /\ flight' = {} /\ GoesTo(j, "call") /\ job[j].at = "ready"
      /\ before' = [before EXCEPT ![j] = [trips |-> trips, tasks |-> tasks]]
  BY DEF Submit, Creations
<1>2. job[j].out = <<>>
  BY <1>1 DEF PlanTyped, JobsShaped, Shaped
<1>3. job'[j].at = "call" /\ job'[j].out = <<>> /\ Len(job'[j].out) = 0 /\ DOMAIN job'[j].out = {}
  BY <1>1, <1>2, StepStays
<1>4. before'[j].trips = trips /\ before'[j].tasks = tasks
  BY <1>1 DEF PlanTyped, BeforeTyped
<1>5. TripsExplained(j)'
  BY <1>1, <1>4 DEF TripsExplained, Explained
<1>6. TasksExplained(j)'
  BY <1>1, <1>4 DEF TasksExplained, NumberExplained
<1> QED
  BY <1>1, <1>3, <1>5, <1>6
  DEF Undoable, NotesExplained, ReadExplained, StaysEmptied, WritesExplained, Renumbering

\* Every step leaves a workflow that is alone what it can undo.
LEMMA TraceStep == PlanTyped /\ HolderInv /\ OrderInv /\ TraceInv /\ [Next]_vars => TraceInv'
<1> SUFFICES ASSUME PlanTyped, HolderInv, OrderInv, TraceInv, [Next]_vars, NEW j \in Job,
                    Single(j)', damaged' = {}, WasWhole(j)'
             PROVE  Undoable(j)'
  BY DEF TraceInv
<1>1. ASSUME Single(j), damaged = {}, UNCHANGED <<work, before>> PROVE Undoable(j) /\ ReadNow(j) /\ WasWhole(j)
  <2>1. WasWhole(j)
    BY <1>1 DEF WasWhole
  <2> QED
    BY <1>1, <2>1 DEF TraceInv, OrderInv
<1>2. CASE Single(j) /\ SagaStep(j)
  <2>1. UNCHANGED <<work, before>> /\ damaged = {}
    BY <1>2, SagaMoves DEF Going
  <2>2. job'[j].at # "broken"
    BY DEF Single, Active, Ends
  <2> QED
    BY <1>1, <1>2, <2>1, <2>2, SagaUndoable
<1>3. ASSUME Single(j), NEW w \in flight, Land(w) \/ WriteThrows(w) PROVE Undoable(j)'
  <2>1. CASE Land(w)
    <3>1. UNCHANGED <<work, before, damaged>>
      BY <2>1 DEF Land
    <3> QED
      BY <1>1, <1>3, <2>1, <3>1, LandUndoable
  <2>2. CASE WriteThrows(w)
    <3>1. w.by = NoJob /\ damaged' = damaged /\ UNCHANGED <<work, before>>
      BY <2>2 DEF WriteThrows
    <3>2. w.by = j /\ NoJob \notin Job
      BY <1>1, <1>3, <3>1, PlanningAssumption DEF Undoable, WritesExplained
    <3> QED
      BY <3>1, <3>2
  <2> QED
    BY <1>3, <2>1, <2>2
<1>4. CASE Submit(j) /\ flight = {} /\ work[j].kind = "saga"
  BY <1>4, SubmitUndoable
<1>5. CASE Single(j) /\ UNCHANGED <<trips, tasks, work, job, flight, before, overlapped, damaged>>
  <2>1. Undoable(j)
    BY <1>1, <1>5
  <2>2. /\ \A i : Emptied(j, i)' <=> Emptied(j, i)
        /\ \A i : Shortened(j, i)' <=> Shortened(j, i)
        /\ \A i : Rewrote(j, i)' <=> Rewrote(j, i)
        /\ \A i, k : Renumbered(j, i, k)' <=> Renumbered(j, i, k)
        /\ \A names : Did(j, names)' <=> Did(j, names)
        /\ Worker(j)' = Worker(j)
    BY <1>5 DEF Emptied, Shortened, Rewrote, Renumbered, Did, Worker
  <2>3. /\ \A d, l : Explained(j, d, l)' <=> Explained(j, d, l)
        /\ \A k, x, l : NumberExplained(j, k, x, l)' <=> NumberExplained(j, k, x, l)
    BY <1>5, <2>2 DEF Explained, NumberExplained
  <2>4. TripsExplained(j)'
    BY <1>5, <2>1, <2>3 DEF Undoable, TripsExplained
  <2>5. TasksExplained(j)'
    BY <1>5, <2>1, <2>2, <2>3 DEF Undoable, TasksExplained
  <2>6. NotesExplained(j)'
    BY <1>5, <2>1, <2>2, <2>3 DEF Undoable, NotesExplained
  <2>7. ReadExplained(j)'
    BY <1>5, <2>1, <2>2, <2>3 DEF Undoable, ReadExplained
  <2>8. StaysEmptied(j)'
    BY <1>5, <2>1, <2>2 DEF Undoable, StaysEmptied
  <2>9. WritesExplained(j)' /\ Renumbering(j)'
    BY <1>5, <2>1 DEF Undoable, WritesExplained, Renumbering
  <2> QED
    BY <2>4, <2>5, <2>6, <2>7, <2>8, <2>9 DEF Undoable
<1> QED
  BY <1>2, <1>3, <1>4, <1>5, SingleGoes

\* A workflow of which no step is left has left nothing.
Traceless ==
    \A j \in Job : (Undoable(j) /\ job[j].out = <<>> /\ job[j].at = "undone") =>
        tasks = before[j].tasks /\ trips = before[j].trips

\* What is explained by no step is as it was.
LEMMA NothingDone == PlanTyped => Traceless
<1> SUFFICES ASSUME PlanTyped, NEW j \in Job, Undoable(j), job[j].at = "undone", job[j].out = <<>>
             PROVE  tasks = before[j].tasks /\ trips = before[j].trips
  BY DEF Traceless
<1>1. Len(job[j].out) = 0 /\ 1..0 = {} /\ DOMAIN job[j].out = {}
  OBVIOUS
<1>2. /\ trips \in Seq(TripDoc) /\ tasks \in [Task -> TaskDoc]
      /\ before[j].trips \in Seq(TripDoc) /\ before[j].tasks \in [Task -> TaskDoc]
  BY DEF PlanTyped, TripsTyped, TasksTyped, BeforeTyped
<1>3. ASSUME NEW t \in DOMAIN trips PROVE trips[t] = before[j].trips[t]
  <2>1. CASE t # work[j].trip
    BY <2>1 DEF Undoable, TripsExplained
  <2>2. CASE t = work[j].trip
    <3> DEFINE now == trips[t]
               old == before[j].trips[t]
    <3>1. Explained(j, now, 0)
      BY <1>1, <2>2 DEF Undoable, TripsExplained
    <3>2. /\ now.tasks = old.tasks /\ now.window = old.window /\ now.done = old.done
          /\ now.deleted = old.deleted /\ now.staffs = old.staffs
      BY <1>1, <2>2, <3>1 DEF Explained
    <3>3. now \in TripDoc /\ old \in TripDoc
      BY <1>2 DEF Undoable, TripsExplained
    <3> HIDE DEF now, old
    <3>4. now = old
      BY <3>2, <3>3 DEF TripDoc
    <3> QED
      BY <3>4 DEF now, old
  <2> QED
    BY <2>1, <2>2
<1>4. ASSUME NEW k \in Task PROVE tasks[k] = before[j].tasks[k]
  <2> DEFINE now == tasks[k]
             old == before[j].tasks[k]
  <2>1. ~Did(j, {"assign"}) /\ ~Did(j, {"deleteTask"}) /\ ~Did(j, {"deleteTodos"})
    BY <1>1 DEF Did
  <2>2. now.number = old.number
    BY <1>1 DEF Undoable, TasksExplained, NumberExplained
  <2>3. /\ now.staffs = old.staffs /\ now.trip = old.trip /\ now.deleted = old.deleted
        /\ now.todosDeleted = old.todosDeleted
    BY <2>1 DEF Undoable, TasksExplained
  <2>4. now \in TaskDoc /\ old \in TaskDoc
    BY <1>2
  <2> HIDE DEF now, old
  <2>5. now = old
    BY <2>2, <2>3, <2>4 DEF TaskDoc
  <2> QED
    BY <2>5 DEF now, old
<1>5. DOMAIN trips = DOMAIN before[j].trips
  BY DEF Undoable, TripsExplained
<1> QED
  BY <1>2, <1>3, <1>4, <1>5

\* So it is after a step.
LEMMA NothingDoneNext == PlanTyped' => Traceless'
BY NothingDone, PTL

\* A worker that reads the trip ends nothing half way.
LEMMA ReadTripEnds ==
    ASSUME PlanTyped, NEW j \in Job, ReadTrip(j) PROVE job'[j].at \in {"stepFailed", "write", "ok", "call"}
<1>1. DOMAIN job = Job /\ DOMAIN job[j] = {"at", "step", "doc", "out"}
  BY DEF PlanTyped, JobsShaped, Shaped
<1>2. GoesTo(j, "stepFailed") \/ Completed(j, NotFound)
      \/ \E doc : job' = [job EXCEPT ![j].at = "write", ![j].doc = doc]
  BY DEF ReadTrip
<1> QED
  BY <1>1, <1>2 DEF GoesTo, Completed

\* No request is undone.
LEMMA RequestEnds ==
    ASSUME PlanTyped, NEW j \in Job, RequestStep(j) PROVE job'[j].at \in {"insert", "bind", "ok", "failed"}
<1>1. \/ \E place \in {"insert", "ok", "failed"} : GoesTo(j, place)
      \/ \E x : TripIsMade(j, x)
  BY DEF RequestStep, CheckTasks, InsertTrip, UpsertTrip, AddToSet, BindTripToTask, RequestThrows, BindThrows
<1>2. DOMAIN job = Job /\ DOMAIN job[j] = {"at", "step", "doc", "out"}
  BY DEF PlanTyped, JobsShaped, Shaped
<1> QED
  BY <1>1, <1>2 DEF TripIsMade, GoesTo

\* Only a workflow is undone.
LEMMA UndoneIsSaga ==
    ASSUME PlanTyped, HolderInv, [PlanningNext]_planning, NEW j \in Job, Ending(j, "undone")
    PROVE  work[j].kind = "saga"
<1>1. CASE UNCHANGED planning
  BY <1>1 DEF planning, Ending
<1>2. ASSUME NEW i \in Job, JobStep(i) PROVE work[j].kind = "saga"
  <2>1. SagaStep(i) \/ RequestStep(i) \/ Submit(i)
    BY <1>2 DEF JobStep, SagaStep, RequestStep
  <2>2. CASE SagaStep(i)
    <3>1. i = j
      BY <2>2, SagaMoves DEF Going, Ending
    <3> QED
      BY <2>2, <3>1, SagaKind
  <2>3. CASE RequestStep(i)
    BY <2>3, RequestMoves, RequestEnds DEF Ending
  <2>4. CASE Submit(i)
    <3>1. \E p \in {"check", "add", "call"} : GoesTo(i, p)
      BY <2>4 DEF Submit
    <3> QED
      BY <3>1, JobMoves DEF PlanTyped, Ending
  <2> QED
    BY <2>1, <2>2, <2>3, <2>4
<1>3. ASSUME NEW w \in flight, Land(w) \/ WriteThrows(w) PROVE FALSE
  <2>1. CASE Land(w) \/ w.by = NoJob
    BY <1>3, <2>1 DEF Land, WriteThrows, Ending
  <2>2. CASE WriteThrows(w) /\ w.by # NoJob
    <3> DEFINE i == w.by
    <3>1. i \in Job /\ \E p \in {"stepFailed", "undo", "broken"} : GoesTo(i, p)
      BY <2>2, WriteIs DEF WriteThrows
    <3> HIDE DEF i
    <3>2. (\A l \in Job \ {i} : job'[l] = job[l]) /\ job'[i].at \in {"stepFailed", "undo", "broken"}
      BY <3>1, JobMoves DEF PlanTyped
    <3> QED
      BY <3>2 DEF Ending
  <2> QED
    BY <1>3, <2>1, <2>2
<1> QED
  BY <1>1, <1>2, <1>3 DEF PlanningNext

\* A workflow that was undone leaves everything as it found it.
LEMMA EndsWithoutTrace ==
    ASSUME PlanTyped, PlanTyped', HolderInv, OrderInv, TraceInv, [PlanningNext]_planning, NEW j \in Job,
           Ending(j, "undone"), j \notin overlapped, damaged = {}, WasWhole(j)
    PROVE  tasks' = before[j].tasks /\ trips' = before[j].trips
<1>1. SagaStep(j) /\ work[j].kind = "saga"
  BY EndsItself, UndoneIsSaga
<1>2. Single(j) /\ UNCHANGED <<work, before>> /\ job'[j].at = "undone"
  BY <1>1, SagaMoves DEF Going, Single, Ending
<1>3. Undoable(j) /\ ReadNow(j)
  BY <1>2 DEF TraceInv, OrderInv
<1>4. \A place : GoesTo(j, place) => job'[j].at = place /\ job'[j].out = job[j].out
  BY JobMoves DEF PlanTyped
<1>5. \A o : Completed(j, o) => job'[j].at # "undone"
  BY JobMoves DEF PlanTyped
<1>6. damaged' = {} /\ job'[j].out = <<>>
  <2>1. CASE Compensate(j)
    <3>1. damaged' = {} /\ job[j].out = <<>>
      BY <1>2, <1>4, <2>1 DEF Compensate
    <3> QED
      BY <1>4, <2>1, <3>1 DEF Compensate
  <2>2. CASE Compensated(j) /\ job[j].at \in {"undo", "unnumber"} /\ damaged' = damaged
    <3>1. Len(job[j].out) = 1
      <4>1. DOMAIN job = Job /\ DOMAIN job[j] = {"at", "step", "doc", "out"}
        BY DEF PlanTyped, JobsShaped, Shaped
      <4>2. job'[j].at = IF Len(job[j].out) = 1 THEN "undone" ELSE "undo"
        BY <2>2, <4>1 DEF Compensated
      <4> QED
        BY <1>2, <4>2
    <3>2. Len(job'[j].out) = 0 /\ job'[j].out \in Seq(Noted)
      BY <1>2, <2>2, <3>1, StepUndone DEF PlanTyped, JobsShaped, Shaped
    <3> QED
      BY <2>2, <3>2
  <2>3. \/ Compensate(j)
        \/ Compensated(j) /\ job[j].at \in {"undo", "unnumber"} /\ damaged' = damaged
    <3>1. CASE \/ RestoreTrip(j) \/ RestoreSequence(j) \/ NumbersAreRestored(j) \/ RestoreStaff(j)
               \/ RestoreTodos(j) \/ RestoreTask(j) \/ UndoOther(j) \/ UndoThrows(j)
      <4>1. Compensated(j) \/ CompensationThrows(j)
        BY <3>1 DEF RestoreTrip, RestoreSequence, RestoreStaff, RestoreTodos, RestoreTask, UndoOther,
                    UndoThrows, NumbersAreRestored, CompensationAnswers
      <4>2. job[j].at \in {"undo", "unnumber"} /\ damaged' = damaged
        BY <3>1 DEF RestoreTrip, RestoreSequence, RestoreStaff, RestoreTodos, RestoreTask, UndoOther,
                    UndoThrows, NumbersAreRestored, Undoing, At
      <4> QED
        BY <1>2, <1>4, <4>1, <4>2 DEF CompensationThrows
    <3>2. CASE TasksAreNumbered(j) \/ OtherStep(j)
      BY <1>2, <1>5, <3>2 DEF TasksAreNumbered, OtherStep
    <3>3. CASE \/ RemoveTaskFromTrip(j) \/ ReorderTaskSequenceInTrip(j) \/ AssignStaffToTasks(j)
               \/ DeleteTodosByTask(j) \/ DeleteTaskById(j)
      <4>1. \E o : Completed(j, o) \/ GoesTo(j, "stepFailed")
        BY <3>3 DEF RemoveTaskFromTrip, ReorderTaskSequenceInTrip, AssignStaffToTasks, DeleteTodosByTask,
                    DeleteTaskById, Answers
      <4> QED
        BY <1>2, <1>4, <1>5, <4>1
    <3>4. CASE \/ SetTaskSequenceSystemByTrip(j) \/ ReadTodos(j) \/ StepThrows(j) \/ Again(j)
               \/ NothingToRestore(j) \/ RestoreNumbers(j)
      <4>1. \E place \in {"number", "stepFailed", "write", "call", "broken", "unnumber"} : GoesTo(j, place)
        BY <3>4 DEF SetTaskSequenceSystemByTrip, ReadTodos, StepThrows, Again, NothingToRestore, RestoreNumbers
      <4> QED
        BY <1>2, <1>4, <4>1
    <3>5. CASE ReadTrip(j)
      <4>1. job'[j].at # "undone"
        BY <3>5, ReadTripEnds
      <4> QED
        BY <1>2, <4>1
    <3> QED
      BY <1>1, <3>1, <3>2, <3>3, <3>4, <3>5 DEF SagaStep
  <2> QED
    BY <2>1, <2>2, <2>3
<1>7. Undoable(j)'
  BY <1>1, <1>2, <1>3, <1>6, SagaUndoable
<1>8. (tasks = before[j].tasks /\ trips = before[j].trips)'
  BY <1>2, <1>6, <1>7, NothingDoneNext DEF Traceless
<1> QED
  BY <1>2, <1>8

\* A workflow whose compensations were all called has left no trace, when it met nobody, every
\* write reported as failed had failed, and the task was there when it began, with its todos
\* (compensate of the workers of workers/melonade).
THEOREM UndoneLeavesNoTraceHolds == Spec => UndoneLeavesNoTrace
<1>1. Init => OrderInv /\ TraceInv
  BY OrderInit, TraceInit
<1>2. TypeInv /\ HolderInv /\ OrderInv /\ TraceInv /\ [Next]_vars => OrderInv' /\ TraceInv'
  BY OrderStep, TraceStep DEF TypeInv
<1> DEFINE A ==
    \A j \in Job :
        (Ending(j, "undone") /\ j \notin overlapped /\ damaged = {} /\ WasWhole(j)) =>
            tasks' = before[j].tasks /\ trips' = before[j].trips
<1>3. TypeInv /\ TypeInv' /\ HolderInv /\ OrderInv /\ TraceInv /\ [Next]_vars => [A]_planning
  <2> SUFFICES ASSUME TypeInv, TypeInv', HolderInv, OrderInv, TraceInv, [Next]_vars PROVE A
    OBVIOUS
  <2>1. [PlanningNext]_planning \/ job' = job
    BY NextIs
  <2>2. CASE job' = job
    BY <2>2 DEF Ending
  <2>3. CASE [PlanningNext]_planning
    <3>1. PlanTyped /\ PlanTyped'
      BY DEF TypeInv
    <3> QED
      BY <2>3, <3>1, EndsWithoutTrace
  <2> QED
    BY <2>1, <2>2, <2>3
<1>4. Spec => []TypeInv /\ []HolderInv
  BY TypeInvHolds, HolderInvHolds
<1> HIDE DEF A
<1>5. Spec => [][A]_planning
  BY <1>1, <1>2, <1>3, <1>4, PTL DEF Spec
<1> QED
  BY <1>5 DEF UndoneLeavesNoTrace, A
=============================================================================
