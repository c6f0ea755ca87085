---------------------------- MODULE SelectionProofs ----------------------------
(***************************************************************************)
(* What a selection has: a row for each wanted position, in their order.   *)
(* That there is a k-th position follows from a least member of a set of   *)
(* numbers, in place of an induction.                                      *)
(***************************************************************************)
EXTENDS Selection, FiniteSetTheorems, SequenceTheorems, WellFoundedInduction, TLAPS

\* The least member, which stands in for induction.
LEMMA LeastMember ==
  ASSUME NEW T, T \subseteq Nat, T # {}
  PROVE  \E x \in T : \A y \in T : x <= y
<1>1. PICK x \in T : \A y \in T : ~ (<<y, x>> \in OpToRel(<, Nat))
  BY NatLessThanWellFounded, WFMin
<1>2. \A y \in T : ~(y < x)
  BY <1>1 DEF OpToRel
<1> QED BY <1>2

LEMMA PlacesGrow ==
  ASSUME NEW P \in SUBSET Nat, IsFiniteSet(P), NEW i \in P, NEW j \in P
  PROVE  /\ PlaceOf(P, i) \in 1..Cardinality(P)
         /\ i <= j => PlaceOf(P, i) <= PlaceOf(P, j)
         /\ i < j => PlaceOf(P, i) < PlaceOf(P, j)
<1>1. \A k \in P : /\ IsFiniteSet({l \in P : l <= k})
                   /\ Cardinality({l \in P : l <= k}) \in Nat
                   /\ Cardinality({l \in P : l <= k}) <= Cardinality(P)
  <2> TAKE k \in P
  <2>1. {l \in P : l <= k} \subseteq P
    OBVIOUS
  <2> QED BY <2>1, FS_Subset, FS_CardinalityType
<1>2. Cardinality(P) \in Nat
  BY FS_CardinalityType
<1>3. PlaceOf(P, i) >= 1
  <2>1. {l \in P : l <= i} # {}
    OBVIOUS
  <2> QED BY <1>1, <2>1, FS_EmptySet DEF PlaceOf
<1>4. ASSUME i <= j  PROVE PlaceOf(P, i) <= PlaceOf(P, j)
  <2>1. {l \in P : l <= i} \subseteq {l \in P : l <= j}
    <3> SUFFICES ASSUME NEW l \in P, l <= i  PROVE l <= j
      OBVIOUS
    <3>1. l \in Nat /\ i \in Nat /\ j \in Nat
      OBVIOUS
    <3> QED BY <1>4, <3>1
  <2> QED BY <1>1, <2>1, FS_Subset DEF PlaceOf
<1>5. ASSUME i < j  PROVE PlaceOf(P, i) < PlaceOf(P, j)
  <2>1. {l \in P : l <= i} \subseteq {l \in P : l <= j}
    <3> SUFFICES ASSUME NEW l \in P, l <= i  PROVE l <= j
      OBVIOUS
    <3>1. l \in Nat /\ i \in Nat /\ j \in Nat
      OBVIOUS
    <3> QED BY <1>5, <3>1
  <2>2. j \in {l \in P : l <= j} /\ j \notin {l \in P : l <= i}
    <3>1. i \in Nat /\ j \in Nat
      OBVIOUS
    <3> QED BY <1>5, <3>1
  <2>3. {l \in P : l <= i} # {l \in P : l <= j}
    BY <2>2
  <2> QED BY <1>1, <2>1, <2>3, FS_Subset DEF PlaceOf
<1> QED BY <1>1, <1>2, <1>3, <1>4, <1>5 DEF PlaceOf

LEMMA PlacesReached ==
  ASSUME NEW P \in SUBSET Nat, IsFiniteSet(P), NEW k \in 1..Cardinality(P)
  PROVE  \E i \in P : PlaceOf(P, i) = k
<1> DEFINE T == {n \in 1..Cardinality(P) : \A i \in P : PlaceOf(P, i) # n}
<1>c. Cardinality(P) \in Nat
  BY FS_CardinalityType
<1>1. SUFFICES ASSUME T # {}  PROVE FALSE
  OBVIOUS
<1>2. PICK n \in T : \A m \in T : n <= m
  <2>1. T \subseteq Nat
    BY <1>c
  <2> HIDE DEF T
  <2> QED BY <1>1, <2>1, LeastMember
<1>3. n \in 1..Cardinality(P) /\ \A i \in P : PlaceOf(P, i) # n
  OBVIOUS
\* The positions up to the one before, none if n is the first rank.
<1>4. \E Q \in SUBSET P : /\ Cardinality(Q) = n - 1 /\ IsFiniteSet(Q)
                          /\ \A x \in P \ Q, y \in Q : y < x
  <2>1. CASE n = 1
    <3>1. Cardinality({}) = 0 /\ IsFiniteSet({})
      BY FS_EmptySet
    <3>2. {} \in SUBSET P /\ Cardinality({}) = n - 1
      BY <2>1, <3>1
    <3> QED BY <3>1, <3>2
  <2>2. CASE n # 1
    <3>1. n - 1 \in 1..Cardinality(P) /\ ~(n <= n - 1)
      BY <1>c, <1>3, <2>2
    <3>2. n - 1 \notin T
      BY <1>2, <3>1
    <3>3. PICK i \in P : PlaceOf(P, i) = n - 1
      BY <3>1, <3>2
    <3>4. {l \in P : l <= i} \in SUBSET P /\ IsFiniteSet({l \in P : l <= i})
      <4>1. {l \in P : l <= i} \subseteq P
        OBVIOUS
      <4> QED BY <4>1, FS_Subset
    <3>5. \A x \in P \ {l \in P : l <= i}, y \in {l \in P : l <= i} : y < x
      OBVIOUS
    <3> QED BY <3>3, <3>4, <3>5 DEF PlaceOf
  <2> QED BY <2>1, <2>2
<1>5. PICK Q \in SUBSET P : /\ Cardinality(Q) = n - 1 /\ IsFiniteSet(Q)
                            /\ \A x \in P \ Q, y \in Q : y < x
  BY <1>4
<1>6. P \ Q # {}
  <2>1. Q # P
    BY <1>c, <1>3, <1>5
  <2> QED BY <2>1
<1>7. PICK i \in P \ Q : \A x \in P \ Q : i <= x
  BY <1>6, LeastMember
<1>8. {l \in P : l <= i} = Q \cup {i}
  <2>1. ASSUME NEW l \in P, l <= i  PROVE l \in Q \cup {i}
    <3>1. l \in Nat /\ i \in Nat
      OBVIOUS
    <3>2. l \notin Q => i <= l
      BY <1>7
    <3> QED BY <2>1, <3>1, <3>2
  <2>2. ASSUME NEW l \in Q \cup {i}  PROVE l \in P /\ l <= i
    <3>1. l \in P /\ l \in Nat /\ i \in Nat
      BY <1>7
    <3>2. l \in Q => l < i
      BY <1>5, <1>7
    <3> QED BY <3>1, <3>2
  <2> QED BY <2>1, <2>2
<1>9. PlaceOf(P, i) = n
  <2>1. i \notin Q
    BY <1>7
  <2>2. Cardinality(Q \cup {i}) = Cardinality(Q) + 1
    BY <1>5, <2>1, FS_AddElement
  <2>3. n \in Nat
    BY <1>c, <1>3
  <2> QED BY <1>5, <1>8, <2>2, <2>3 DEF PlaceOf
<1> QED BY <1>3, <1>7, <1>9

LEMMA NthIsThere ==
  ASSUME NEW P \in SUBSET Nat, IsFiniteSet(P)
  PROVE  /\ \A k \in 1..Cardinality(P) : NthOf(P, k) \in P /\ PlaceOf(P, NthOf(P, k)) = k
         /\ \A i \in P : PlaceOf(P, i) \in 1..Cardinality(P) /\ NthOf(P, PlaceOf(P, i)) = i
         /\ \A k, l \in 1..Cardinality(P) : k < l => NthOf(P, k) < NthOf(P, l)
<1>1. ASSUME NEW k \in 1..Cardinality(P)  PROVE NthOf(P, k) \in P /\ PlaceOf(P, NthOf(P, k)) = k
  BY PlacesReached DEF NthOf
<1>2. ASSUME NEW i \in P  PROVE PlaceOf(P, i) \in 1..Cardinality(P) /\ NthOf(P, PlaceOf(P, i)) = i
  <2>1. PlaceOf(P, i) \in 1..Cardinality(P)
    BY PlacesGrow
  <2>2. NthOf(P, PlaceOf(P, i)) \in P /\ PlaceOf(P, NthOf(P, PlaceOf(P, i))) = PlaceOf(P, i)
    BY <1>1, <2>1
  <2>3. \A j \in P : j # i => PlaceOf(P, j) # PlaceOf(P, i)
    <3> TAKE j \in P
    <3>1. CASE j < i
      <4>1. PlaceOf(P, j) < PlaceOf(P, i) /\ PlaceOf(P, j) \in Nat /\ PlaceOf(P, i) \in Nat
        BY <3>1, PlacesGrow
      <4> QED BY <4>1
    <3>2. CASE i < j
      <4>1. PlaceOf(P, i) < PlaceOf(P, j) /\ PlaceOf(P, j) \in Nat /\ PlaceOf(P, i) \in Nat
        BY <3>2, PlacesGrow
      <4> QED BY <4>1
    <3>3. i \in Nat /\ j \in Nat
      OBVIOUS
    <3> QED BY <3>1, <3>2, <3>3
  <2> QED BY <2>1, <2>2, <2>3
<1>3. ASSUME NEW k \in 1..Cardinality(P), NEW l \in 1..Cardinality(P), k < l
      PROVE  NthOf(P, k) < NthOf(P, l)
  <2>0. Cardinality(P) \in Nat
    BY FS_CardinalityType
  <2>1. NthOf(P, k) \in P /\ NthOf(P, l) \in P /\ PlaceOf(P, NthOf(P, k)) = k /\ PlaceOf(P, NthOf(P, l)) = l
    BY <1>1
  <2>2. NthOf(P, l) <= NthOf(P, k) => l <= k
    BY <2>1, PlacesGrow
  <2>3. k \in Nat /\ l \in Nat
    BY <2>0
  <2>4. NthOf(P, k) \in Nat /\ NthOf(P, l) \in Nat
    BY <2>1
  <2> QED BY <1>3, <2>2, <2>3, <2>4
<1> QED BY <1>1, <1>2, <1>3

LEMMA PartRows ==
  ASSUME NEW T, NEW s \in Seq(T), NEW m \in 0..Len(s)
  PROVE  LET q == SubSeq(s, m + 1, Len(s))
         IN  /\ q \in Seq(T) /\ Len(q) = Len(s) - m /\ DOMAIN q = 1..(Len(s) - m)
             /\ \A i \in 1..(Len(s) - m) : q[i] = s[i + m]
<1>1. Len(s) \in Nat /\ m \in Nat /\ m <= Len(s)
  OBVIOUS
<1> DEFINE n == Len(s) - m
<1>2. n \in Nat /\ \A k \in 1..n : k + m \in 1..Len(s)
  BY <1>1
<1>3. SubSeq(s, m + 1, Len(s)) = [k \in 1..n |-> s[k + m]]
  BY <1>1
<1>4. \A k \in 1..n : s[k + m] \in T
  BY <1>2
<1> HIDE DEF n
<1>5. [k \in 1..n |-> s[k + m]] \in Seq(T)
  BY <1>2, <1>4
<1> QED BY <1>2, <1>3, <1>5 DEF n

LEMMA OneRowOut ==
  ASSUME NEW T, NEW s \in Seq(T), NEW i \in 1..(Len(s) - 1)
  PROVE  LET q == SubSeq(s, 1, i - 1) \o SubSeq(s, i + 1, Len(s))
             f == [j \in 1..(Len(s) - 1) |-> IF j < i THEN j ELSE j + 1]
         IN  /\ q \in Seq(T) /\ Len(q) = Len(s) - 1 /\ DOMAIN q = 1..(Len(s) - 1)
             /\ \A j \in 1..(Len(s) - 1) : f[j] \in 1..Len(s) /\ q[j] = s[f[j]]
<1> DEFINE a == SubSeq(s, 1, i - 1)
           b == SubSeq(s, i + 1, Len(s))
           n == Len(s)
<1>1. n \in Nat /\ i \in Nat /\ 1 <= i /\ i < n
  OBVIOUS
<1>2. a \in Seq(T) /\ Len(a) = i - 1 /\ \A j \in 1..(i - 1) : a[j] = s[j]
  BY <1>1
<1>3. b \in Seq(T) /\ Len(b) = n - i /\ \A j \in 1..(n - i) : b[j] = s[j + i]
  BY <1>1, PartRows
<1> HIDE DEF a, b
<1>4. a \o b \in Seq(T) /\ Len(a \o b) = n - 1 /\ DOMAIN (a \o b) = 1..(n - 1)
  <2>1. a \o b \in Seq(T)
    BY <1>2, <1>3
  <2>5. a \in Seq(T) /\ b \in Seq(T)
    BY <1>2, <1>3
  <2>2. Len(a \o b) = Len(a) + Len(b) /\ DOMAIN (a \o b) = 1..Len(a \o b)
    BY <2>5
  <2>3. (i - 1) + (n - i) = n - 1
    BY <1>1
  <2>4. Len(a) + Len(b) = n - 1
    BY <1>2, <1>3, <2>3
  <2> QED BY <2>1, <2>2, <2>4
<1>5. ASSUME NEW j \in 1..(n - 1)  PROVE (a \o b)[j] = IF j < i THEN s[j] ELSE s[j + 1]
  <2>1. CASE j < i
    BY <1>1, <1>2, <1>3, <2>1
  <2>2. CASE ~(j < i)
    <3>1. j - (i - 1) \in 1..(n - i) /\ (j - (i - 1)) + i = j + 1
      BY <1>1, <2>2
    <3>2. (a \o b)[j] = b[j - (i - 1)]
      BY <1>1, <1>2, <1>3, <2>2
    <3> QED BY <1>3, <2>2, <3>1, <3>2
  <2> QED BY <2>1, <2>2
<1>6. \A j \in 1..(n - 1) : (IF j < i THEN j ELSE j + 1) \in 1..n
  BY <1>1
<1> QED BY <1>4, <1>5, <1>6 DEF a, b

\* A selection has a row for each wanted position, and keeps their order.
LEMMA Selected ==
  ASSUME NEW T, NEW s \in Seq(T), NEW P \in SUBSET (1..Len(s))
  PROVE  /\ SelectAt(s, P) \in Seq(T) /\ Len(SelectAt(s, P)) = Cardinality(P)
         /\ \A k \in 1..Len(SelectAt(s, P)) : NthOf(P, k) \in P /\ SelectAt(s, P)[k] = s[NthOf(P, k)]
         /\ \A i \in P : /\ PlaceOf(P, i) \in 1..Len(SelectAt(s, P))
                         /\ SelectAt(s, P)[PlaceOf(P, i)] = s[i]
         /\ \A k, l \in 1..Len(SelectAt(s, P)) : k < l => NthOf(P, k) < NthOf(P, l)
<1>1. P \in SUBSET Nat /\ IsFiniteSet(P)
  <2>1. Len(s) \in Nat
    OBVIOUS
  <2>2. IsFiniteSet(1..Len(s)) /\ P \subseteq 1..Len(s)
    BY <2>1, FS_Interval
  <2>3. IsFiniteSet(P)
    BY <2>2, FS_Subset
  <2> QED BY <2>1, <2>3
<1>2. Cardinality(P) \in Nat
  BY <1>1, FS_CardinalityType
<1>3. /\ \A k \in 1..Cardinality(P) : NthOf(P, k) \in P
      /\ \A i \in P : PlaceOf(P, i) \in 1..Cardinality(P) /\ NthOf(P, PlaceOf(P, i)) = i
      /\ \A k, l \in 1..Cardinality(P) : k < l => NthOf(P, k) < NthOf(P, l)
  BY <1>1, NthIsThere
<1>4. \A k \in 1..Cardinality(P) : s[NthOf(P, k)] \in T
  <2>1. \A i \in 1..Len(s) : s[i] \in T
    OBVIOUS
  <2> QED BY <1>3, <2>1
<1>5. SelectAt(s, P) \in Seq(T) /\ Len(SelectAt(s, P)) = Cardinality(P)
  BY <1>2, <1>4 DEF SelectAt
<1>6. \A k \in 1..Cardinality(P) : SelectAt(s, P)[k] = s[NthOf(P, k)]
  BY DEF SelectAt
<1>7. \A i \in P : SelectAt(s, P)[PlaceOf(P, i)] = s[i]
  BY <1>3, <1>6
<1> QED BY <1>3, <1>5, <1>6, <1>7

\* The selection of neighbouring rows is a part of the table.
LEMMA SelectedPart ==
  ASSUME NEW T, NEW s \in Seq(T), NEW m \in 0..Len(s), NEW n \in m..Len(s)
  PROVE  SelectAt(s, (m + 1)..n) = SubSeq(s, m + 1, n)
<1> DEFINE P == (m + 1)..n
<1>1. m \in Nat /\ n \in Nat /\ m <= n /\ Len(s) \in Nat /\ n <= Len(s)
  OBVIOUS
<1>2. \A i \in P : PlaceOf(P, i) = i - m
  <2> TAKE i \in P
  <2>1. {j \in P : j <= i} = (m + 1)..i
    BY <1>1
  <2>2. Cardinality((m + 1)..i) = i - m
    BY <1>1, FS_Interval
  <2> QED BY <2>1, <2>2 DEF PlaceOf
<1>3. Cardinality(P) = n - m /\ P \in SUBSET Nat /\ IsFiniteSet(P)
  <2>1. m + 1 \in Int /\ n \in Int
    BY <1>1
  <2>2. IsFiniteSet(P) /\ Cardinality(P) = IF m + 1 > n THEN 0 ELSE n - (m + 1) + 1
    BY <2>1, FS_Interval
  <2>3. P \subseteq Nat
    BY <1>1
  <2> QED BY <1>1, <2>2, <2>3
<1>4. \A k \in 1..(n - m) : NthOf(P, k) = k + m
  <2> TAKE k \in 1..(n - m)
  <2> HIDE DEF P
  <2>1. NthOf(P, k) \in P /\ PlaceOf(P, NthOf(P, k)) = k
    BY <1>3, NthIsThere
  <2>2. NthOf(P, k) - m = k /\ NthOf(P, k) \in Nat
    BY <1>2, <1>3, <2>1
  <2> QED BY <1>1, <2>2
<1>5. SelectAt(s, P) = [k \in 1..(n - m) |-> s[k + m]]
  BY <1>3, <1>4 DEF SelectAt
<1>6. SubSeq(s, m + 1, n) = [k \in 1..(n - m) |-> s[k + m]]
  BY <1>1
<1> QED BY <1>5, <1>6

LEMMA AppendIsFunction ==
  ASSUME NEW T, NEW q \in Seq(T), NEW x \in T
  PROVE  Append(q, x) = [k \in 1..(Len(q) + 1) |-> IF k = Len(q) + 1 THEN x ELSE q[k]]
<1> DEFINE f == [k \in 1..(Len(q) + 1) |-> IF k = Len(q) + 1 THEN x ELSE q[k]]
<1>1. f \in Seq(T) /\ Len(f) = Len(q) + 1 /\ \A k \in 1..(Len(q) + 1) : f[k] = IF k = Len(q) + 1 THEN x ELSE q[k]
  OBVIOUS
<1>2. Append(q, x) \in Seq(T) /\ Len(Append(q, x)) = Len(q) + 1
  OBVIOUS
<1>3. \A k \in 1..(Len(q) + 1) : Append(q, x)[k] = IF k = Len(q) + 1 THEN x ELSE q[k]
  OBVIOUS
<1> HIDE DEF f
<1>4. \A k \in 1..Len(f) : Append(q, x)[k] = f[k]
  BY <1>1, <1>3
<1> QED BY <1>1, <1>2, <1>4, SeqEqual DEF f

\* A row that is added at the end is selected last.
LEMMA SelectionGrows ==
  ASSUME NEW T, NEW s \in Seq(T), NEW x \in T, NEW P \in SUBSET (1..Len(s))
  PROVE  /\ SelectAt(Append(s, x), P) = SelectAt(s, P)
         /\ SelectAt(Append(s, x), P \cup {Len(s) + 1}) = Append(SelectAt(s, P), x)
<1> DEFINE n == Len(s)
           Q == P \cup {n + 1}
<1>1. n \in Nat /\ P \in SUBSET Nat /\ IsFiniteSet(P) /\ Q \in SUBSET Nat /\ IsFiniteSet(Q)
  <2>1. n \in Nat /\ IsFiniteSet(1..n)
    BY FS_Interval
  <2>2. IsFiniteSet(P)
    BY <2>1, FS_Subset
  <2>3. IsFiniteSet(Q)
    BY <2>2, FS_AddElement
  <2>4. P \in SUBSET Nat /\ Q \in SUBSET Nat
    <3>1. (1..n) \subseteq Nat /\ n + 1 \in Nat
      BY <2>1
    <3>2. P \subseteq 1..n
      OBVIOUS
    <3> HIDE DEF n
    <3> QED BY <3>1, <3>2
  <2> HIDE DEF Q
  <2> QED BY <2>1, <2>2, <2>3, <2>4
<1>2. \A i \in 1..n : Append(s, x)[i] = s[i]
  OBVIOUS
<1>3. Append(s, x)[n + 1] = x
  OBVIOUS
<1>4. \A k \in 1..Cardinality(P) : NthOf(P, k) \in 1..n
  BY <1>1, NthIsThere
<1>5. SelectAt(Append(s, x), P) = SelectAt(s, P)
  BY <1>2, <1>4 DEF SelectAt
<1>6. Cardinality(Q) = Cardinality(P) + 1 /\ Cardinality(P) \in Nat
  <2>1. n + 1 \notin P
    BY <1>1
  <2> QED BY <1>1, <2>1, FS_AddElement, FS_CardinalityType
<1>7. \A i \in P : PlaceOf(Q, i) = PlaceOf(P, i)
  <2> TAKE i \in P
  <2>1. {j \in Q : j <= i} = {j \in P : j <= i}
    BY <1>1
  <2> QED BY <2>1 DEF PlaceOf
<1>8. PlaceOf(Q, n + 1) = Cardinality(Q)
  <2>1. {j \in Q : j <= n + 1} = Q
    BY <1>1
  <2> QED BY <2>1 DEF PlaceOf
<1> HIDE DEF Q
<1>9. NthOf(Q, Cardinality(Q)) = n + 1
  BY <1>1, <1>8, NthIsThere DEF Q
<1>10. \A k \in 1..Cardinality(P) : NthOf(Q, k) = NthOf(P, k)
  <2> TAKE k \in 1..Cardinality(P)
  <2>1. NthOf(P, k) \in P /\ PlaceOf(P, NthOf(P, k)) = k
    BY <1>1, NthIsThere
  <2>2. NthOf(P, k) \in Q /\ PlaceOf(Q, NthOf(P, k)) = k
    BY <1>7, <2>1 DEF Q
  <2>3. NthOf(Q, PlaceOf(Q, NthOf(P, k))) = NthOf(P, k)
    BY <1>1, <2>2, NthIsThere
  <2> QED BY <2>2, <2>3
<1>11. SelectAt(s, P) \in Seq(T) /\ Len(SelectAt(s, P)) = Cardinality(P)
  BY Selected
<1>12. SelectAt(Append(s, x), Q) = Append(SelectAt(s, P), x)
  <2>1. SelectAt(Append(s, x), Q) = [k \in 1..(Cardinality(P) + 1) |-> Append(s, x)[NthOf(Q, k)]]
    BY <1>6 DEF SelectAt
  <2>2. Append(SelectAt(s, P), x)
          = [k \in 1..(Cardinality(P) + 1) |-> IF k = Cardinality(P) + 1 THEN x ELSE SelectAt(s, P)[k]]
    BY <1>11, AppendIsFunction
  <2>3. \A k \in 1..(Cardinality(P) + 1) :
          Append(s, x)[NthOf(Q, k)] = IF k = Cardinality(P) + 1 THEN x ELSE SelectAt(s, P)[k]
    <3> TAKE k \in 1..(Cardinality(P) + 1)
    <3>1. CASE k = Cardinality(P) + 1
      BY <1>3, <1>6, <1>9, <3>1
    <3>2. CASE k # Cardinality(P) + 1
      <4>1. k \in 1..Cardinality(P)
        BY <1>6, <3>2
      <4>2. SelectAt(s, P)[k] = s[NthOf(P, k)]
        BY <4>1 DEF SelectAt
      <4> QED BY <1>2, <1>4, <1>10, <3>2, <4>1, <4>2
    <3> QED BY <3>1, <3>2
  <2> QED BY <2>1, <2>2, <2>3
<1> QED BY <1>5, <1>12 DEF Q
=============================================================================
