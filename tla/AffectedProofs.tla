--------------------------- MODULE AffectedProofs ---------------------------
(* Proofs about AppDirs and Affected: what the watchers keep true of the   *)
(* directories, and that a check finds what is affected, whatever the      *)
(* applications, ApplicationSets and pull requests are.                    *)
EXTENDS Affected, FiniteSetTheorems, SequenceTheorems, TLAPS

-----------------------------------------------------------------------------
(***************************************************************************)
(* Counting.                                                               *)
(***************************************************************************)

(* A subset of a finite set has a count, positive unless it is empty. *)
LEMMA CountOfSubset ==
  ASSUME NEW S, IsFiniteSet(S), NEW T \in SUBSET S
  PROVE  /\ Cardinality(T) \in Nat
         /\ Cardinality(T) > 0 <=> T # {}
<1>1. IsFiniteSet(T) BY FS_Subset
<1>2. Cardinality(T) \in Nat BY <1>1, FS_CardinalityType
<1>3. Cardinality(T) = 0 <=> T = {} BY <1>1, FS_EmptySet
<1> QED BY <1>2, <1>3


-----------------------------------------------------------------------------
(***************************************************************************)
(* Lists of names.                                                         *)
(***************************************************************************)

(* A list has no more names than its array has room for. *)
ListType(S) == {l \in [names : Seq(S), cap : Nat] : Len(l.names) =< l.cap}
Count(s, n) == Cardinality({i \in DOMAIN s : s[i] = n})

(* A sequence, its positions and what is at them. *)
LEMMA SeqFacts ==
  ASSUME NEW S, NEW s \in Seq(S)
  PROVE  /\ Len(s) \in Nat /\ DOMAIN s = 1..Len(s) /\ IsFiniteSet(DOMAIN s) /\ Cardinality(DOMAIN s) = Len(s)
         /\ \A i \in DOMAIN s : s[i] \in S
<1>1. Len(s) \in Nat /\ DOMAIN s = 1..Len(s) /\ \A i \in DOMAIN s : s[i] \in S OBVIOUS
<1>2. IsFiniteSet(1..Len(s)) /\ Cardinality(1..Len(s)) = IF 1 > Len(s) THEN 0 ELSE Len(s) - 1 + 1
  BY <1>1, FS_Interval
<1>3. Cardinality(1..Len(s)) = Len(s) BY <1>1, <1>2
<1> QED BY <1>1, <1>2, <1>3

LEMMA CountIs ==
  ASSUME NEW S, NEW s \in Seq(S), NEW n
  PROVE  Count(s, n) \in Nat /\ (Count(s, n) > 0 <=> n \in Range(s))
<1> DEFINE at == {i \in DOMAIN s : s[i] = n}
<1>1. Cardinality(at) \in Nat /\ (Cardinality(at) > 0 <=> at # {}) BY SeqFacts, CountOfSubset
<1>2. at # {} <=> n \in Range(s) BY DEF Range
<1> QED BY <1>1, <1>2 DEF Count

(* Names that stand at the same positions, and maybe at others, are not    *)
(* fewer.                                                                  *)
LEMMA CountBound ==
  ASSUME NEW S, NEW s \in Seq(S), NEW t \in Seq(S), NEW n, NEW f,
         \A i \in DOMAIN s : f[i] \in DOMAIN t /\ s[i] = t[f[i]],
         \A i, j \in DOMAIN s : f[i] = f[j] => i = j
  PROVE  Count(s, n) =< Count(t, n)
<1> DEFINE A == {i \in DOMAIN s : s[i] = n}
           B == {i \in DOMAIN t : t[i] = n}
           g == [i \in A |-> f[i]]
<1>1. \A i \in A : g[i] \in B OBVIOUS
<1>2. g \in [A -> B] BY <1>1
<1>3. IsInjective(g) BY DEF IsInjective
<1>4. IsFiniteSet(B) BY SeqFacts, FS_Subset
<1> HIDE DEF A, B, g
<1>5. g \in Injection(A, B) BY <1>2, <1>3 DEF Injection
<1>6. Cardinality(A) =< Cardinality(B) BY <1>4, <1>5, FS_Injection
<1> QED BY <1>6 DEF Count, A, B

(* Picked takes every position in K once, none before its place. *)
LEMMA PickedIs ==
  ASSUME NEW S, NEW s \in Seq(S), NEW K \in SUBSET DOMAIN s
  PROVE  /\ Picked(s, K) \in Seq(S) /\ Len(Picked(s, K)) =< Len(s)
         /\ \E f : /\ \A j \in DOMAIN Picked(s, K) : f[j] \in K /\ j =< f[j] /\ Picked(s, K)[j] = s[f[j]]
                   /\ \A i \in K : \E j \in DOMAIN Picked(s, K) : f[j] = i
                   /\ \A i, j \in DOMAIN Picked(s, K) : f[i] = f[j] => i = j
<1> DEFINE upTo(j) == {x \in K : x =< j}
           rank == [j \in K |-> Cardinality(upTo(j))]
           size == Cardinality(K)
           nth(i) == CHOOSE j \in K : Cardinality({x \in K : x =< j}) = i
<1>1. /\ Len(s) \in Nat /\ DOMAIN s = 1..Len(s) /\ IsFiniteSet(DOMAIN s) /\ Cardinality(DOMAIN s) = Len(s)
      /\ \A i \in DOMAIN s : s[i] \in S
  BY SeqFacts
<1>2. IsFiniteSet(K) /\ size \in Nat /\ size =< Len(s) BY <1>1, FS_Subset, FS_CardinalityType
<1>3. \A j : IsFiniteSet(upTo(j)) /\ Cardinality(upTo(j)) \in Nat /\ Cardinality(upTo(j)) =< size
  BY <1>2, FS_Subset, FS_CardinalityType
<1>4. ASSUME NEW j \in K PROVE rank[j] \in 1..size /\ rank[j] =< j
  <2>1. j \in upTo(j) BY <1>1
  <2>2. Cardinality(upTo(j)) # 0 BY <1>3, <2>1, FS_EmptySet
  <2>3. upTo(j) \in SUBSET (1..j) BY <1>1
  <2>4. IsFiniteSet(1..j) /\ Cardinality(1..j) = j
    <3>1. j \in Int /\ j >= 1 BY <1>1
    <3> QED BY <3>1, FS_Interval
  <2>5. Cardinality(upTo(j)) =< j BY <2>3, <2>4, FS_Subset
  <2>6. rank[j] = Cardinality(upTo(j)) OBVIOUS
  <2> HIDE DEF rank, upTo, size
  <2> QED BY <1>2, <1>3, <2>2, <2>5, <2>6
<1>5. ASSUME NEW i \in K, NEW j \in K, i < j PROVE rank[i] # rank[j]
  <2>1. upTo(i) \in SUBSET upTo(j) BY <1>1, <1>5
  <2>2. j \in upTo(j) /\ j \notin upTo(i) BY <1>1, <1>5
  <2>3. upTo(i) # upTo(j) BY <2>2
  <2> QED BY <1>3, <2>1, <2>3, FS_Subset
<1>6. rank \in Injection(K, 1..size)
  <2>1. rank \in [K -> 1..size] BY <1>4
  <2>2. \A i, j \in K : rank[i] = rank[j] => i = j
    <3>1. \A i, j \in K : i = j \/ i < j \/ j < i BY <1>1
    <3> QED BY <1>5, <3>1
  <2>3. IsInjective(rank) BY <2>1, <2>2 DEF IsInjective
  <2> QED BY <2>1, <2>3 DEF Injection
<1>7. rank \in Surjection(K, 1..size)
  <2>1. IsFiniteSet(1..size) /\ Cardinality(1..size) = size BY <1>2, FS_Interval
  <2> HIDE DEF rank, size
  <2> QED BY <1>6, <2>1, FS_Injection DEF size
<1>8. \A i \in 1..size : nth(i) \in K /\ rank[nth(i)] = i
  <2>1. ASSUME NEW i \in 1..size PROVE \E j \in K : Cardinality({x \in K : x =< j}) = i
    BY <1>7 DEF Surjection
  <2> QED BY <2>1
<1>9. \A j \in K : nth(rank[j]) = j
  <2>1. \A j \in K : rank[nth(rank[j])] = rank[j] /\ nth(rank[j]) \in K BY <1>4, <1>8
  <2>2. \A i, j \in K : rank[i] = rank[j] => i = j BY <1>6 DEF Injection, IsInjective
  <2> HIDE DEF rank, nth
  <2> QED BY <2>1, <2>2
<1> DEFINE f == [i \in 1..size |-> nth(i)]
<1>10. Picked(s, K) = [i \in 1..size |-> s[nth(i)]] BY DEF Picked
<1> HIDE DEF rank, nth, upTo
<1>11. \A i \in 1..size : f[i] \in K /\ i =< f[i]
  <2>1. \A i \in 1..size : f[i] = nth(i) OBVIOUS
  <2> QED BY <1>4, <1>8, <2>1
<1>12. \A i \in K : rank[i] \in 1..size /\ f[rank[i]] = i BY <1>4, <1>9
<1>13. \A i, j \in 1..size : f[i] = f[j] => i = j BY <1>8
<1>14. Picked(s, K) \in Seq(S) /\ DOMAIN Picked(s, K) = 1..size /\ Len(Picked(s, K)) = size
  <2>1. \A i \in 1..size : s[nth(i)] \in S BY <1>1, <1>8
  <2> HIDE DEF size
  <2> QED BY <1>2, <1>10, <2>1
<1>15. \A i \in 1..size : Picked(s, K)[i] = s[f[i]] BY <1>10
<1> HIDE DEF f, size
<1> QED BY <1>2, <1>11, <1>12, <1>13, <1>14, <1>15

(* What append does to a list: names n come after those that are there,    *)
(* in another array if there is no room.                                   *)
Grown(old, new, n) ==
  /\ Len(old.names) =< Len(new.names)
  /\ \A i \in DOMAIN old.names : new.names[i] = old.names[i]
  /\ \A i \in DOMAIN new.names : i > Len(old.names) => new.names[i] = n
  /\ new.cap = old.cap <=> Len(new.names) =< old.cap

(* What removeFromSlice does: names n go, and the others move forward.     *)
Shrunk(old, new, n) ==
  /\ new.cap = old.cap /\ Len(new.names) =< Len(old.names)
  /\ \E f : /\ \A j \in DOMAIN new.names : f[j] \in DOMAIN old.names /\ new.names[j] = old.names[f[j]]
            /\ \A i, j \in DOMAIN new.names : f[i] = f[j] => i = j
  /\ \A i \in DOMAIN old.names : old.names[i] # n => \E j \in DOMAIN new.names : j =< i /\ new.names[j] = old.names[i]

LEMMA CapacityIs ==
  ASSUME NEW m \in Nat
  PROVE  Capacity(m) \in Nat /\ m =< Capacity(m)
<1> DEFINE doubled == {1, 2, 4, 8, 16, 32, 64, 128, 256}
           Enough(c) == m =< c /\ c < 2 * m
<1>1. Capacity(m) = IF \E c \in doubled : Enough(c) THEN CHOOSE c \in doubled : Enough(c) ELSE 2 * m
  BY DEF Capacity
<1>2. doubled \subseteq Nat OBVIOUS
<1> HIDE DEF doubled
<1>3. CASE \E c \in doubled : Enough(c)
  <2> DEFINE c == CHOOSE c \in doubled : Enough(c)
  <2>1. c \in doubled /\ Enough(c) BY <1>3
  <2>2. Capacity(m) = c BY <1>1, <1>3
  <2> HIDE DEF c
  <2> QED BY <1>2, <2>1, <2>2
<1>4. CASE ~\E c \in doubled : Enough(c) BY <1>1, <1>4
<1> QED BY <1>3, <1>4

LEMMA CopiesIs ==
  ASSUME NEW S, NEW n, NEW k \in Int, k > 0 => n \in S
  PROVE  /\ Copies(n, k) \in Seq(S) /\ Len(Copies(n, k)) = IF k > 0 THEN k ELSE 0
         /\ \A i \in DOMAIN Copies(n, k) : Copies(n, k)[i] = n
<1>1. CASE k > 0 BY <1>1 DEF Copies
<1>2. CASE ~(k > 0)
  <2>1. 1..k = 1..0 BY <1>2
  <2>2. Copies(n, k) = [i \in 1..0 |-> n] BY <2>1 DEF Copies
  <2> QED BY <1>2, <2>2
<1> QED BY <1>1, <1>2

LEMMA ExtendedIs ==
  ASSUME NEW S, NEW old \in ListType(S), NEW n \in S, NEW k \in Nat, NEW new, new = Extended(old, n, k)
  PROVE  /\ new \in ListType(S) /\ Grown(old, new, n)
         /\ k = 0 => new = old
         /\ Len(new.names) = Len(old.names) + k
<1> DEFINE names == old.names \o Copies(n, k)
<1>1. old.names \in Seq(S) /\ old.cap \in Nat /\ Len(old.names) =< old.cap /\ Len(old.names) \in Nat
  BY DEF ListType
<1>2. Copies(n, k) \in Seq(S) /\ Len(Copies(n, k)) = k /\ \A i \in DOMAIN Copies(n, k) : Copies(n, k)[i] = n
  BY CopiesIs
<1>3. /\ names \in Seq(S) /\ Len(names) = Len(old.names) + k /\ DOMAIN names = 1..Len(old.names) + k
      /\ DOMAIN old.names = 1..Len(old.names)
      /\ \A i \in DOMAIN old.names : names[i] = old.names[i]
      /\ \A i \in DOMAIN names : i > Len(old.names) =>
           i - Len(old.names) \in DOMAIN Copies(n, k) /\ names[i] = Copies(n, k)[i - Len(old.names)]
  <2> DEFINE c == Copies(n, k)
  <2>1. c \in Seq(S) /\ Len(c) = k BY <1>2
  <2> HIDE DEF c
  <2>2. names = old.names \o c BY DEF c
  <2> QED BY <1>1, <2>1, <2>2 DEF c
<1>4. CASE k = 0
  <2>1. new = old BY <1>4 DEF Extended
  <2> QED BY <1>1, <1>4, <2>1 DEF Grown
<1>5. CASE k # 0
  <2> DEFINE cap == IF Len(names) > old.cap THEN Capacity(Len(names)) ELSE old.cap
  <2>1. new = [names |-> names, cap |-> cap] BY <1>5 DEF Extended
  <2> HIDE DEF names
  <2>2. Len(names) \in Nat BY <1>1, <1>3
  <2>3. Capacity(Len(names)) \in Nat /\ Len(names) =< Capacity(Len(names)) BY <2>2, CapacityIs
  <2>4. cap \in Nat /\ Len(names) =< cap /\ (cap = old.cap <=> Len(names) =< old.cap) BY <1>1, <2>2, <2>3
  <2> HIDE DEF cap
  <2>5. new.names = names /\ new.cap = cap BY <2>1
  <2>6. new \in ListType(S) BY <1>3, <2>1, <2>4 DEF ListType
  <2>7. Grown(old, new, n) BY <1>1, <1>2, <1>3, <2>4, <2>5 DEF Grown
  <2> QED BY <1>3, <1>5, <2>5, <2>6, <2>7
<1> QED BY <1>4, <1>5

LEMMA ReducedIs ==
  ASSUME NEW S, NEW old \in ListType(S), NEW n, NEW k \in Nat, NEW new, new = Reduced(old, n, k)
  PROVE  /\ new \in ListType(S) /\ Shrunk(old, new, n)
         /\ Count(old.names, n) =< k => n \notin Range(new.names)
<1> DEFINE names == old.names
           before(i) == Cardinality({j \in 1..i : names[j] = n})
           K == {i \in DOMAIN names : names[i] # n \/ before(i) > k}
<1>1. /\ names \in Seq(S) /\ old.cap \in Nat /\ Len(names) =< old.cap
      /\ old = [names |-> names, cap |-> old.cap]
  BY DEF ListType
<1>2. Len(names) \in Nat /\ DOMAIN names = 1..Len(names) /\ IsFiniteSet(DOMAIN names) BY <1>1, SeqFacts
<1>3. new = [names |-> Picked(names, K), cap |-> old.cap] BY <1>1 DEF Reduced
<1>4. K \in SUBSET DOMAIN names OBVIOUS
<1>5. \A i \in DOMAIN names : names[i] # n => i \in K OBVIOUS
<1>6. ASSUME Count(names, n) =< k, NEW i \in K PROVE names[i] # n
  <2>1. {j \in 1..i : names[j] = n} \in SUBSET {j \in DOMAIN names : names[j] = n} BY <1>2, <1>4
  <2>2. IsFiniteSet({j \in DOMAIN names : names[j] = n}) BY <1>2, FS_Subset
  <2>3. before(i) =< Count(names, n) /\ before(i) \in Nat BY <2>1, <2>2, FS_Subset, FS_CardinalityType DEF Count
  <2>4. Count(names, n) \in Nat BY <1>1, CountIs
  <2>5. ~(before(i) > k) BY <1>6, <2>3, <2>4
  <2> QED BY <1>6, <2>5
<1> HIDE DEF K, names
<1> DEFINE p == Picked(names, K)
<1>7. /\ p \in Seq(S) /\ Len(p) =< Len(names)
      /\ \E f : /\ \A j \in DOMAIN p : f[j] \in K /\ j =< f[j] /\ p[j] = names[f[j]]
                /\ \A i \in K : \E j \in DOMAIN p : f[j] = i
                /\ \A i, j \in DOMAIN p : f[i] = f[j] => i = j
  BY <1>1, <1>4, PickedIs
<1>8. PICK f : /\ \A j \in DOMAIN p : f[j] \in K /\ j =< f[j] /\ p[j] = names[f[j]]
               /\ \A i \in K : \E j \in DOMAIN p : f[j] = i
               /\ \A i, j \in DOMAIN p : f[i] = f[j] => i = j
  BY <1>7
<1>9. new.names = p /\ new.cap = old.cap BY <1>3
<1> HIDE DEF p
<1>10. new \in ListType(S)
  <2>1. Len(p) =< old.cap BY <1>1, <1>2, <1>7
  <2> QED BY <1>1, <1>3, <1>7, <2>1 DEF ListType, p
<1>11. Shrunk(old, new, n)
  <2>1. \A j \in DOMAIN p : f[j] \in DOMAIN names /\ p[j] = names[f[j]] BY <1>4, <1>8
  <2>2. ASSUME NEW i \in DOMAIN names, names[i] # n PROVE \E j \in DOMAIN p : j =< i /\ p[j] = names[i]
    BY <1>5, <1>8, <2>2
  <2>3. \A j \in DOMAIN new.names : f[j] \in DOMAIN old.names /\ new.names[j] = old.names[f[j]]
    BY <1>9, <2>1 DEF names
  <2>4. \A i, j \in DOMAIN new.names : f[i] = f[j] => i = j BY <1>8, <1>9
  <2>5. \A i \in DOMAIN old.names : old.names[i] # n => \E j \in DOMAIN new.names : j =< i /\ new.names[j] = old.names[i]
    BY <1>9, <2>2 DEF names
  <2>6. new.cap = old.cap /\ Len(new.names) =< Len(old.names) BY <1>7, <1>9 DEF names
  <2> QED BY <2>3, <2>4, <2>5, <2>6 DEF Shrunk
<1>12. ASSUME Count(names, n) =< k PROVE n \notin Range(p)
  BY <1>6, <1>8, <1>12 DEF Range
<1> QED BY <1>9, <1>10, <1>11, <1>12 DEF names

(* Of other names, both leave what there is. *)
LEMMA OthersStay ==
  ASSUME NEW S, NEW old \in ListType(S), NEW new \in ListType(S), NEW n, Grown(old, new, n) \/ Shrunk(old, new, n),
         NEW m, m # n
  PROVE  /\ m \in Range(new.names) <=> m \in Range(old.names)
         /\ Count(new.names, m) =< Count(old.names, m)
<1>1. /\ old.names \in Seq(S) /\ new.names \in Seq(S)
      /\ DOMAIN old.names = 1..Len(old.names) /\ DOMAIN new.names = 1..Len(new.names)
      /\ Len(old.names) \in Nat /\ Len(new.names) \in Nat
  BY DEF ListType
<1>2. CASE Grown(old, new, n)
  <2>1. \A i \in DOMAIN new.names : (i \in DOMAIN old.names /\ new.names[i] = old.names[i]) \/ new.names[i] = n
    BY <1>1, <1>2 DEF Grown
  <2>2. \A i \in DOMAIN old.names : i \in DOMAIN new.names /\ new.names[i] = old.names[i]
    BY <1>1, <1>2 DEF Grown
  <2>3. {i \in DOMAIN new.names : new.names[i] = m} = {i \in DOMAIN old.names : old.names[i] = m}
    BY <2>1, <2>2
  <2>4. Count(new.names, m) = Count(old.names, m) BY <2>3 DEF Count
  <2>5. Count(old.names, m) \in Nat BY <1>1, CountIs
  <2> QED BY <2>1, <2>2, <2>4, <2>5 DEF Range
<1>3. CASE Shrunk(old, new, n)
  <2>1. PICK f : /\ \A j \in DOMAIN new.names : f[j] \in DOMAIN old.names /\ new.names[j] = old.names[f[j]]
                 /\ \A i, j \in DOMAIN new.names : f[i] = f[j] => i = j
    BY <1>3 DEF Shrunk
  <2>2. Count(new.names, m) =< Count(old.names, m) BY <1>1, <2>1, CountBound
  <2>3. m \in Range(new.names) => m \in Range(old.names) BY <2>1 DEF Range
  <2>4. m \in Range(old.names) => m \in Range(new.names) BY <1>3 DEF Shrunk, Range
  <2> QED BY <2>2, <2>3, <2>4
<1> QED BY <1>2, <1>3

(* The name that is appended is there, and as often as it is appended. *)
LEMMA ExtendedCount ==
  ASSUME NEW S, NEW old \in ListType(S), NEW n \in S, NEW k \in Nat, NEW new, new = Extended(old, n, k)
  PROVE  /\ k > 0 \/ n \in Range(old.names) => n \in Range(new.names)
         /\ n \notin Range(old.names) => Count(new.names, n) =< k
<1>1. /\ new \in ListType(S) /\ Grown(old, new, n) /\ Len(new.names) = Len(old.names) + k
  BY ExtendedIs
<1>2. /\ DOMAIN old.names = 1..Len(old.names) /\ DOMAIN new.names = 1..Len(new.names)
      /\ Len(old.names) \in Nat /\ Len(new.names) \in Nat
  BY <1>1 DEF ListType
<1>3. ASSUME k > 0 PROVE n \in Range(new.names)
  <2>1. Len(new.names) \in DOMAIN new.names /\ Len(new.names) > Len(old.names) BY <1>1, <1>2, <1>3
  <2>2. new.names[Len(new.names)] = n BY <1>1, <2>1 DEF Grown
  <2> QED BY <2>1, <2>2 DEF Range
<1>4. n \in Range(old.names) => n \in Range(new.names)
  <2>1. \A i \in DOMAIN old.names : i \in DOMAIN new.names /\ new.names[i] = old.names[i]
    BY <1>1, <1>2 DEF Grown
  <2> QED BY <2>1 DEF Range
<1>5. ASSUME n \notin Range(old.names) PROVE Count(new.names, n) =< k
  <2>1. \A i \in DOMAIN old.names : new.names[i] # n BY <1>1, <1>5 DEF Grown, Range
  <2>2. {i \in DOMAIN new.names : new.names[i] = n} \in SUBSET (Len(old.names) + 1..Len(new.names))
    BY <1>2, <2>1
  <2>3. /\ IsFiniteSet(Len(old.names) + 1..Len(new.names))
        /\ Cardinality(Len(old.names) + 1..Len(new.names)) = k
    <3> DEFINE a == Len(old.names) + 1
               b == Len(new.names)
    <3>1. a \in Int /\ b \in Int /\ b - a + 1 = k /\ (a > b => k = 0) BY <1>1, <1>2
    <3> HIDE DEF a, b
    <3>2. IsFiniteSet(a..b) /\ Cardinality(a..b) = k BY <3>1, FS_Interval
    <3> QED BY <3>2 DEF a, b
  <2>4. Cardinality({i \in DOMAIN new.names : new.names[i] = n}) =< Cardinality(Len(old.names) + 1..Len(new.names))
    BY <2>2, <2>3, FS_Subset
  <2> QED BY <2>3, <2>4 DEF Count
<1> QED BY <1>3, <1>4, <1>5

-----------------------------------------------------------------------------
(***************************************************************************)
(* What a check holds of a list.                                           *)
(***************************************************************************)

SliceType(S) == [names : Seq(S), shared : BOOLEAN]

(* What the watchers may do to a list. *)
Moved(old, new, S) == new = old \/ \E n \in S : Grown(old, new, n) \/ Shrunk(old, new, n)

(* Two sequences, one after the other. *)
LEMMA JoinedIs ==
  ASSUME NEW S, NEW s \in Seq(S), NEW t \in Seq(S), NEW h, h = s \o t
  PROVE  /\ h \in Seq(S) /\ Len(h) = Len(s) + Len(t) /\ DOMAIN h = 1..Len(h)
         /\ Len(s) \in Nat /\ Len(t) \in Nat /\ DOMAIN s = 1..Len(s) /\ DOMAIN t = 1..Len(t)
         /\ \A j \in DOMAIN s : j \in DOMAIN h /\ h[j] = s[j]
         /\ \A j \in DOMAIN h : j > Len(s) => j - Len(s) \in DOMAIN t /\ h[j] = t[j - Len(s)]
         /\ \A j \in DOMAIN t : Len(s) + j \in DOMAIN h /\ h[Len(s) + j] = t[j]
OBVIOUS

(* The array has what the list has, and behind that what was last in it. *)
LEMMA ArrayIs ==
  ASSUME NEW S, NEW old \in ListType(S), NEW new \in ListType(S), NEW array, array = Array(old, new)
  PROVE  /\ \A j \in DOMAIN array : array[j] \in S
         /\ \A j \in DOMAIN array : j \in DOMAIN new.names \cup DOMAIN old.names
         /\ \A j \in DOMAIN array : array[j] \in Range(new.names) \cup Range(old.names)
         /\ \A j \in DOMAIN array : j \in Nat \ {0} /\ j =< old.cap
         /\ \A j \in DOMAIN new.names : j =< old.cap => j \in DOMAIN array /\ array[j] = new.names[j]
<1> DEFINE gone == Len(old.names) - Len(new.names)
           last == Last(old.names)
           more == Copies(last, gone)
           held == new.names \o more
<1>1. /\ new.names \in Seq(S) /\ Len(new.names) \in Nat /\ DOMAIN new.names = 1..Len(new.names)
      /\ old.names \in Seq(S) /\ Len(old.names) \in Nat /\ DOMAIN old.names = 1..Len(old.names)
  BY DEF ListType
<1>2. gone \in Int BY <1>1
<1>3. gone > 0 => Len(old.names) \in DOMAIN old.names
  <2>1. Len(old.names) \in Nat /\ Len(new.names) \in Nat /\ DOMAIN old.names = 1..Len(old.names) BY <1>1
  <2>2. \A i, j \in Nat : i - j > 0 => i > 0 OBVIOUS
  <2>3. gone > 0 => Len(old.names) > 0 BY <2>1, <2>2
  <2> QED BY <2>1, <2>3
<1>4. last = old.names[Len(old.names)] BY DEF Last
<1>5. array = [i \in {j \in DOMAIN held : j =< old.cap} |-> held[i]] BY DEF Array
<1> HIDE DEF last
<1>6. gone > 0 => last \in S /\ last \in Range(old.names) BY <1>1, <1>3, <1>4 DEF Range
<1> HIDE DEF gone
<1>7. /\ more \in Seq(S) /\ Len(more) = IF gone > 0 THEN gone ELSE 0
      /\ \A i \in DOMAIN more : more[i] = last
  BY <1>2, <1>6, CopiesIs
<1> HIDE DEF more
<1>8. held = new.names \o more OBVIOUS
<1> HIDE DEF held
<1>9. /\ held \in Seq(S) /\ Len(held) = Len(new.names) + Len(more) /\ DOMAIN held = 1..Len(held)
      /\ Len(more) \in Nat /\ DOMAIN more = 1..Len(more)
      /\ \A j \in DOMAIN new.names : j \in DOMAIN held /\ held[j] = new.names[j]
      /\ \A j \in DOMAIN held : j > Len(new.names) =>
           j - Len(new.names) \in DOMAIN more /\ held[j] = more[j - Len(new.names)]
  <2> DEFINE s == new.names
  <2>1. s \in Seq(S) /\ more \in Seq(S) /\ held = s \o more BY <1>1, <1>7, <1>8
  <2> HIDE DEF s
  <2>2. /\ held \in Seq(S) /\ Len(held) = Len(s) + Len(more) /\ DOMAIN held = 1..Len(held)
        /\ Len(more) \in Nat /\ DOMAIN more = 1..Len(more)
        /\ \A j \in DOMAIN s : j \in DOMAIN held /\ held[j] = s[j]
        /\ \A j \in DOMAIN held : j > Len(s) => j - Len(s) \in DOMAIN more /\ held[j] = more[j - Len(s)]
    BY <2>1, JoinedIs
  <2> QED BY <2>2 DEF s
<1>10. \A j \in DOMAIN held : j > Len(new.names) => held[j] = last /\ gone > 0 /\ j \in DOMAIN old.names
  <2> SUFFICES ASSUME NEW j \in DOMAIN held, j > Len(new.names)
               PROVE  held[j] = last /\ gone > 0 /\ j \in DOMAIN old.names
    OBVIOUS
  <2>1. j - Len(new.names) \in DOMAIN more /\ held[j] = more[j - Len(new.names)] BY <1>9
  <2>2. held[j] = last BY <1>7, <2>1
  <2>3. gone > 0 BY <1>1, <1>2, <1>7, <1>9, <2>1
  <2>4. j \in 1..Len(old.names) BY <1>1, <1>7, <1>9, <2>3 DEF gone
  <2> QED BY <1>1, <2>2, <2>3, <2>4
<1>11. \A j \in DOMAIN held : held[j] \in S BY <1>9
<1>12. \A j \in DOMAIN held : /\ j \in DOMAIN new.names \cup DOMAIN old.names
                              /\ held[j] \in Range(new.names) \cup Range(old.names)
  <2> SUFFICES ASSUME NEW j \in DOMAIN held
               PROVE  /\ j \in DOMAIN new.names \cup DOMAIN old.names
                      /\ held[j] \in Range(new.names) \cup Range(old.names)
    OBVIOUS
  <2>1. CASE j > Len(new.names) BY <1>6, <1>10, <2>1
  <2>2. CASE ~(j > Len(new.names))
    <3>1. j \in DOMAIN new.names BY <1>1, <1>9, <2>2
    <3> QED BY <1>1, <1>9, <3>1 DEF Range
  <2> QED BY <2>1, <2>2
<1>13. \A j \in DOMAIN held : j \in Nat \ {0} BY <1>1, <1>9
<1> QED BY <1>5, <1>9, <1>11, <1>12, <1>13

(* A slice stays a slice of the same length. *)
LEMMA HeldType ==
  ASSUME NEW S, NEW old \in ListType(S), NEW new \in ListType(S), NEW c \in SliceType(S), NEW h, h = Held(c, old, new)
  PROVE  /\ h \in SliceType(S) /\ Len(h.names) = Len(c.names) /\ DOMAIN h.names = DOMAIN c.names
         /\ ~c.shared => h = c
         /\ c.shared => /\ h.shared <=> new.cap = old.cap
                        /\ \A i \in DOMAIN c.names :
                             h.names[i] = IF i \in DOMAIN Array(old, new) THEN Array(old, new)[i] ELSE c.names[i]
<1> DEFINE array == Array(old, new)
           seen == [i \in DOMAIN c.names |-> IF i \in DOMAIN array THEN array[i] ELSE c.names[i]]
<1>1. c.names \in Seq(S) /\ c.shared \in BOOLEAN BY DEF SliceType
<1>2. CASE ~c.shared
  <2>1. h = c BY <1>2 DEF Held
  <2> QED BY <1>2, <2>1
<1>3. CASE c.shared
  <2>1. h = [names |-> seen, shared |-> new.cap = old.cap] BY <1>3 DEF Held, Seen
  <2>2. \A j \in DOMAIN array : array[j] \in S BY ArrayIs
  <2> HIDE DEF array
  <2>3. DOMAIN c.names = 1..Len(c.names) /\ Len(c.names) \in Nat /\ \A i \in DOMAIN c.names : c.names[i] \in S
    BY <1>1
  <2>4. \A i \in 1..Len(c.names) : seen[i] \in S BY <2>2, <2>3
  <2>5. seen = [i \in 1..Len(c.names) |-> seen[i]] BY <2>3
  <2>6. DOMAIN seen = DOMAIN c.names OBVIOUS
  <2> HIDE DEF seen
  <2>7. seen \in Seq(S) /\ Len(seen) = Len(c.names) BY <2>3, <2>4, <2>5
  <2>8. h.names = seen /\ h.shared = (new.cap = old.cap) BY <2>1
  <2>9. h \in SliceType(S) BY <2>1, <2>7 DEF SliceType
  <2> QED BY <1>3, <2>6, <2>7, <2>8, <2>9 DEF seen, array
<1> QED BY <1>2, <1>3

(* The list has a first part of the slice, or the same at the places both have. *)
Within(l, c) == Len(l.names) =< Len(c.names) /\ \A i \in DOMAIN l.names : l.names[i] = c.names[i]
Agree(l, c) == \A i \in DOMAIN l.names \cap DOMAIN c.names : l.names[i] = c.names[i]

(* Unless names are appended in place, the slice has no new name and what  *)
(* is behind the list stays.                                               *)
LEMMA HeldWithin ==
  ASSUME NEW S, NEW old \in ListType(S), NEW new \in ListType(S), Moved(old, new, S), NEW c \in SliceType(S),
         c.shared, Within(old, c), ~(Len(old.names) < Len(new.names) /\ Len(old.names) < old.cap),
         NEW h, h = Held(c, old, new)
  PROVE  /\ h.shared => Within(new, h) /\ Len(new.names) =< Len(old.names)
         /\ ~h.shared => h.names = c.names
         /\ Range(h.names) \subseteq Range(c.names)
         /\ \A p \in DOMAIN c.names : p > Len(old.names) => h.names[p] = c.names[p]
<1> DEFINE array == Array(old, new)
<1>1. /\ h \in SliceType(S) /\ Len(h.names) = Len(c.names) /\ DOMAIN h.names = DOMAIN c.names
      /\ h.shared <=> new.cap = old.cap
      /\ \A i \in DOMAIN c.names : h.names[i] = IF i \in DOMAIN array THEN array[i] ELSE c.names[i]
  BY HeldType
<1>2. /\ \A j \in DOMAIN array : j \in DOMAIN new.names \cup DOMAIN old.names
      /\ \A j \in DOMAIN array : array[j] \in Range(new.names) \cup Range(old.names)
      /\ \A j \in DOMAIN array : j \in Nat \ {0} /\ j =< old.cap
      /\ \A j \in DOMAIN new.names : j =< old.cap => j \in DOMAIN array /\ array[j] = new.names[j]
  BY ArrayIs
<1> HIDE DEF array
<1>3. /\ Len(old.names) \in Nat /\ DOMAIN old.names = 1..Len(old.names) /\ old.cap \in Nat
      /\ Len(new.names) \in Nat /\ DOMAIN new.names = 1..Len(new.names) /\ new.cap \in Nat
      /\ Len(new.names) =< new.cap /\ Len(old.names) =< old.cap
      /\ Len(c.names) \in Nat /\ DOMAIN c.names = 1..Len(c.names)
      /\ h.names \in Seq(S) /\ c.names \in Seq(S)
  BY <1>1 DEF ListType, SliceType
<1>4. Range(old.names) \subseteq Range(c.names) BY <1>3 DEF Within, Range
<1>5. CASE new.cap = old.cap /\ Len(new.names) =< Len(old.names)
  <2>1. Range(new.names) \subseteq Range(old.names)
    <3>1. ASSUME NEW n, Grown(old, new, n) PROVE \A i \in DOMAIN new.names : new.names[i] = old.names[i] /\ i \in DOMAIN old.names
      BY <1>3, <1>5, <3>1 DEF Grown
    <3>2. ASSUME NEW n, Shrunk(old, new, n)
          PROVE \A i \in DOMAIN new.names : \E j \in DOMAIN old.names : new.names[i] = old.names[j]
      BY <3>2 DEF Shrunk
    <3> QED BY <3>1, <3>2 DEF Moved, Range
  <2>2. \A i \in DOMAIN new.names : i \in DOMAIN array /\ array[i] = new.names[i] /\ i \in DOMAIN c.names
    BY <1>2, <1>3, <1>5 DEF Within
  <2>3. Within(new, h) BY <1>1, <1>3, <1>5, <2>2 DEF Within
  <2>4. Range(h.names) \subseteq Range(c.names)
    <3>1. ASSUME NEW i \in DOMAIN c.names PROVE h.names[i] \in Range(c.names)
      <4>1. CASE i \in DOMAIN array BY <1>1, <1>2, <1>4, <2>1, <4>1
      <4>2. CASE i \notin DOMAIN array BY <1>1, <4>2 DEF Range
      <4> QED BY <4>1, <4>2
    <3> QED BY <1>1, <3>1 DEF Range
  <2>5. \A p \in DOMAIN c.names : p > Len(old.names) => p \notin DOMAIN array BY <1>2, <1>3, <1>5
  <2> QED BY <1>1, <1>5, <2>3, <2>4, <2>5
<1>6. CASE ~(new.cap = old.cap /\ Len(new.names) =< Len(old.names))
  <2>1. PICK n : Grown(old, new, n)
    <3>1. new # old BY <1>3, <1>6
    <3>2. \A n : ~Shrunk(old, new, n) BY <1>6 DEF Shrunk
    <3> QED BY <3>1, <3>2 DEF Moved
  <2>2. Len(new.names) > Len(old.names) \/ new.cap # old.cap BY <1>3, <1>6
  <2>3. Len(new.names) > Len(old.names)
    <3>1. new.cap # old.cap => Len(new.names) > old.cap BY <1>3, <2>1 DEF Grown
    <3> QED BY <1>3, <2>2, <3>1
  <2>4. Len(old.names) = old.cap BY <1>3, <2>3
  <2>5. new.cap # old.cap BY <1>3, <2>1, <2>3, <2>4 DEF Grown
  <2>6. ASSUME NEW i \in DOMAIN c.names PROVE h.names[i] = c.names[i]
    <3>1. CASE i \in DOMAIN array
      <4>1. i \in DOMAIN old.names BY <1>2, <1>3, <2>4, <3>1
      <4>2. i \in DOMAIN new.names /\ i =< old.cap /\ new.names[i] = old.names[i] BY <1>3, <2>1, <2>3, <4>1 DEF Grown
      <4>3. array[i] = old.names[i] BY <1>2, <4>2
      <4> QED BY <1>1, <3>1, <4>1, <4>3 DEF Within
    <3>2. CASE i \notin DOMAIN array BY <1>1, <3>2
    <3> QED BY <3>1, <3>2
  <2>7. h.names = c.names
    <3>1. h.names = [i \in DOMAIN c.names |-> h.names[i]] BY <1>1, <1>3
    <3>2. c.names = [i \in DOMAIN c.names |-> c.names[i]]
      <4>1. \A s \in Seq(S) : s = [i \in DOMAIN s |-> s[i]] OBVIOUS
      <4> QED BY <1>3, <4>1
    <3> QED BY <2>6, <3>1, <3>2
  <2> QED BY <1>1, <2>5, <2>7
<1> QED BY <1>5, <1>6

(* Even if they are, a name the watcher does not work on keeps a place in  *)
(* both, if it had one.                                                    *)
LEMMA HeldAgrees ==
  ASSUME NEW S, NEW old \in ListType(S), NEW new \in ListType(S), NEW c \in SliceType(S), c.shared, Agree(old, c),
         NEW h, h = Held(c, old, new),
         NEW n, NEW m, n # m, new = old \/ Grown(old, new, m) \/ Shrunk(old, new, m)
  PROVE  /\ h.shared => Agree(new, h)
         /\ (\E p \in DOMAIN c.names \cap DOMAIN old.names : c.names[p] = n) =>
              \E p \in DOMAIN h.names : h.names[p] = n /\ (h.shared => p \in DOMAIN new.names)
<1> DEFINE array == Array(old, new)
<1>1. /\ DOMAIN h.names = DOMAIN c.names
      /\ h.shared <=> new.cap = old.cap
      /\ \A i \in DOMAIN c.names : h.names[i] = IF i \in DOMAIN array THEN array[i] ELSE c.names[i]
  BY HeldType
<1>2. \A j \in DOMAIN new.names : j =< old.cap => j \in DOMAIN array /\ array[j] = new.names[j]
  BY ArrayIs
<1> HIDE DEF array
<1>3. /\ Len(old.names) \in Nat /\ DOMAIN old.names = 1..Len(old.names) /\ old.cap \in Nat
      /\ Len(new.names) \in Nat /\ DOMAIN new.names = 1..Len(new.names) /\ new.cap \in Nat
      /\ Len(new.names) =< new.cap /\ Len(old.names) =< old.cap
      /\ Len(c.names) \in Nat /\ DOMAIN c.names = 1..Len(c.names)
  BY DEF ListType, SliceType
<1>4. h.shared => Agree(new, h) BY <1>1, <1>2, <1>3 DEF Agree
<1>5. ASSUME NEW p \in DOMAIN c.names \cap DOMAIN old.names, c.names[p] = n
      PROVE  \E q \in DOMAIN h.names : h.names[q] = n /\ (h.shared => q \in DOMAIN new.names)
  <2>1. old.names[p] = n BY <1>5 DEF Agree
  <2>2. PICK q \in DOMAIN new.names : q =< p /\ new.names[q] = n
    <3>1. CASE new = old BY <1>3, <2>1, <3>1
    <3>2. CASE Grown(old, new, m)
      <4>1. p \in DOMAIN new.names /\ new.names[p] = n BY <1>3, <2>1, <3>2 DEF Grown
      <4> QED BY <1>3, <4>1
    <3>3. CASE Shrunk(old, new, m) BY <2>1, <3>3 DEF Shrunk
    <3> QED BY <3>1, <3>2, <3>3
  <2>3. q \in DOMAIN c.names /\ q =< old.cap BY <1>3, <2>2
  <2> QED BY <1>1, <1>2, <2>2, <2>3
<1> QED BY <1>4, <1>5

-----------------------------------------------------------------------------
(***************************************************************************)
(* Where an application is mentioned.                                      *)
(***************************************************************************)

(* The sources that AddApp and RemoveApp go through. *)
SourceLists == {s.sources : s \in AppSpecs} \cup {<<s.sources[1]>> : s \in AppSpecs}

(* A list of sources is a sequence, and its paths are keys of the index. *)
LEMMA SourceListType ==
  ASSUME NEW srcs \in SourceLists
  PROVE  /\ Len(srcs) \in Nat \ {0} /\ DOMAIN srcs = 1..Len(srcs) /\ IsFiniteSet(DOMAIN srcs)
         /\ \A i \in DOMAIN srcs : /\ IsFiniteSet(srcs[i].values)
                                   /\ srcs[i].path \in DirKeys
                                   /\ ValueFiles(srcs[i]) \subseteq FileKeys
<1>1. CASE \E s \in AppSpecs : srcs = s.sources
  <2>1. PICK s \in AppSpecs : srcs = s.sources BY <1>1
  <2>2. srcs \in Seq(Sources(s)) /\ srcs # << >> BY <2>1, SpecAssumption
  <2>3. Len(srcs) \in Nat /\ DOMAIN srcs = 1..Len(srcs) /\ Len(srcs) # 0 BY <2>2
  <2>4. IsFiniteSet(DOMAIN srcs) BY <2>3, FS_Interval
  <2>5. \A i \in DOMAIN srcs : srcs[i] \in Sources(s) BY <2>1 DEF Sources
  <2> QED BY <2>1, <2>3, <2>4, <2>5, SpecAssumption DEF DirKeys, FileKeys
<1>2. CASE \E s \in AppSpecs : srcs = <<s.sources[1]>>
  <2>1. PICK s \in AppSpecs : srcs = <<s.sources[1]>> BY <1>2
  <2>2. s.sources \in Seq(Sources(s)) /\ s.sources # << >> BY SpecAssumption
  <2>3. 1 \in DOMAIN s.sources BY <2>2
  <2>4. s.sources[1] \in Sources(s) BY <2>3 DEF Sources
  <2>5. Len(srcs) = 1 /\ DOMAIN srcs = 1..1 /\ srcs[1] = s.sources[1] BY <2>1
  <2>6. IsFiniteSet(1..1)
    <3>1. 1..1 = {1} OBVIOUS
    <3> QED BY <3>1, FS_Singleton
  <2> QED BY <2>4, <2>5, <2>6, SpecAssumption DEF DirKeys, FileKeys
<1> QED BY <1>1, <1>2 DEF SourceLists

ReadsFrom(src, k) == IF k.kind = "dir" THEN src.path = k.path ELSE k.path \in ValueFiles(src)

(* An application is mentioned under exactly the directories and value     *)
(* files of its sources.                                                   *)
LEMMA MentionsIs ==
  ASSUME NEW srcs \in SourceLists, NEW k
  PROVE  /\ Mentions(srcs, k) \in Nat
         /\ Mentions(srcs, k) > 0 <=> \E i \in DOMAIN srcs : ReadsFrom(srcs[i], k)
<1> DEFINE values == UNION {{i} \X srcs[i].values : i \in DOMAIN srcs}
           Named1 == {i \in DOMAIN srcs : srcs[i].path = k.path}
           Named2 == {iv \in values : Join(srcs[iv[1]].path, iv[2]) = k.path}
<1>1. IsFiniteSet(values)
  <2>1. \A i \in DOMAIN srcs : IsFiniteSet({i} \X srcs[i].values)
    BY SourceListType, FS_Singleton, FS_Product
  <2>2. IsFiniteSet({{i} \X srcs[i].values : i \in DOMAIN srcs})
    <3> DEFINE of == [i \in DOMAIN srcs |-> {i} \X srcs[i].values]
               all == {{i} \X srcs[i].values : i \in DOMAIN srcs}
    <3>1. of \in Surjection(DOMAIN srcs, all) BY DEF Surjection
    <3>2. IsFiniteSet(DOMAIN srcs) BY SourceListType
    <3> HIDE DEF of, all
    <3>3. IsFiniteSet(all) BY <3>1, <3>2, FS_Surjection
    <3> QED BY <3>3 DEF all
  <2> QED BY <2>1, <2>2, FS_UNION
<1>2. Mentions(srcs, k) = IF k.kind = "dir" THEN Cardinality(Named1) ELSE Cardinality(Named2) BY DEF Mentions
<1>3. Cardinality(Named1) \in Nat /\ (Cardinality(Named1) > 0 <=> Named1 # {}) BY SourceListType, CountOfSubset
<1>4. Cardinality(Named2) \in Nat /\ (Cardinality(Named2) > 0 <=> Named2 # {}) BY <1>1, CountOfSubset
<1>5. Named2 # {} <=> \E i \in DOMAIN srcs : k.path \in ValueFiles(srcs[i])
  <2>1. ASSUME NEW iv \in Named2 PROVE \E i \in DOMAIN srcs : k.path \in ValueFiles(srcs[i])
    <3>1. PICK i \in DOMAIN srcs : iv \in {i} \X srcs[i].values BY <2>1
    <3>2. iv[1] = i /\ iv[2] \in srcs[i].values BY <3>1
    <3> QED BY <2>1, <3>2 DEF ValueFiles
  <2>2. ASSUME NEW i \in DOMAIN srcs, k.path \in ValueFiles(srcs[i]) PROVE Named2 # {}
    <3>1. PICK v \in srcs[i].values : Join(srcs[i].path, v) = k.path BY <2>2 DEF ValueFiles
    <3>2. <<i, v>> \in values BY <3>1
    <3>3. <<i, v>> \in Named2 BY <3>1, <3>2
    <3> QED BY <3>3
  <2> QED BY <2>1, <2>2
<1>6. Named1 # {} <=> \E i \in DOMAIN srcs : srcs[i].path = k.path OBVIOUS
<1> HIDE DEF Named1, Named2
<1> QED BY <1>2, <1>3, <1>4, <1>5, <1>6 DEF ReadsFrom

(* The keys of an application are keys of the index, under which it is     *)
(* mentioned.                                                              *)
LEMMA KeysOfIs ==
  ASSUME NEW s \in AppSpecs
  PROVE  /\ KeysOf(s) \subseteq ListKeys
         /\ \A k \in ListKeys : k \in KeysOf(s) <=> Mentions(s.sources, k) > 0
<1>1. s.sources \in SourceLists BY DEF SourceLists
<1>2. \A i \in DOMAIN s.sources : /\ s.sources[i].path \in DirKeys /\ ValueFiles(s.sources[i]) \subseteq FileKeys
  BY <1>1, SourceListType
<1>3. \A k : k \in KeysOf(s) <=>
        \E i \in DOMAIN s.sources :
          \/ k = [kind |-> "dir", path |-> s.sources[i].path]
          \/ k \in [kind : {"file"}, path : ValueFiles(s.sources[i])]
  BY DEF KeysOf, Sources
<1>4. KeysOf(s) \subseteq ListKeys BY <1>2, <1>3 DEF ListKeys
<1>5. ASSUME NEW k \in ListKeys PROVE k \in KeysOf(s) <=> \E i \in DOMAIN s.sources : ReadsFrom(s.sources[i], k)
  <2>1. CASE k \in [kind : {"dir"}, path : DirKeys]
    <3>1. k.kind = "dir" /\ k = [kind |-> "dir", path |-> k.path] BY <2>1
    <3> QED BY <1>3, <3>1 DEF ReadsFrom
  <2>2. CASE k \in [kind : {"file"}, path : FileKeys]
    <3>1. k.kind = "file" /\ k = [kind |-> "file", path |-> k.path] BY <2>2
    <3>2. \A src : k \in [kind : {"file"}, path : ValueFiles(src)] <=> k.path \in ValueFiles(src) BY <3>1
    <3> QED BY <1>3, <3>1, <3>2 DEF ReadsFrom
  <2> QED BY <2>1, <2>2 DEF ListKeys
<1> QED BY <1>1, <1>4, <1>5, MentionsIs

-----------------------------------------------------------------------------
(***************************************************************************)
(* What the application watcher keeps true.                                *)
(***************************************************************************)

ReposOf(spec) == {src.repo : src \in Sources(spec)}

(* The specs of the applications with that name. *)
Live(n) == {apps[k] : k \in {x \in AppKeys : AppNameOf[x] = n /\ apps[x] # None}}
Wanted(n) == {s \in Live(n) : CanProcessApp(s)}

Todo == {appTodo[i] : i \in DOMAIN appTodo}
Call(op, r, n, spec) == [op |-> op, repo |-> r, name |-> n, spec |-> spec]
AppCallType == [op : {"add", "remove"}, repo : Repos, name : AppNames, spec : AppSpecs]

AppDirType == [apps : [AppNames -> AppSpecs \cup {None}],
               lists : [ListKeys -> ListType(AppNames)]]

AppTypeOK ==
  /\ apps \in [AppKeys -> AppSpecs \cup {None}]
  /\ missed \subseteq AppNames \cup SetNames /\ several \subseteq AppNames
  /\ appDirs \in [Repos -> AppDirType]
  /\ raced \in [Repos -> SUBSET ListKeys]
  /\ appTodo \in Seq(AppCallType)

(* The calls of one event: for one name, first those that remove an old    *)
(* spec, then those that add the new one, each in a repository of its spec. *)
CallsInv ==
  /\ \A c, d \in Todo : c.name = d.name /\ (c.op = d.op => c.spec = d.spec)
  /\ \A c \in Todo : c.repo \in ReposOf(c.spec) /\ (c.name \notin several => Len(c.spec.sources) = 1)
  /\ \A i, j \in DOMAIN appTodo : i < j /\ appTodo[i].op = "add" => appTodo[j].op = "add"

(* Unless an event was missed, the new spec is the application's present   *)
(* one, and is added in all of its repositories.                           *)
AddsInv ==
  \A c \in Todo :
    c.name \notin missed =>
      /\ c.op = "add" => c.spec \in Wanted(c.name)
      /\ c.op = "remove" =>
           \A s \in Wanted(c.name) : \A r \in ReposOf(s) : Call("add", r, c.name, s) \in Todo

(* ... and only one application has that name. *)
LiveInv ==
  \A n \in AppNames :
    /\ n \notin missed => \A s, t \in Live(n) : s = t
    /\ n \notin several => \A s \in Live(n) : Len(s.sources) = 1

(* The map of a repository is the cluster's, except where a call is still  *)
(* to be made: while something is to be removed, nothing is added yet.     *)
Removing(n) == \E c \in Todo : c.name = n /\ c.op = "remove"
MapInv ==
  \A n \in AppNames \ missed, r \in Repos :
    LET e == appDirs[r].apps[n] IN
    IF Removing(n)
    THEN e # None => Call("remove", r, n, e) \in Todo
    ELSE /\ e # None => e \in Wanted(n) /\ r \in ReposOf(e)
         /\ e = None => \A s \in Wanted(n) : r \in ReposOf(s) => Call("add", r, n, s) \in Todo

(* What is in the map is in the index, but for the lists in which a check  *)
(* may have overwritten it.                                                *)
IndexedInv ==
  \A n \in AppNames, r \in Repos :
    LET e == appDirs[r].apps[n] IN
    e # None => \A k \in KeysOf(e) \ raced[r] : n \in Range(appDirs[r].lists[k].names)

(* A name whose applications always had one source is in no list more      *)
(* often than RemoveApp will take it out.                                  *)
Allowed(e, k) == IF e = None THEN 0 ELSE Mentions(e.sources, k)
ExactInv ==
  \A n \in AppNames \ (missed \cup several), r \in Repos :
    \A k \in ListKeys \ raced[r] :
      Count(appDirs[r].lists[k].names, n) =< Allowed(appDirs[r].apps[n], k)

AppInv == AppTypeOK /\ CallsInv /\ AddsInv /\ LiveInv /\ MapInv /\ IndexedInv /\ ExactInv

-----------------------------------------------------------------------------
(* The repositories of an application's sources. *)
LEMMA SpecFacts ==
  ASSUME NEW s \in AppSpecs
  PROVE  /\ s # None /\ s.sources \in SourceLists /\ <<s.sources[1]>> \in SourceLists
         /\ ReposOf(s) \subseteq Repos /\ ReposOf(s) # {}
         /\ DOMAIN s.sources = 1..Len(s.sources) /\ Len(s.sources) \in Nat \ {0}
         /\ Len(s.sources) = 1 => s.sources = <<s.sources[1]>>
<1>1. s # None BY SpecAssumption
<1>2. s.sources \in SourceLists /\ <<s.sources[1]>> \in SourceLists BY DEF SourceLists
<1>3. s.sources \in Seq(Sources(s)) /\ s.sources # << >> BY SpecAssumption
<1>4. DOMAIN s.sources = 1..Len(s.sources) /\ Len(s.sources) \in Nat \ {0} BY <1>3
<1>5. 1 \in DOMAIN s.sources BY <1>4
<1>6. Len(s.sources) = 1 => s.sources = <<s.sources[1]>> BY <1>3
<1>7. ReposOf(s) \subseteq Repos BY DEF ReposOf, Repos
<1>8. ReposOf(s) # {} BY <1>5 DEF ReposOf, Sources
<1> QED BY <1>1, <1>2, <1>4, <1>6, <1>7, <1>8

(* The calls that processApp makes. *)
LEMMA CallsOf ==
  ASSUME NEW op \in {"add", "remove"}, NEW n \in AppNames, NEW s \in AppSpecs
  PROVE  /\ Calls(op, n, s) \in Seq(AppCallType)
         /\ \A i \in DOMAIN Calls(op, n, s) :
              LET c == Calls(op, n, s)[i] IN c.op = op /\ c.name = n /\ c.spec = s /\ c.repo \in ReposOf(s)
         /\ \A r \in ReposOf(s) : \E i \in DOMAIN Calls(op, n, s) : Calls(op, n, s)[i] = Call(op, r, n, s)
<1>1. DOMAIN s.sources = 1..Len(s.sources) /\ Len(s.sources) \in Nat BY SpecFacts
<1>2. \A i \in DOMAIN s.sources : s.sources[i].repo \in ReposOf(s) BY DEF ReposOf, Sources
<1>3. \A r \in ReposOf(s) : \E i \in DOMAIN s.sources : s.sources[i].repo = r BY DEF ReposOf, Sources
<1>4. ReposOf(s) \subseteq Repos BY SpecFacts
<1>5. \A i \in 1..Len(s.sources) : Call(op, s.sources[i].repo, n, s) \in AppCallType
  BY <1>1, <1>2, <1>4 DEF AppCallType, Call
<1>6. Calls(op, n, s) = [i \in 1..Len(s.sources) |-> Call(op, s.sources[i].repo, n, s)]
  BY <1>1 DEF Calls, Call
<1>7. Calls(op, n, s) \in Seq(AppCallType) BY <1>1, <1>5, <1>6
<1>8. \A i \in DOMAIN Calls(op, n, s) : i \in DOMAIN s.sources /\ Calls(op, n, s)[i] = Call(op, s.sources[i].repo, n, s)
  BY <1>1, <1>6
<1>9. \A r \in ReposOf(s) : \E i \in DOMAIN Calls(op, n, s) : Calls(op, n, s)[i] = Call(op, r, n, s)
  BY <1>1, <1>3, <1>6
<1> QED BY <1>2, <1>7, <1>8, <1>9 DEF Call

(* The calls that an event of the informer becomes, if it is noticed. *)
Removed(old, new) == CanProcessApp(old) /\ (new = None \/ CanProcessApp(new))
Added(old, new) == CanProcessApp(new) /\ (old = None \/ CanProcessApp(old))
EventCalls(calls, n, old, new) ==
  /\ calls \in Seq(AppCallType)
  /\ \A i \in DOMAIN calls :
       LET c == calls[i] IN
       /\ c.name = n /\ c.repo \in ReposOf(c.spec)
       /\ \/ Removed(old, new) /\ c.op = "remove" /\ c.spec = old
          \/ Added(old, new) /\ c.op = "add" /\ c.spec = new
  /\ Removed(old, new) => \A r \in ReposOf(old) : \E i \in DOMAIN calls : calls[i] = Call("remove", r, n, old)
  /\ Added(old, new) => \A r \in ReposOf(new) : \E i \in DOMAIN calls : calls[i] = Call("add", r, n, new)
  /\ \A i, j \in DOMAIN calls : i < j /\ calls[i].op = "add" => calls[j].op = "add"

(* ... which the handlers make for every event. *)
LEMMA AppCallsOf ==
  ASSUME NEW n \in AppNames, NEW old \in AppSpecs \cup {None}, NEW new \in AppSpecs \cup {None}, old # new
  PROVE  EventCalls(AppCalls(n, old, new), n, old, new)
<1>1. ~CanProcessApp(None) BY DEF CanProcessApp
<1>2. CASE old = None /\ CanProcessApp(new)
  <2>1. AppCalls(n, old, new) = Calls("add", n, new) BY <1>1, <1>2 DEF AppCalls
  <2>2. new \in AppSpecs BY <1>1, <1>2
  <2>3. Added(old, new) /\ ~Removed(old, new) BY <1>1, <1>2 DEF Added, Removed
  <2> QED BY <2>1, <2>2, <2>3, CallsOf DEF EventCalls
<1>3. CASE CanProcessApp(old) /\ new = None
  <2>1. AppCalls(n, old, new) = Calls("remove", n, old) BY <1>1, <1>3 DEF AppCalls
  <2>2. old \in AppSpecs BY <1>1, <1>3
  <2>3. Removed(old, new) /\ ~Added(old, new) BY <1>1, <1>3 DEF Added, Removed
  <2> QED BY <2>1, <2>2, <2>3, CallsOf DEF EventCalls
<1>4. CASE CanProcessApp(old) /\ CanProcessApp(new)
  <2> DEFINE a == Calls("remove", n, old)
             b == Calls("add", n, new)
  <2>1. old \in AppSpecs /\ new \in AppSpecs /\ old # None /\ new # None BY <1>1, <1>4
  <2>2. AppCalls(n, old, new) = a \o b BY <1>4, <2>1 DEF AppCalls
  <2>3. /\ a \in Seq(AppCallType)
        /\ \A i \in DOMAIN a : a[i].op = "remove" /\ a[i].name = n /\ a[i].spec = old /\ a[i].repo \in ReposOf(old)
        /\ \A r \in ReposOf(old) : \E i \in DOMAIN a : a[i] = Call("remove", r, n, old)
    BY <2>1, CallsOf
  <2>4. /\ b \in Seq(AppCallType)
        /\ \A i \in DOMAIN b : b[i].op = "add" /\ b[i].name = n /\ b[i].spec = new /\ b[i].repo \in ReposOf(new)
        /\ \A r \in ReposOf(new) : \E i \in DOMAIN b : b[i] = Call("add", r, n, new)
    BY <2>1, CallsOf
  <2>5. Removed(old, new) /\ Added(old, new) BY <1>4 DEF Added, Removed
  <2> HIDE DEF a, b
  <2> DEFINE calls == a \o b
  <2>6. /\ calls \in Seq(AppCallType)
        /\ DOMAIN a = 1..Len(a) /\ DOMAIN b = 1..Len(b) /\ DOMAIN calls = 1..Len(a) + Len(b)
        /\ Len(a) \in Nat /\ Len(b) \in Nat
        /\ \A i \in 1..Len(a) : calls[i] = a[i]
        /\ \A i \in 1..Len(b) : calls[Len(a) + i] = b[i]
        /\ \A i \in DOMAIN calls : i > Len(a) => calls[i] = b[i - Len(a)] /\ i - Len(a) \in DOMAIN b
    BY <2>3, <2>4
  <2> HIDE DEF calls
  <2>7. \A i \in DOMAIN calls : IF i > Len(a) THEN i - Len(a) \in DOMAIN b /\ calls[i] = b[i - Len(a)]
                                ELSE i \in DOMAIN a /\ calls[i] = a[i]
    BY <2>6
  <2>8. \A i \in DOMAIN a : i \in DOMAIN calls /\ calls[i] = a[i] BY <2>6
  <2>9. \A i \in DOMAIN b : Len(a) + i \in DOMAIN calls /\ calls[Len(a) + i] = b[i] BY <2>6
  <2>10. \A i, j \in DOMAIN calls : i < j /\ calls[i].op = "add" => calls[j].op = "add"
    <3>1. SUFFICES ASSUME NEW i \in DOMAIN calls, NEW j \in DOMAIN calls, i < j, calls[i].op = "add"
                   PROVE  calls[j].op = "add"
      OBVIOUS
    <3>2. i > Len(a) BY <2>3, <2>7, <3>1
    <3>3. j > Len(a) BY <2>6, <3>1, <3>2
    <3> QED BY <2>4, <2>7, <3>3
  <2>11. \A r \in ReposOf(old) : \E i \in DOMAIN calls : calls[i] = Call("remove", r, n, old)
    BY <2>3, <2>8
  <2>12. \A r \in ReposOf(new) : \E i \in DOMAIN calls : calls[i] = Call("add", r, n, new)
    <3>1. SUFFICES ASSUME NEW r \in ReposOf(new) PROVE \E i \in DOMAIN calls : calls[i] = Call("add", r, n, new)
      OBVIOUS
    <3>2. PICK i \in DOMAIN b : b[i] = Call("add", r, n, new) BY <2>4
    <3> QED BY <2>9, <3>2
  <2>13. \A i \in DOMAIN calls :
           /\ calls[i].name = n /\ calls[i].repo \in ReposOf(calls[i].spec)
           /\ \/ calls[i].op = "remove" /\ calls[i].spec = old
              \/ calls[i].op = "add" /\ calls[i].spec = new
    <3>1. SUFFICES ASSUME NEW i \in DOMAIN calls
                   PROVE  /\ calls[i].name = n /\ calls[i].repo \in ReposOf(calls[i].spec)
                          /\ \/ calls[i].op = "remove" /\ calls[i].spec = old
                             \/ calls[i].op = "add" /\ calls[i].spec = new
      OBVIOUS
    <3>2. CASE i > Len(a)
      <4>1. i - Len(a) \in DOMAIN b /\ calls[i] = b[i - Len(a)] BY <2>7, <3>2
      <4> QED BY <2>4, <4>1
    <3>3. CASE ~(i > Len(a))
      <4>1. i \in DOMAIN a /\ calls[i] = a[i] BY <2>7, <3>3
      <4> QED BY <2>3, <4>1
    <3> QED BY <3>2, <3>3
  <2>14. EventCalls(calls, n, old, new) BY <2>5, <2>6, <2>10, <2>11, <2>12, <2>13 DEF EventCalls
  <2> QED BY <2>2, <2>14 DEF calls
<1>5. CASE ~(\/ old = None /\ CanProcessApp(new)
             \/ CanProcessApp(old) /\ new = None
             \/ CanProcessApp(old) /\ CanProcessApp(new))
  <2>1. AppCalls(n, old, new) = << >> BY <1>5 DEF AppCalls
  <2>2. ~Removed(old, new) /\ ~Added(old, new) BY <1>1, <1>5 DEF Added, Removed
  <2> QED BY <2>1, <2>2 DEF EventCalls
<1> QED BY <1>1, <1>2, <1>3, <1>4, <1>5

(* A list that a check has lost control of stays among those. *)
RacedGrows == raced' \in [Repos -> SUBSET ListKeys] /\ \A r \in Repos : raced[r] \subseteq raced'[r]

-----------------------------------------------------------------------------
(* AddApp and RemoveApp change the entry of one name, and append it to the *)
(* lists or take it out.                                                   *)
SameElsewhere(d, e, n) ==
  /\ \A m \in AppNames \ {n} : e.apps[m] = d.apps[m]
  /\ \A k \in ListKeys : Grown(d.lists[k], e.lists[k], n) \/ Shrunk(d.lists[k], e.lists[k], n)

LEMMA AddAppDoes ==
  ASSUME NEW d \in AppDirType, NEW n \in AppNames, NEW s \in AppSpecs
  PROVE  /\ AddApp(d, n, s) \in AppDirType /\ SameElsewhere(d, AddApp(d, n, s), n)
         /\ d.apps[n] # None => AddApp(d, n, s) = d
         /\ d.apps[n] = None =>
              /\ AddApp(d, n, s).apps[n] = s
              /\ \A k \in ListKeys : AddApp(d, n, s).lists[k] = Extended(d.lists[k], n, Mentions(s.sources, k))
<1>1. \A k \in ListKeys : Mentions(s.sources, k) \in Nat BY SpecFacts, MentionsIs
<1>2. d.lists \in [ListKeys -> ListType(AppNames)] /\ d.apps \in [AppNames -> AppSpecs \cup {None}]
  BY DEF AppDirType
<1>3. CASE d.apps[n] # None
  <2>1. AddApp(d, n, s) = d BY <1>3 DEF AddApp
  <2>2. \A l \in ListType(AppNames) : Grown(l, l, n) BY DEF Grown, ListType
  <2> QED BY <1>2, <1>3, <2>1, <2>2 DEF SameElsewhere
<1>4. CASE d.apps[n] = None
  <2> DEFINE lists == [k \in ListKeys |-> Extended(d.lists[k], n, Mentions(s.sources, k))]
  <2>1. AddApp(d, n, s) = [apps |-> [d.apps EXCEPT ![n] = s], lists |-> lists] BY <1>4 DEF AddApp
  <2>2. \A k \in ListKeys : /\ lists[k] \in ListType(AppNames) /\ Grown(d.lists[k], lists[k], n)
                            /\ lists[k] = Extended(d.lists[k], n, Mentions(s.sources, k))
    BY <1>1, <1>2, ExtendedIs
  <2>3. lists \in [ListKeys -> ListType(AppNames)] BY <2>2
  <2> HIDE DEF lists
  <2> QED BY <1>2, <1>4, <2>1, <2>2, <2>3 DEF AppDirType, SameElsewhere
<1> QED BY <1>3, <1>4

LEMMA RemoveAppDoes ==
  ASSUME NEW d \in AppDirType, NEW n \in AppNames, NEW s \in AppSpecs
  PROVE  /\ RemoveApp(d, n, s) \in AppDirType /\ SameElsewhere(d, RemoveApp(d, n, s), n)
         /\ RemoveApp(d, n, s).apps[n] = None
         /\ \A k \in ListKeys : Count(d.lists[k].names, n) =< Mentions(<<s.sources[1]>>, k) =>
              n \notin Range(RemoveApp(d, n, s).lists[k].names)
<1> DEFINE lists == WithoutLists(d.lists, n, <<s.sources[1]>>)
           times(k) == Mentions(<<s.sources[1]>>, k)
<1>1. \A k \in ListKeys : times(k) \in Nat BY SpecFacts, MentionsIs
<1>2. d.lists \in [ListKeys -> ListType(AppNames)] /\ d.apps \in [AppNames -> AppSpecs \cup {None}]
  BY DEF AppDirType
<1>3. RemoveApp(d, n, s) = [apps |-> [d.apps EXCEPT ![n] = None], lists |-> lists] BY DEF RemoveApp
<1>4. lists = [k \in ListKeys |-> Reduced(d.lists[k], n, times(k))] BY DEF WithoutLists
<1> HIDE DEF times, lists
<1>5. \A k \in ListKeys : /\ lists[k] \in ListType(AppNames) /\ Shrunk(d.lists[k], lists[k], n)
                          /\ Count(d.lists[k].names, n) =< times(k) => n \notin Range(lists[k].names)
  BY <1>1, <1>2, <1>4, ReducedIs
<1>6. lists \in [ListKeys -> ListType(AppNames)] BY <1>4, <1>5
<1> QED BY <1>2, <1>3, <1>5, <1>6 DEF AppDirType, SameElsewhere, times

-----------------------------------------------------------------------------
(* The invariant of the application watcher, step by step. *)
LEMMA AppInvInit == Init => AppInv
<1> SUFFICES ASSUME Init PROVE AppInv OBVIOUS
<1> USE DEF Init, DirsInit
<1>1. \A r \in Repos : appDirs[r] = NoApps OBVIOUS
<1>2. /\ NoApps \in AppDirType /\ \A n \in AppNames : NoApps.apps[n] = None
      /\ \A k \in ListKeys : \A n : Count(NoApps.lists[k].names, n) = 0
  <2>1. NoList \in ListType(AppNames) /\ NoList.names = << >> BY DEF NoList, ListType
  <2>2. \A n : {i \in DOMAIN << >> : << >>[i] = n} = {} OBVIOUS
  <2>3. \A n : Count(<< >>, n) = 0 BY <2>2, FS_EmptySet DEF Count
  <2>4. \A k \in ListKeys : NoApps.lists[k] = NoList BY DEF NoApps
  <2> QED BY <2>1, <2>3, <2>4 DEF NoApps, AppDirType
<1>3. Todo = {} BY DEF Todo
<1>4. \A n : Live(n) = {} /\ Wanted(n) = {} BY DEF Live, Wanted
<1>5. AppTypeOK BY <1>1, <1>2 DEF AppTypeOK
<1>6. CallsInv /\ AddsInv BY <1>3 DEF CallsInv, AddsInv
<1>7. LiveInv /\ MapInv BY <1>1, <1>2, <1>3, <1>4 DEF LiveInv, MapInv, Removing
<1>8. IndexedInv /\ ExactInv BY <1>1, <1>2 DEF IndexedInv, ExactInv, Allowed
<1> QED BY <1>5, <1>6, <1>7, <1>8 DEF AppInv

(* Whatever else is missed, and whatever a check writes into lists that it *)
(* has lost control of, the directories are what they were.                *)
LEMMA AppInvKept ==
  ASSUME AppInv, UNCHANGED <<apps, appTodo, several>>, RacedGrows,
         missed \subseteq missed', missed' \subseteq AppNames \cup SetNames,
         appDirs' \in [Repos -> AppDirType],
         \A r \in Repos : /\ appDirs'[r].apps = appDirs[r].apps
                          /\ \A k \in ListKeys \ raced[r] : appDirs'[r].lists[k] = appDirs[r].lists[k]
  PROVE  AppInv'
<1>1. Todo' = Todo /\ \A n : Live(n)' = Live(n) /\ Wanted(n)' = Wanted(n) /\ Removing(n)' = Removing(n)
  BY DEF Todo, Live, Wanted, Removing
<1>2. AppTypeOK' BY DEF AppInv, AppTypeOK, RacedGrows
<1>3. CallsInv' /\ AddsInv' /\ LiveInv' BY <1>1 DEF AppInv, CallsInv, AddsInv, LiveInv
<1>4. MapInv' BY <1>1 DEF AppInv, MapInv
<1>5. IndexedInv'
  <2> SUFFICES ASSUME NEW n \in AppNames, NEW r \in Repos, NEW e, e = appDirs'[r].apps[n], e # None,
                      NEW k \in KeysOf(e) \ raced'[r]
               PROVE  n \in Range(appDirs'[r].lists[k].names)
    BY DEF IndexedInv
  <2>1. e = appDirs[r].apps[n] /\ e \in AppSpecs BY DEF AppInv, AppTypeOK, AppDirType
  <2>2. k \in ListKeys \ raced[r] BY <2>1, KeysOfIs DEF RacedGrows
  <2> QED BY <2>1, <2>2 DEF AppInv, IndexedInv
<1>6. ExactInv'
  <2> SUFFICES ASSUME NEW n \in AppNames \ (missed \cup several), NEW r \in Repos, NEW k \in ListKeys \ raced[r]
               PROVE  Count(appDirs'[r].lists[k].names, n) =< Allowed(appDirs'[r].apps[n], k)
    BY DEF ExactInv, RacedGrows
  <2> QED BY DEF AppInv, ExactInv
<1> QED BY <1>2, <1>3, <1>4, <1>5, <1>6 DEF AppInv

LEMMA AppInvUnchanged ==
  ASSUME AppInv, UNCHANGED <<apps, appDirs, appTodo, several>>, RacedGrows,
         missed \subseteq missed', missed' \subseteq AppNames \cup SetNames
  PROVE  AppInv'
<1>1. appDirs' \in [Repos -> AppDirType] BY DEF AppInv, AppTypeOK
<1> QED BY <1>1, AppInvKept

LEMMA ListsStay ==
  ASSUME IndexedInv, ExactInv, UNCHANGED appDirs, RacedGrows, missed \subseteq missed', several \subseteq several'
  PROVE  IndexedInv' /\ ExactInv'
BY DEF IndexedInv, ExactInv, RacedGrows

(* A tombstone is missed, and changes the cluster only. *)
LEMMA AppInvTombstone ==
  ASSUME AppInv, NEW k \in AppKeys, AppTombstone(k), RacedGrows
  PROVE  AppInv'
<1> USE DEF AppTombstone
<1>1. Todo = {} /\ Todo' = {} /\ \A n : ~Removing(n) /\ ~Removing(n)' BY DEF Todo, Removing
<1>2. \A n : /\ Live(n)' \subseteq Live(n)
             /\ n # AppNameOf[k] => Live(n)' = Live(n) /\ Wanted(n)' = Wanted(n)
  BY DEF AppInv, AppTypeOK, Live, Wanted
<1>3. AppTypeOK' BY DEF AppInv, AppTypeOK, AppNames, RacedGrows
<1>4. CallsInv' /\ AddsInv' BY <1>1 DEF AppInv, AddsInv, CallsInv
<1>5. LiveInv' BY <1>2 DEF AppInv, LiveInv
<1>6. MapInv' BY <1>1, <1>2 DEF AppInv, MapInv
<1>7. IndexedInv' /\ ExactInv' BY ListsStay DEF AppInv
<1> QED BY <1>3, <1>4, <1>5, <1>6, <1>7 DEF AppInv

(* An event is missed, or becomes the calls that repair the directories. *)
LEMMA AppInvEvent ==
  ASSUME AppInv, NEW k \in AppKeys, NEW new \in AppSpecs \cup {None}, AppEvent(k, new), RacedGrows
  PROVE  AppInv'
<1> DEFINE m == AppNameOf[k]
           old == apps[k]
<1>0. m \in AppNames /\ old \in AppSpecs \cup {None} /\ old # new
  BY DEF AppInv, AppTypeOK, AppNames, AppEvent
<1>1. /\ missed' = IF AppMissed(k, new) THEN missed \cup {m} ELSE missed
      /\ several' = IF new # None /\ Len(new.sources) > 1 THEN several \cup {m} ELSE several
      /\ apps' = [apps EXCEPT ![k] = new] /\ UNCHANGED appDirs
  BY DEF AppEvent
<1>2. Todo = {} /\ \A n : ~Removing(n) BY DEF AppEvent, Todo, Removing
<1>3. EventCalls(appTodo', m, old, new) BY <1>0, AppCallsOf DEF AppEvent
<1>4. /\ \A c \in Todo' : /\ c.name = m /\ c.repo \in ReposOf(c.spec)
                          /\ \/ Removed(old, new) /\ c.op = "remove" /\ c.spec = old
                             \/ Added(old, new) /\ c.op = "add" /\ c.spec = new
      /\ Removed(old, new) => \A r \in ReposOf(old) : Call("remove", r, m, old) \in Todo'
      /\ Added(old, new) => \A r \in ReposOf(new) : Call("add", r, m, new) \in Todo'
  BY <1>3 DEF EventCalls, Todo
<1>5. ~CanProcessApp(None) BY DEF CanProcessApp
<1>6. \A n : n # m => Live(n)' = Live(n) /\ Wanted(n)' = Wanted(n)
  BY <1>1 DEF AppInv, AppTypeOK, Live, Wanted
<1>7. /\ old # None => old \in Live(m)
      /\ new # None => new \in Live(m)'
      /\ Live(m)' \subseteq Live(m) \cup {new}
  BY <1>1 DEF AppInv, AppTypeOK, Live
<1>8. ASSUME m \notin missed'
      PROVE  /\ Live(m) \subseteq {old} /\ Live(m)' \subseteq {new}
             /\ old # None /\ new # None => (CanProcessApp(old) <=> CanProcessApp(new))
  <2>1. ~AppMissed(k, new) BY <1>1, <1>8
  <2>2. \A x \in AppKeys \ {k} : AppNameOf[x] = m => apps[x] = None BY <2>1 DEF AppMissed
  <2>3. old # None /\ new # None => (CanProcessApp(old) <=> CanProcessApp(new)) BY <2>1 DEF AppMissed
  <2>4. Live(m) \subseteq {old} BY <2>2 DEF Live
  <2>5. \A x \in AppKeys \ {k} : AppNameOf[x] = m => apps'[x] = None
    BY <1>1, <2>2 DEF AppInv, AppTypeOK
  <2>6. apps'[k] = new BY <1>1 DEF AppInv, AppTypeOK
  <2>7. Live(m)' \subseteq {new} BY <2>5, <2>6 DEF Live
  <2> HIDE DEF m, old
  <2> QED BY <2>3, <2>4, <2>7
<1>9. ASSUME m \notin several' PROVE /\ old # None => Len(old.sources) = 1
                                     /\ new # None => Len(new.sources) = 1
  <2>1. m \notin several /\ ~(new # None /\ Len(new.sources) > 1) BY <1>1, <1>9
  <2>2. old # None => Len(old.sources) = 1 BY <1>0, <1>7, <2>1 DEF AppInv, LiveInv
  <2>3. ASSUME new # None PROVE Len(new.sources) = 1
    <3> DEFINE length == Len(new.sources)
    <3>1. new \in AppSpecs BY <2>3
    <3>2. length \in Nat \ {0} BY <3>1, SpecFacts
    <3>3. ~(length > 1) BY <2>1, <2>3
    <3> HIDE DEF length
    <3>4. length = 1 BY <3>2, <3>3
    <3> QED BY <3>4 DEF length
  <2> QED BY <2>2, <2>3
<1> HIDE DEF m, old
<1>10. AppTypeOK'
  <2>1. appTodo' \in Seq(AppCallType) BY <1>3 DEF EventCalls
  <2> QED BY <1>0, <1>1, <2>1 DEF AppInv, AppTypeOK, RacedGrows
<1>11. CallsInv'
  <2>1. \A c, d \in Todo' : c.name = d.name /\ (c.op = d.op => c.spec = d.spec) BY <1>4
  <2>2. \A c \in Todo' : c.repo \in ReposOf(c.spec) /\ (c.name \notin several' => Len(c.spec.sources) = 1)
    BY <1>4, <1>5, <1>9 DEF Removed, Added
  <2> QED BY <1>3, <2>1, <2>2 DEF CallsInv, EventCalls
<1>12. AddsInv'
  <2> SUFFICES ASSUME NEW c \in Todo', m \notin missed'
               PROVE  /\ c.op = "add" => c.spec \in Wanted(m)'
                      /\ c.op = "remove" =>
                           \A s \in Wanted(m)' : \A r \in ReposOf(s) : Call("add", r, m, s) \in Todo'
    BY <1>4 DEF AddsInv
  <2>1. c.op = "add" => c.spec \in Wanted(m)'
    BY <1>4, <1>5, <1>7 DEF Added, Wanted
  <2>2. ASSUME c.op = "remove", NEW s \in Wanted(m)'
        PROVE  \A r \in ReposOf(s) : Call("add", r, m, s) \in Todo'
    <3>1. s = new /\ CanProcessApp(new) BY <1>8, <2>2 DEF Wanted
    <3>2. CanProcessApp(old) BY <1>4, <2>2 DEF Removed
    <3> QED BY <1>4, <3>1, <3>2 DEF Added
  <2> QED BY <2>1, <2>2
<1>13. LiveInv'
  <2> SUFFICES ASSUME NEW n \in AppNames
               PROVE  /\ n \notin missed' => \A s, t \in Live(n)' : s = t
                      /\ n \notin several' => \A s \in Live(n)' : Len(s.sources) = 1
    BY DEF LiveInv
  <2>1. CASE n = m
    <3>1. n \notin missed' => \A s, t \in Live(n)' : s = t BY <1>8, <2>1
    <3>2. None \notin Live(n)' BY DEF Live
    <3>3. n \notin several' => \A s \in Live(n)' : Len(s.sources) = 1
      BY <1>0, <1>1, <1>7, <1>9, <2>1, <3>2 DEF AppInv, LiveInv
    <3> QED BY <3>1, <3>3
  <2>2. CASE n # m BY <1>1, <1>6, <2>2 DEF AppInv, LiveInv
  <2> QED BY <2>1, <2>2
<1>14. MapInv'
  <2> SUFFICES ASSUME NEW n \in AppNames \ missed', NEW r \in Repos, NEW e, e = appDirs[r].apps[n]
               PROVE  IF Removing(n)'
                      THEN e # None => Call("remove", r, n, e) \in Todo'
                      ELSE /\ e # None => e \in Wanted(n)' /\ r \in ReposOf(e)
                           /\ e = None => \A s \in Wanted(n)' : r \in ReposOf(s) => Call("add", r, n, s) \in Todo'
    BY <1>1 DEF MapInv
  <2>1. /\ e # None => e \in Wanted(n) /\ r \in ReposOf(e)
        /\ e = None => \A s \in Wanted(n) : r \notin ReposOf(s)
    BY <1>1, <1>2 DEF AppInv, MapInv
  <2>2. CASE n # m
    <3>1. ~Removing(n)' BY <1>4, <2>2 DEF Removing
    <3> QED BY <1>6, <2>1, <2>2, <3>1
  <2>3. CASE n = m /\ Removed(old, new)
    <3>1. old \in AppSpecs BY <1>0, <1>5, <2>3 DEF Removed
    <3>2. ReposOf(old) # {} BY <3>1, SpecFacts
    <3>3. Removing(n)' BY <1>4, <2>3, <3>2 DEF Removing, Call
    <3>4. e # None => e = old /\ r \in ReposOf(old) BY <1>8, <2>1, <2>3 DEF Wanted
    <3> QED BY <1>4, <2>3, <3>3, <3>4
  <2>4. CASE n = m /\ ~Removed(old, new)
    <3>1. ~Removing(n)' BY <1>4, <2>4 DEF Removing
    <3>2. ~CanProcessApp(old) BY <1>5, <1>8, <2>4 DEF Removed
    <3>3. e = None BY <1>8, <2>1, <2>4, <3>2 DEF Wanted
    <3>4. ASSUME NEW s \in Wanted(n)', r \in ReposOf(s) PROVE Call("add", r, n, s) \in Todo'
      <4>1. s = new /\ CanProcessApp(new) BY <1>8, <2>4, <3>4 DEF Wanted
      <4>2. Added(old, new) BY <1>5, <1>8, <2>4, <3>2, <4>1 DEF Added
      <4> QED BY <1>4, <2>4, <3>4, <4>1, <4>2
    <3> QED BY <3>1, <3>3, <3>4
  <2> QED BY <2>2, <2>3, <2>4
<1>15. missed \subseteq missed' /\ several \subseteq several' BY <1>1
<1>16. IndexedInv' /\ ExactInv' BY <1>1, <1>15, ListsStay DEF AppInv
<1> QED BY <1>10, <1>11, <1>12, <1>13, <1>14, <1>16 DEF AppInv

(* What is left to do after the first call. *)
LEMMA NextCall ==
  ASSUME AppInv, appTodo # << >>, appTodo' = Tail(appTodo)
  PROVE  /\ Head(appTodo) \in AppCallType /\ Head(appTodo) \in Todo
         /\ Todo = {Head(appTodo)} \cup Todo' /\ appTodo' \in Seq(AppCallType)
         /\ \A i, j \in DOMAIN appTodo' : i < j /\ appTodo'[i].op = "add" => appTodo'[j].op = "add"
         /\ Head(appTodo).op = "add" => \A d \in Todo : d.op = "add"
<1>1. appTodo \in Seq(AppCallType) BY DEF AppInv, AppTypeOK
<1>2. /\ DOMAIN appTodo = 1..Len(appTodo) /\ Len(appTodo) \in Nat \ {0} /\ Head(appTodo) = appTodo[1]
      /\ appTodo' \in Seq(AppCallType) /\ DOMAIN appTodo' = 1..Len(appTodo) - 1
      /\ \A i \in DOMAIN appTodo' : appTodo'[i] = appTodo[i + 1] /\ i + 1 \in DOMAIN appTodo
  BY <1>1
<1>3. \A i \in DOMAIN appTodo : i = 1 \/ (i - 1 \in DOMAIN appTodo' /\ appTodo'[i - 1] = appTodo[i])
  BY <1>2
<1>4. 1 \in DOMAIN appTodo /\ Head(appTodo) \in AppCallType BY <1>1, <1>2
<1>5. Todo = {Head(appTodo)} \cup Todo'
  <2>1. ASSUME NEW i \in DOMAIN appTodo PROVE appTodo[i] \in {Head(appTodo)} \cup Todo'
    <3>1. CASE i = 1 BY <1>2, <3>1
    <3>2. CASE i # 1 BY <1>3, <3>2 DEF Todo
    <3> QED BY <3>1, <3>2
  <2>2. Todo' \subseteq Todo BY <1>2 DEF Todo
  <2>3. Head(appTodo) \in Todo BY <1>2, <1>4 DEF Todo
  <2> QED BY <2>1, <2>2, <2>3 DEF Todo
<1>6. \A i, j \in DOMAIN appTodo : i < j /\ appTodo[i].op = "add" => appTodo[j].op = "add"
  BY DEF AppInv, CallsInv
<1>7. ASSUME NEW i \in DOMAIN appTodo', NEW j \in DOMAIN appTodo', i < j, appTodo'[i].op = "add"
      PROVE  appTodo'[j].op = "add"
  <2>1. i + 1 < j + 1 BY <1>2, <1>7
  <2> QED BY <1>2, <1>6, <1>7, <2>1
<1>8. ASSUME Head(appTodo).op = "add", NEW j \in DOMAIN appTodo PROVE appTodo[j].op = "add"
  BY <1>2, <1>4, <1>6, <1>8
<1>9. Head(appTodo).op = "add" => \A d \in Todo : d.op = "add" BY <1>8 DEF Todo
<1>10. Head(appTodo) \in Todo BY <1>5
<1>11. \A i, j \in DOMAIN appTodo' : i < j /\ appTodo'[i].op = "add" => appTodo'[j].op = "add"
  BY <1>7
<1> QED BY <1>2, <1>4, <1>5, <1>9, <1>10, <1>11

(* A call changes one name in one repository's directory. *)
LEMMA AppInvCall ==
  ASSUME AppInv, AppCall, RacedGrows
  PROVE  AppInv'
<1> DEFINE c == Head(appTodo)
           n == c.name
           d == appDirs[c.repo]
           e == appDirs'[c.repo]
<1>1. /\ c \in AppCallType /\ c \in Todo /\ Todo = {c} \cup Todo' /\ appTodo' \in Seq(AppCallType)
      /\ \A i, j \in DOMAIN appTodo' : i < j /\ appTodo'[i].op = "add" => appTodo'[j].op = "add"
      /\ c.op = "add" => \A x \in Todo : x.op = "add"
  BY NextCall DEF AppCall
<1>2. /\ c.repo \in Repos /\ n \in AppNames /\ c.spec \in AppSpecs /\ c.op \in {"add", "remove"}
      /\ d \in AppDirType
  BY <1>1 DEF AppInv, AppTypeOK, AppCallType
<1>3. /\ UNCHANGED <<apps, missed, several>>
      /\ appDirs' = [appDirs EXCEPT ![c.repo] = IF c.op = "add" THEN AddApp(d, n, c.spec)
                                                ELSE RemoveApp(d, n, c.spec)]
  BY DEF AppCall
<1>4. /\ e = IF c.op = "add" THEN AddApp(d, n, c.spec) ELSE RemoveApp(d, n, c.spec)
      /\ \A r \in Repos \ {c.repo} : appDirs'[r] = appDirs[r]
  BY <1>2, <1>3 DEF AppInv, AppTypeOK
<1>5. /\ e \in AppDirType /\ SameElsewhere(d, e, n)
  <2> HIDE DEF c, d, e
  <2> QED BY <1>2, <1>4, AddAppDoes, RemoveAppDoes
<1> HIDE DEF c, n, d, e
<1>6. /\ \A x \in Todo : x.name = n
      /\ \A x, y \in Todo : x.op = y.op => x.spec = y.spec
      /\ \A x \in Todo : x.repo \in ReposOf(x.spec)
      /\ n \notin several => Len(c.spec.sources) = 1
      /\ n \notin missed => (c.op = "add" => c.spec \in Wanted(n))
  BY <1>1 DEF AppInv, CallsInv, AddsInv, n
<1>7. Todo' \subseteq Todo BY <1>1
<1>8. \A x : Live(x)' = Live(x) /\ Wanted(x)' = Wanted(x) BY <1>3 DEF Live, Wanted
<1>9. AppTypeOK' BY <1>1, <1>2, <1>3, <1>4, <1>5 DEF AppInv, AppTypeOK, RacedGrows
<1>10. CallsInv' BY <1>1, <1>3, <1>7 DEF AppInv, CallsInv
<1>11. LiveInv' BY <1>3, <1>8 DEF AppInv, LiveInv
<1>12. AddsInv'
  <2> SUFFICES ASSUME NEW x \in Todo', n \notin missed
               PROVE  /\ x.op = "add" => x.spec \in Wanted(n)
                      /\ x.op = "remove" =>
                           \A s \in Wanted(n) : \A r \in ReposOf(s) : Call("add", r, n, s) \in Todo'
    BY <1>3, <1>6, <1>7, <1>8 DEF AddsInv
  <2>1. /\ x.op = "add" => x.spec \in Wanted(n)
        /\ x.op = "remove" => \A s \in Wanted(n) : \A r \in ReposOf(s) : Call("add", r, n, s) \in Todo
    BY <1>6, <1>7 DEF AppInv, AddsInv
  <2>2. x.op = "remove" => c.op = "remove" BY <1>1, <1>2, <1>7
  <2>3. c.op = "remove" => \A r, s : Call("add", r, n, s) # c BY DEF Call
  <2> QED BY <1>1, <2>1, <2>2, <2>3
<1>13. MapInv'
  <2> SUFFICES ASSUME NEW m \in AppNames \ missed, NEW r \in Repos, NEW f, f = appDirs'[r].apps[m]
               PROVE  IF Removing(m)'
                      THEN f # None => Call("remove", r, m, f) \in Todo'
                      ELSE /\ f # None => f \in Wanted(m) /\ r \in ReposOf(f)
                           /\ f = None => \A s \in Wanted(m) : r \in ReposOf(s) => Call("add", r, m, s) \in Todo'
    BY <1>3, <1>8 DEF MapInv
  <2> DEFINE g == appDirs[r].apps[m]
  <2>1. IF Removing(m)
        THEN g # None => Call("remove", r, m, g) \in Todo
        ELSE /\ g # None => g \in Wanted(m) /\ r \in ReposOf(g)
             /\ g = None => \A s \in Wanted(m) : r \in ReposOf(s) => Call("add", r, m, s) \in Todo
    BY DEF AppInv, MapInv
  <2>2. f = g \/ (m = n /\ r = c.repo) BY <1>4, <1>5 DEF SameElsewhere, d, e
  <2> HIDE DEF g
  <2>3. CASE m # n
    <3>1. ~Removing(m) /\ ~Removing(m)' BY <1>6, <1>7, <2>3 DEF Removing
    <3>2. \A s : Call("add", r, m, s) # c BY <2>3 DEF Call, n
    <3> QED BY <1>1, <2>1, <2>2, <2>3, <3>1, <3>2
  <2>4. CASE m = n /\ c.op = "add"
    <3>1. ~Removing(m) /\ ~Removing(m)' BY <1>1, <1>7, <2>4 DEF Removing
    <3>2. CASE r = c.repo
      <4>1. c.spec \in Wanted(m) /\ r \in ReposOf(c.spec) BY <1>1, <1>6, <2>4, <3>2
      <4>2. f = IF g # None THEN g ELSE c.spec
        BY <1>2, <1>4, <2>4, <3>2, AddAppDoes DEF g, d, e
      <4>3. c.spec # None BY <1>2, SpecFacts
      <4>4. f # None /\ f \in Wanted(m) /\ r \in ReposOf(f) BY <2>1, <3>1, <4>1, <4>2, <4>3
      <4> QED BY <3>1, <4>4
    <3>3. CASE r # c.repo
      <4>1. f = g BY <2>2, <3>3
      <4>2. \A s : Call("add", r, m, s) # c BY <3>3 DEF Call
      <4> QED BY <1>1, <2>1, <3>1, <4>1, <4>2
    <3> QED BY <3>2, <3>3
  <2>5. CASE m = n /\ c.op = "remove"
    <3>1. Removing(m) BY <1>1, <2>5 DEF Removing, n
    <3>2. r = c.repo => f = None
      <4>1. e = RemoveApp(d, n, c.spec) BY <1>4, <2>5
      <4>2. e.apps[n] = None BY <1>2, <4>1, RemoveAppDoes
      <4> QED BY <2>5, <4>2 DEF e
    <3>3. \A s : r # c.repo => Call("remove", r, m, s) # c BY DEF Call
    <3>4. f # None => Call("remove", r, m, f) \in Todo' BY <1>1, <2>1, <2>2, <3>1, <3>2, <3>3
    <3>5. ~Removing(m)' => f = None BY <3>4 DEF Removing, Call
    <3>6. \A s \in Wanted(m) : r \in ReposOf(s) => Call("add", r, m, s) \in Todo'
      <4>1. \A s \in Wanted(m) : r \in ReposOf(s) => Call("add", r, m, s) \in Todo
        BY <1>1, <2>5 DEF AppInv, AddsInv, n
      <4>2. \A s : Call("add", r, m, s) # c BY <2>5 DEF Call
      <4> QED BY <1>1, <4>1, <4>2
    <3> QED BY <3>4, <3>5, <3>6
  <2> QED BY <1>2, <2>3, <2>4, <2>5
<1>14. ASSUME NEW m \in AppNames, NEW r \in Repos, m # n \/ r # c.repo
       PROVE  /\ appDirs'[r].apps[m] = appDirs[r].apps[m]
              /\ \A k \in ListKeys :
                   /\ m \in Range(appDirs'[r].lists[k].names) <=> m \in Range(appDirs[r].lists[k].names)
                   /\ Count(appDirs'[r].lists[k].names, m) =< Count(appDirs[r].lists[k].names, m)
  <2>1. CASE r # c.repo
    <3>1. appDirs'[r] = appDirs[r] /\ appDirs[r] \in AppDirType BY <1>4, <2>1 DEF AppInv, AppTypeOK
    <3>2. \A k \in ListKeys : appDirs[r].lists[k].names \in Seq(AppNames) BY <3>1 DEF AppDirType, ListType
    <3>3. \A k \in ListKeys : Count(appDirs[r].lists[k].names, m) \in Nat BY <3>2, CountIs
    <3> QED BY <3>1, <3>3
  <2>2. CASE r = c.repo
    <3>1. m \in AppNames \ {n} BY <1>14, <2>2
    <3>2. /\ e.apps[m] = d.apps[m]
          /\ \A k \in ListKeys : Grown(d.lists[k], e.lists[k], n) \/ Shrunk(d.lists[k], e.lists[k], n)
      BY <1>5, <3>1 DEF SameElsewhere
    <3>3. \A k \in ListKeys : d.lists[k] \in ListType(AppNames) /\ e.lists[k] \in ListType(AppNames)
      BY <1>2, <1>5 DEF AppDirType
    <3>4. \A k \in ListKeys : /\ m \in Range(e.lists[k].names) <=> m \in Range(d.lists[k].names)
                              /\ Count(e.lists[k].names, m) =< Count(d.lists[k].names, m)
      <4> SUFFICES ASSUME NEW k \in ListKeys
                   PROVE  /\ m \in Range(e.lists[k].names) <=> m \in Range(d.lists[k].names)
                          /\ Count(e.lists[k].names, m) =< Count(d.lists[k].names, m)
        OBVIOUS
      <4> DEFINE old == d.lists[k]
                 new == e.lists[k]
      <4>1. old \in ListType(AppNames) /\ new \in ListType(AppNames) /\ (Grown(old, new, n) \/ Shrunk(old, new, n)) /\ m # n
        BY <3>1, <3>2, <3>3
      <4> HIDE DEF old, new
      <4>2. (m \in Range(new.names) <=> m \in Range(old.names)) /\ Count(new.names, m) =< Count(old.names, m)
        <5>1. CASE Grown(old, new, n) BY <4>1, <5>1, OthersStay
        <5>2. CASE Shrunk(old, new, n) BY <4>1, <5>2, OthersStay
        <5> QED BY <4>1, <5>1, <5>2
      <4> QED BY <4>2 DEF old, new
    <3> QED BY <2>2, <3>2, <3>4 DEF d, e
  <2> QED BY <2>1, <2>2
<1>15. \A k \in ListKeys, m \in AppNames, r \in Repos : /\ Count(appDirs[r].lists[k].names, m) \in Nat
                                                       /\ Count(appDirs'[r].lists[k].names, m) \in Nat
  <2>1. \A k \in ListKeys, r \in Repos : /\ appDirs[r].lists[k].names \in Seq(AppNames)
                                        /\ appDirs'[r].lists[k].names \in Seq(AppNames)
    BY <1>9 DEF AppInv, AppTypeOK, AppDirType, ListType
  <2> QED BY <2>1, CountIs
<1>16. \A r \in Repos, m \in AppNames : appDirs[r].apps[m] \in AppSpecs \cup {None}
  BY DEF AppInv, AppTypeOK, AppDirType
<1>17. \A k \in ListKeys, r \in Repos, m \in AppNames : Allowed(appDirs[r].apps[m], k) \in Nat
  BY <1>16, SpecFacts, MentionsIs DEF Allowed
<1>18. ASSUME NEW m \in AppNames, NEW r \in Repos, m # n \/ r # c.repo, appDirs'[r].apps[m] # None,
              NEW k \in KeysOf(appDirs'[r].apps[m]) \ raced'[r]
       PROVE  m \in Range(appDirs'[r].lists[k].names)
  <2>1. appDirs'[r].apps[m] = appDirs[r].apps[m] /\ appDirs[r].apps[m] \in AppSpecs BY <1>14, <1>16, <1>18
  <2>2. k \in ListKeys \ raced[r] BY <1>18, <2>1, KeysOfIs DEF RacedGrows
  <2>3. m \in Range(appDirs[r].lists[k].names) BY <1>18, <2>1, <2>2 DEF AppInv, IndexedInv
  <2> QED BY <1>14, <1>18, <2>2, <2>3
<1>19. ASSUME NEW m \in AppNames \ (missed \cup several), NEW r \in Repos, m # n \/ r # c.repo,
              NEW k \in ListKeys \ raced[r]
       PROVE  Count(appDirs'[r].lists[k].names, m) =< Allowed(appDirs'[r].apps[m], k)
  <2>1. /\ appDirs'[r].apps[m] = appDirs[r].apps[m]
        /\ Count(appDirs'[r].lists[k].names, m) =< Count(appDirs[r].lists[k].names, m)
    BY <1>14, <1>19
  <2>2. Count(appDirs[r].lists[k].names, m) =< Allowed(appDirs[r].apps[m], k) BY DEF AppInv, ExactInv
  <2> QED BY <1>15, <1>17, <2>1, <2>2
<1>20. ASSUME e.apps[n] # None => \A k \in KeysOf(e.apps[n]) \ raced[c.repo] : n \in Range(e.lists[k].names),
              n \notin missed \cup several =>
                \A k \in ListKeys \ raced[c.repo] : Count(e.lists[k].names, n) =< Allowed(e.apps[n], k)
       PROVE  IndexedInv' /\ ExactInv'
  <2>1. IndexedInv'
    <3> SUFFICES ASSUME NEW m \in AppNames, NEW r \in Repos, appDirs'[r].apps[m] # None,
                        NEW k \in KeysOf(appDirs'[r].apps[m]) \ raced'[r]
                 PROVE  m \in Range(appDirs'[r].lists[k].names)
      BY DEF IndexedInv
    <3>1. CASE m = n /\ r = c.repo BY <1>2, <1>20, <3>1 DEF e, RacedGrows
    <3>2. CASE m # n \/ r # c.repo BY <1>18, <3>2
    <3> QED BY <3>1, <3>2
  <2>2. ExactInv'
    <3> SUFFICES ASSUME NEW m \in AppNames \ (missed \cup several), NEW r \in Repos, NEW k \in ListKeys \ raced[r]
                 PROVE  Count(appDirs'[r].lists[k].names, m) =< Allowed(appDirs'[r].apps[m], k)
      BY <1>3 DEF ExactInv, RacedGrows
    <3>1. CASE m = n /\ r = c.repo BY <1>20, <3>1 DEF e
    <3>2. CASE m # n \/ r # c.repo BY <1>19, <3>2
    <3> QED BY <3>1, <3>2
  <2> QED BY <2>1, <2>2
<1>21. /\ d.apps[n] # None => \A k \in KeysOf(d.apps[n]) \ raced[c.repo] : n \in Range(d.lists[k].names)
       /\ n \notin missed \cup several =>
            \A k \in ListKeys \ raced[c.repo] : Count(d.lists[k].names, n) =< Allowed(d.apps[n], k)
  BY <1>2 DEF AppInv, IndexedInv, ExactInv, d
<1>22. \A k \in ListKeys : d.lists[k] \in ListType(AppNames) /\ e.lists[k] \in ListType(AppNames)
  BY <1>2, <1>5 DEF AppDirType
<1>23. CASE c.op = "add" /\ d.apps[n] # None
  <2>1. e = d BY <1>2, <1>4, <1>23, AddAppDoes
  <2>2. IndexedInv' /\ ExactInv' BY <1>20, <1>21, <2>1
  <2> QED BY <1>9, <1>10, <1>11, <1>12, <1>13, <2>2 DEF AppInv
<1>24. CASE c.op = "add" /\ d.apps[n] = None
  <2>1. /\ e.apps[n] = c.spec /\ c.spec # None
        /\ \A k \in ListKeys : e.lists[k] = Extended(d.lists[k], n, Mentions(c.spec.sources, k))
    <3>1. e = AddApp(d, n, c.spec) BY <1>4, <1>24
    <3>2. c.spec # None BY <1>2, SpecFacts
    <3> QED BY <1>2, <1>24, <3>1, <3>2, AddAppDoes
  <2>2. \A k \in ListKeys : Mentions(c.spec.sources, k) \in Nat BY <1>2, SpecFacts, MentionsIs
  <2>3. \A k \in ListKeys :
          /\ Mentions(c.spec.sources, k) > 0 => n \in Range(e.lists[k].names)
          /\ n \notin Range(d.lists[k].names) => Count(e.lists[k].names, n) =< Mentions(c.spec.sources, k)
    BY <1>2, <1>22, <2>1, <2>2, ExtendedCount
  <2>4. \A k \in KeysOf(c.spec) : n \in Range(e.lists[k].names) BY <1>2, <2>3, KeysOfIs
  <2>5. ASSUME n \notin missed \cup several, NEW k \in ListKeys \ raced[c.repo]
        PROVE  Count(e.lists[k].names, n) =< Allowed(e.apps[n], k)
    <3>1. Count(d.lists[k].names, n) =< 0 BY <1>21, <1>24, <2>5 DEF Allowed
    <3>2. d.lists[k].names \in Seq(AppNames) BY <1>22 DEF ListType
    <3>3. n \notin Range(d.lists[k].names) BY <3>1, <3>2, CountIs
    <3> QED BY <2>1, <2>3, <3>3 DEF Allowed
  <2>6. IndexedInv' /\ ExactInv' BY <1>20, <2>1, <2>4, <2>5
  <2> QED BY <1>9, <1>10, <1>11, <1>12, <1>13, <2>6 DEF AppInv
<1>25. CASE c.op = "remove"
  <2>1. /\ e.apps[n] = None
        /\ \A k \in ListKeys : Count(d.lists[k].names, n) =< Mentions(<<c.spec.sources[1]>>, k) =>
             n \notin Range(e.lists[k].names)
    BY <1>2, <1>4, <1>25, RemoveAppDoes
  <2>2. ASSUME n \notin missed \cup several, NEW k \in ListKeys \ raced[c.repo]
        PROVE  Count(e.lists[k].names, n) =< Allowed(e.apps[n], k)
    <3>1. Removing(n) BY <1>1, <1>25 DEF Removing, n
    <3>2. d.apps[n] # None => Call("remove", c.repo, n, d.apps[n]) \in Todo
      BY <1>2, <2>2, <3>1 DEF AppInv, MapInv, d
    <3>3. d.apps[n] # None => d.apps[n] = c.spec BY <1>1, <1>6, <1>25, <3>2 DEF Call
    <3>4. c.spec.sources = <<c.spec.sources[1]>> BY <1>2, <1>6, <2>2, SpecFacts
    <3>5. Count(d.lists[k].names, n) =< Allowed(d.apps[n], k) BY <1>21, <2>2
    <3>6. Mentions(c.spec.sources, k) \in Nat BY <1>2, SpecFacts, MentionsIs
    <3>7. d.lists[k].names \in Seq(AppNames) /\ e.lists[k].names \in Seq(AppNames) BY <1>22 DEF ListType
    <3>8. Count(d.lists[k].names, n) \in Nat /\ Count(e.lists[k].names, n) \in Nat BY <3>7, CountIs
    <3>9. Count(d.lists[k].names, n) =< Mentions(<<c.spec.sources[1]>>, k) BY <3>3, <3>4, <3>5, <3>6, <3>8 DEF Allowed
    <3>10. n \notin Range(e.lists[k].names) BY <2>1, <3>9
    <3>11. Count(e.lists[k].names, n) = 0 BY <3>7, <3>8, <3>10, CountIs
    <3> QED BY <2>1, <3>11 DEF Allowed
  <2>3. IndexedInv' /\ ExactInv' BY <1>20, <2>1, <2>2
  <2> QED BY <1>9, <1>10, <1>11, <1>12, <1>13, <2>3 DEF AppInv
<1> QED BY <1>2, <1>23, <1>24, <1>25

-----------------------------------------------------------------------------
(***************************************************************************)
(* What the ApplicationSet watcher keeps true.                             *)
(***************************************************************************)

SetDirType == [sets : [SetNames -> SetSpecs \cup {None}],
               lists : [PatternKeys -> ListType(SetNames)]]
SetCallType == [op : {"add", "remove"}, repo : Repos, name : SetNames, spec : SetSpecs]

SetTypeOK ==
  /\ sets \in [SetNames -> SetSpecs \cup {None}]
  /\ missed \subseteq AppNames \cup SetNames
  /\ setDirs \in [Repos -> SetDirType]

(* An event removes an old spec, or adds the new one, or does both. *)
SetCallsInv ==
  \/ setTodo = << >>
  \/ \E n \in SetNames, s \in SetSpecs :
       /\ setTodo = <<SetCall("remove", n, s)>>
       /\ n \notin missed => sets[n] = None
  \/ \E n \in SetNames, s \in SetSpecs :
       /\ setTodo = <<SetCall("add", n, s)>>
       /\ n \notin missed => s = sets[n] /\ CanProcessAppSet(s)
  \/ \E n \in SetNames, s, t \in SetSpecs :
       /\ setTodo = <<SetCall("remove", n, s), SetCall("add", n, t)>>
       /\ n \notin missed => t = sets[n] /\ CanProcessAppSet(t)

(* The map of a repository is the cluster's, but for the call to be made. *)
SetMapInv ==
  \A n \in SetNames \ missed, r \in Repos :
    LET e == setDirs[r].sets[n]
        c == Head(setTodo)
    IN IF setTodo # << >> /\ c.name = n /\ c.op = "remove"
       THEN e # None => c.repo = r
       ELSE /\ e # None => e = sets[n] /\ CanProcessAppSet(e) /\ e.repo = r
            /\ e = None /\ CanProcessAppSet(sets[n]) /\ sets[n].repo = r =>
                 setTodo # << >> /\ c = SetCall("add", n, sets[n])

(* The patterns of what is in the map are in the index. *)
SetIndexedInv ==
  \A n \in SetNames, r \in Repos :
    LET s == setDirs[r].sets[n] IN
    s # None =>
      \A g \in Generators(s) : Visible(g) =>
        \A e \in Entries(g) : ~e.exclude =>
          n \in Range(setDirs[r].lists[[kind |-> e.kind, path |-> e.path]].names)

SetInv == SetTypeOK /\ SetCallsInv /\ SetMapInv /\ SetIndexedInv

-----------------------------------------------------------------------------
(* An ApplicationSet is in a repository, and its patterns are in the index. *)
LEMMA SetSpecFacts ==
  ASSUME NEW s \in SetSpecs
  PROVE  /\ s # None /\ s.repo \in Repos
         /\ \A g \in Generators(s) : \A e \in Entries(g) : [kind |-> e.kind, path |-> e.path] \in PatternKeys
BY SpecAssumption DEF Repos, PatternKeys

(* How often registerGitGen registers a pattern. *)
LEMMA EntryCounts ==
  ASSUME NEW s \in SetSpecs, NEW excluded \in BOOLEAN
  PROVE  /\ \A p \in PatternKeys : EntriesAt(s, p, excluded) \in Nat
         /\ \A g \in Generators(s) : Visible(g) =>
              \A e \in Entries(g) : ~e.exclude => EntriesAt(s, [kind |-> e.kind, path |-> e.path], excluded) > 0
<1> DEFINE at == UNION {{i} \X DOMAIN s.gens[i].entries : i \in DOMAIN s.gens}
           Found(p) == {ij \in at : LET e == s.gens[ij[1]].entries[ij[2]] IN
                                    /\ Visible(s.gens[ij[1]])
                                    /\ e.kind = p.kind /\ e.path = p.path
                                    /\ e.exclude => excluded}
<1>1. s.gens \in Seq(Generators(s)) /\ \A g \in Generators(s) : g.entries \in Seq(Entries(g))
  BY SpecAssumption
<1>2. DOMAIN s.gens = 1..Len(s.gens) /\ Len(s.gens) \in Nat BY <1>1
<1>3. IsFiniteSet(at)
  <2>1. IsFiniteSet(DOMAIN s.gens) BY <1>2, FS_Interval
  <2>2. ASSUME NEW i \in DOMAIN s.gens PROVE IsFiniteSet({i} \X DOMAIN s.gens[i].entries)
    <3>1. s.gens[i] \in Generators(s) BY DEF Generators
    <3>2. s.gens[i].entries \in Seq(Entries(s.gens[i])) BY <1>1, <3>1
    <3>3. DOMAIN s.gens[i].entries = 1..Len(s.gens[i].entries) /\ Len(s.gens[i].entries) \in Nat BY <3>2
    <3>4. IsFiniteSet(DOMAIN s.gens[i].entries) BY <3>3, FS_Interval
    <3> QED BY <3>4, FS_Singleton, FS_Product
  <2> DEFINE of == [i \in DOMAIN s.gens |-> {i} \X DOMAIN s.gens[i].entries]
             all == {{i} \X DOMAIN s.gens[i].entries : i \in DOMAIN s.gens}
  <2>3. of \in Surjection(DOMAIN s.gens, all) BY DEF Surjection
  <2>4. \A S \in all : IsFiniteSet(S) BY <2>2
  <2> HIDE DEF of, all
  <2>5. IsFiniteSet(all) BY <2>1, <2>3, FS_Surjection
  <2>6. IsFiniteSet(UNION all) BY <2>4, <2>5, FS_UNION
  <2> QED BY <2>6 DEF all
<1>4. \A p : EntriesAt(s, p, excluded) = Cardinality(Found(p)) BY DEF EntriesAt
<1>5. \A p : Cardinality(Found(p)) \in Nat /\ (Cardinality(Found(p)) > 0 <=> Found(p) # {})
  <2> HIDE DEF at
  <2> QED BY <1>3, CountOfSubset
<1>6. ASSUME NEW g \in Generators(s), Visible(g), NEW e \in Entries(g), ~e.exclude
      PROVE  Found([kind |-> e.kind, path |-> e.path]) # {}
  <2>1. PICK i \in DOMAIN s.gens : g = s.gens[i] BY DEF Generators
  <2>2. PICK j \in DOMAIN g.entries : e = g.entries[j] BY DEF Entries
  <2>3. <<i, j>> \in {i} \X DOMAIN s.gens[i].entries BY <2>1, <2>2
  <2>4. <<i, j>> \in at BY <2>3
  <2>5. <<i, j>> \in Found([kind |-> e.kind, path |-> e.path]) BY <1>6, <2>1, <2>2, <2>4
  <2> QED BY <2>5
<1> HIDE DEF Found
<1> QED BY <1>4, <1>5, <1>6

Registered(s, p) == EntriesAt(s, p, FALSE)

(* What ProcessAppSet registers: what is not excluded. *)
LEMMA RegisteredCounts ==
  ASSUME NEW s \in SetSpecs
  PROVE  /\ \A p \in PatternKeys : Registered(s, p) \in Nat
         /\ \A g \in Generators(s) : Visible(g) =>
              \A e \in Entries(g) : ~e.exclude => Registered(s, [kind |-> e.kind, path |-> e.path]) > 0
BY EntryCounts DEF Registered

(* ProcessAppSet and RemoveAppSet change one name. *)
SameSetsElsewhere(d, e, n) ==
  /\ \A m \in SetNames \ {n} : e.sets[m] = d.sets[m]
  /\ \A p \in PatternKeys : Grown(d.lists[p], e.lists[p], n) \/ Shrunk(d.lists[p], e.lists[p], n)

LEMMA ProcessAppSetDoes ==
  ASSUME NEW d \in SetDirType, NEW n \in SetNames, NEW s \in SetSpecs
  PROVE  LET a == ProcessAppSet(d, n, s) IN
         /\ a \in SetDirType /\ SameSetsElsewhere(d, a, n)
         /\ a.sets[n] = IF d.sets[n] # None THEN d.sets[n] ELSE s
         /\ \A p \in PatternKeys : n \in Range(d.lists[p].names) \/ Registered(s, p) > 0 => n \in Range(a.lists[p].names)
<1> DEFINE lists == [p \in PatternKeys |-> Extended(d.lists[p], n, Registered(s, p))]
           a == ProcessAppSet(d, n, s)
<1>1. \A p \in PatternKeys : Registered(s, p) \in Nat BY RegisteredCounts
<1>2. d.lists \in [PatternKeys -> ListType(SetNames)] /\ d.sets \in [SetNames -> SetSpecs \cup {None}]
  BY DEF SetDirType
<1>3. a = [sets |-> IF d.sets[n] # None THEN d.sets ELSE [d.sets EXCEPT ![n] = s], lists |-> lists]
  BY DEF ProcessAppSet, Registered
<1>4. \A p \in PatternKeys : lists[p] = Extended(d.lists[p], n, Registered(s, p)) OBVIOUS
<1>5. \A p \in PatternKeys : lists[p] \in ListType(SetNames) /\ Grown(d.lists[p], lists[p], n)
  BY <1>1, <1>2, ExtendedIs
<1>6. \A p \in PatternKeys : n \in Range(d.lists[p].names) \/ Registered(s, p) > 0 => n \in Range(lists[p].names)
  BY <1>1, <1>2, <1>4, ExtendedCount
<1>7. lists \in [PatternKeys -> ListType(SetNames)] BY <1>5
<1> HIDE DEF lists, a
<1>8. a \in SetDirType BY <1>2, <1>3, <1>7 DEF SetDirType
<1>9. /\ a.sets[n] = IF d.sets[n] # None THEN d.sets[n] ELSE s
      /\ \A m \in SetNames \ {n} : a.sets[m] = d.sets[m]
  <2>1. CASE d.sets[n] # None BY <1>3, <2>1
  <2>2. CASE d.sets[n] = None BY <1>2, <1>3, <2>2
  <2> QED BY <2>1, <2>2
<1>10. a.lists = lists BY <1>3
<1> QED BY <1>5, <1>6, <1>8, <1>9, <1>10 DEF a, SameSetsElsewhere

LEMMA RemoveAppSetDoes ==
  ASSUME NEW d \in SetDirType, NEW n \in SetNames, NEW s \in SetSpecs
  PROVE  LET a == RemoveAppSet(d, n, s) IN
         a \in SetDirType /\ SameSetsElsewhere(d, a, n) /\ a.sets[n] = None
<1> DEFINE at(p) == EntriesAt(s, p, TRUE)
           lists == [p \in PatternKeys |-> Reduced(d.lists[p], n, at(p))]
           a == RemoveAppSet(d, n, s)
<1>1. \A p \in PatternKeys : at(p) \in Nat BY EntryCounts
<1>2. d.lists \in [PatternKeys -> ListType(SetNames)] /\ d.sets \in [SetNames -> SetSpecs \cup {None}]
  BY DEF SetDirType
<1>3. a = [sets |-> [d.sets EXCEPT ![n] = None], lists |-> lists] BY DEF RemoveAppSet
<1> HIDE DEF at
<1>4. \A p \in PatternKeys : lists[p] \in ListType(SetNames) /\ Shrunk(d.lists[p], lists[p], n)
  BY <1>1, <1>2, ReducedIs
<1>5. lists \in [PatternKeys -> ListType(SetNames)] BY <1>4
<1> HIDE DEF lists, a
<1>6. a \in SetDirType BY <1>2, <1>3, <1>5 DEF SetDirType
<1> QED BY <1>2, <1>3, <1>4, <1>6 DEF a, SameSetsElsewhere

-----------------------------------------------------------------------------
(* The invariant of the ApplicationSet watcher, step by step. *)
LEMMA SetInvInit == DirsInit => SetInv
<1> SUFFICES ASSUME DirsInit PROVE SetInv OBVIOUS
<1> USE DEF DirsInit
<1>1. \A r \in Repos : setDirs[r] = NoSets OBVIOUS
<1>2. NoSets \in SetDirType /\ \A n \in SetNames : NoSets.sets[n] = None
  <2>1. NoList \in ListType(SetNames) BY DEF NoList, ListType
  <2> QED BY <2>1 DEF NoSets, SetDirType
<1>3. SetTypeOK BY <1>1, <1>2 DEF SetTypeOK
<1>4. SetCallsInv BY DEF SetCallsInv
<1>5. SetMapInv BY <1>1, <1>2 DEF SetMapInv, CanProcessAppSet
<1>6. SetIndexedInv BY <1>1, <1>2 DEF SetIndexedInv
<1> QED BY <1>3, <1>4, <1>5, <1>6 DEF SetInv

LEMMA SetInvUnchanged ==
  ASSUME SetInv, UNCHANGED <<sets, setDirs, setTodo>>,
         missed \subseteq missed', missed' \subseteq AppNames \cup SetNames
  PROVE  SetInv'
<1>1. SetTypeOK' BY DEF SetInv, SetTypeOK
<1>2. SetCallsInv'
  <2> SUFFICES SetCallsInv => SetCallsInv' BY DEF SetInv
  <2> QED BY DEF SetCallsInv
<1>3. SetMapInv' BY DEF SetInv, SetMapInv
<1>4. SetIndexedInv' BY DEF SetInv, SetIndexedInv
<1> QED BY <1>1, <1>2, <1>3, <1>4 DEF SetInv

LEMMA SetInvTombstone ==
  ASSUME SetInv, NEW n \in SetNames, SetTombstone(n)
  PROVE  SetInv'
<1> USE DEF SetTombstone
<1>1. SetTypeOK' BY DEF SetInv, SetTypeOK
<1>2. SetCallsInv' BY DEF SetCallsInv
<1>3. \A m \in SetNames : m # n => sets'[m] = sets[m] BY DEF SetInv, SetTypeOK
<1>4. SetMapInv' BY <1>3 DEF SetInv, SetMapInv
<1>5. SetIndexedInv' BY DEF SetInv, SetIndexedInv
<1> QED BY <1>1, <1>2, <1>4, <1>5 DEF SetInv

(* An event is missed, or becomes one or two calls. *)
LEMMA SetInvEvent ==
  ASSUME SetInv, NEW n \in SetNames, NEW new \in SetSpecs \cup {None}, SetEvent(n, new)
  PROVE  SetInv'
<1> DEFINE old == sets[n]
<1>1. /\ setTodo = << >> /\ new # old /\ sets' = [sets EXCEPT ![n] = new] /\ UNCHANGED setDirs
      /\ setTodo' = SetCalls(n, old, new)
      /\ missed' = IF SetMissed(old, new) THEN missed \cup {n} ELSE missed
  BY DEF SetEvent
<1>2. old \in SetSpecs \cup {None} /\ sets \in [SetNames -> SetSpecs \cup {None}] BY DEF SetInv, SetTypeOK
<1>3. sets'[n] = new /\ \A m \in SetNames : m # n => sets'[m] = sets[m] BY <1>1, <1>2
<1>4. ~CanProcessAppSet(None) BY DEF CanProcessAppSet
<1>5. \A m \in SetNames \ missed, r \in Repos :
        LET e == setDirs[r].sets[m] IN
        /\ e # None => e = sets[m] /\ CanProcessAppSet(e) /\ e.repo = r
        /\ e = None => ~(CanProcessAppSet(sets[m]) /\ sets[m].repo = r)
  BY <1>1 DEF SetInv, SetMapInv
<1> HIDE DEF old
<1>6. SetTypeOK' BY <1>1, <1>2 DEF SetInv, SetTypeOK
<1>7. SetIndexedInv' BY <1>1 DEF SetInv, SetIndexedInv
<1>8. \A m \in SetNames \ missed', r \in Repos :
        m # n =>
          LET e == setDirs'[r].sets[m] IN
          /\ e # None => e = sets'[m] /\ CanProcessAppSet(e) /\ e.repo = r
          /\ e = None => ~(CanProcessAppSet(sets'[m]) /\ sets'[m].repo = r)
  BY <1>1, <1>3, <1>5
<1>9. ASSUME n \notin missed'
      PROVE  /\ n \notin missed
             /\ old # None /\ new # None =>
                  (CanProcessAppSet(old) <=> CanProcessAppSet(new)) /\ TemplateOf(old) # TemplateOf(new)
  BY <1>1, <1>9 DEF SetMissed
<1>10. CASE old = None /\ CanProcessAppSet(new)
  <2>1. setTodo' = <<SetCall("add", n, new)>> /\ new \in SetSpecs BY <1>1, <1>4, <1>10 DEF SetCalls
  <2>2. SetCallsInv' BY <1>3, <1>10, <2>1 DEF SetCallsInv
  <2>3. Head(setTodo') = SetCall("add", n, new) /\ setTodo' # << >> BY <2>1
  <2>4. SetMapInv'
    <3> SUFFICES ASSUME NEW m \in SetNames \ missed', NEW r \in Repos, NEW e, e = setDirs'[r].sets[m]
                 PROVE  /\ e # None => e = sets'[m] /\ CanProcessAppSet(e) /\ e.repo = r
                        /\ e = None /\ CanProcessAppSet(sets'[m]) /\ sets'[m].repo = r =>
                             m = n
      BY <1>3, <2>3 DEF SetMapInv, SetCall
    <3>1. CASE m # n BY <1>8, <3>1
    <3>2. CASE m = n BY <1>1, <1>5, <1>9, <1>10, <3>2 DEF old
    <3> QED BY <3>1, <3>2
  <2> QED BY <1>6, <1>7, <2>2, <2>4 DEF SetInv
<1>11. CASE CanProcessAppSet(old) /\ new = None
  <2>1. setTodo' = <<SetCall("remove", n, old)>> /\ old \in SetSpecs BY <1>1, <1>2, <1>4, <1>11 DEF SetCalls
  <2>2. SetCallsInv' BY <1>3, <1>11, <2>1 DEF SetCallsInv
  <2>3. Head(setTodo') = SetCall("remove", n, old) /\ setTodo' # << >> BY <2>1
  <2>4. SetMapInv'
    <3> SUFFICES ASSUME NEW m \in SetNames \ missed', NEW r \in Repos, NEW e, e = setDirs'[r].sets[m]
                 PROVE  IF m = n THEN e # None => old.repo = r
                        ELSE /\ e # None => e = sets'[m] /\ CanProcessAppSet(e) /\ e.repo = r
                             /\ ~(e = None /\ CanProcessAppSet(sets'[m]) /\ sets'[m].repo = r)
      BY <2>3 DEF SetMapInv, SetCall
    <3>1. CASE m # n BY <1>8, <3>1
    <3>2. CASE m = n BY <1>1, <1>5, <1>9, <3>2 DEF old
    <3> QED BY <3>1, <3>2
  <2> QED BY <1>6, <1>7, <2>2, <2>4 DEF SetInv
<1>12. CASE CanProcessAppSet(old) /\ CanProcessAppSet(new) /\ TemplateOf(old) # TemplateOf(new)
  <2>1. /\ setTodo' = <<SetCall("remove", n, old), SetCall("add", n, new)>>
        /\ old \in SetSpecs /\ new \in SetSpecs
    BY <1>1, <1>2, <1>4, <1>12 DEF SetCalls
  <2>2. SetCallsInv' BY <1>3, <1>12, <2>1 DEF SetCallsInv
  <2>3. Head(setTodo') = SetCall("remove", n, old) /\ setTodo' # << >> BY <2>1
  <2>4. SetMapInv'
    <3> SUFFICES ASSUME NEW m \in SetNames \ missed', NEW r \in Repos, NEW e, e = setDirs'[r].sets[m]
                 PROVE  IF m = n THEN e # None => old.repo = r
                        ELSE /\ e # None => e = sets'[m] /\ CanProcessAppSet(e) /\ e.repo = r
                             /\ ~(e = None /\ CanProcessAppSet(sets'[m]) /\ sets'[m].repo = r)
      BY <2>3 DEF SetMapInv, SetCall
    <3>1. CASE m # n BY <1>8, <3>1
    <3>2. CASE m = n BY <1>1, <1>5, <1>9, <3>2 DEF old
    <3> QED BY <3>1, <3>2
  <2> QED BY <1>6, <1>7, <2>2, <2>4 DEF SetInv
<1>13. CASE ~(\/ old = None /\ CanProcessAppSet(new)
              \/ CanProcessAppSet(old) /\ new = None
              \/ CanProcessAppSet(old) /\ CanProcessAppSet(new) /\ TemplateOf(old) # TemplateOf(new))
  <2>1. setTodo' = << >> BY <1>1, <1>13 DEF SetCalls
  <2>2. SetCallsInv' BY <2>1 DEF SetCallsInv
  <2>3. n \notin missed' => ~CanProcessAppSet(old) /\ ~CanProcessAppSet(new) BY <1>4, <1>9, <1>13
  <2>4. SetMapInv'
    <3> SUFFICES ASSUME NEW m \in SetNames \ missed', NEW r \in Repos, NEW e, e = setDirs'[r].sets[m]
                 PROVE  /\ e # None => e = sets'[m] /\ CanProcessAppSet(e) /\ e.repo = r
                        /\ ~(e = None /\ CanProcessAppSet(sets'[m]) /\ sets'[m].repo = r)
      BY <2>1 DEF SetMapInv
    <3>1. CASE m # n BY <1>8, <3>1
    <3>2. CASE m = n BY <1>1, <1>3, <1>5, <1>9, <2>3, <3>2 DEF old
    <3> QED BY <3>1, <3>2
  <2> QED BY <1>6, <1>7, <2>2, <2>4 DEF SetInv
<1> QED BY <1>10, <1>11, <1>12, <1>13

(* A call changes one name in one repository's directory. *)
LEMMA SetInvCall ==
  ASSUME SetInv, SetDirCall
  PROVE  SetInv'
<1> DEFINE c == Head(setTodo)
           n == c.name
           d == setDirs[c.repo]
           e == setDirs'[c.repo]
<1>1. /\ UNCHANGED <<sets, missed>> /\ setTodo # << >> /\ setTodo' = Tail(setTodo)
      /\ setDirs' = [setDirs EXCEPT ![c.repo] = IF c.op = "add" THEN ProcessAppSet(d, n, c.spec)
                                                ELSE RemoveAppSet(d, n, c.spec)]
  BY DEF SetDirCall
<1>2. /\ n \in SetNames /\ c.spec \in SetSpecs /\ c.repo = c.spec.repo /\ c.op \in {"add", "remove"}
      /\ c.op = "add" => /\ setTodo' = << >> /\ c = SetCall("add", n, c.spec)
                         /\ n \notin missed => c.spec = sets[n] /\ CanProcessAppSet(c.spec)
      /\ c.op = "remove" =>
           \/ setTodo' = << >> /\ (n \notin missed => sets[n] = None)
           \/ \E t \in SetSpecs : /\ setTodo' = <<SetCall("add", n, t)>>
                                  /\ n \notin missed => t = sets[n] /\ CanProcessAppSet(t)
  <2>1. CASE \E m \in SetNames, s \in SetSpecs :
               /\ setTodo = <<SetCall("remove", m, s)>>
               /\ m \notin missed => sets[m] = None
    <3>1. PICK m \in SetNames, s \in SetSpecs :
                 /\ setTodo = <<SetCall("remove", m, s)>>
                 /\ m \notin missed => sets[m] = None
      BY <2>1
    <3>2. c = SetCall("remove", m, s) /\ setTodo' = << >> BY <1>1, <3>1
    <3> QED BY <3>1, <3>2 DEF SetCall
  <2>2. CASE \E m \in SetNames, s \in SetSpecs :
               /\ setTodo = <<SetCall("add", m, s)>>
               /\ m \notin missed => s = sets[m] /\ CanProcessAppSet(s)
    <3>1. PICK m \in SetNames, s \in SetSpecs :
                 /\ setTodo = <<SetCall("add", m, s)>>
                 /\ m \notin missed => s = sets[m] /\ CanProcessAppSet(s)
      BY <2>2
    <3>2. c = SetCall("add", m, s) /\ setTodo' = << >> BY <1>1, <3>1
    <3> QED BY <3>1, <3>2 DEF SetCall
  <2>3. CASE \E m \in SetNames, s, t \in SetSpecs :
               /\ setTodo = <<SetCall("remove", m, s), SetCall("add", m, t)>>
               /\ m \notin missed => t = sets[m] /\ CanProcessAppSet(t)
    <3>1. PICK m \in SetNames, s \in SetSpecs, t \in SetSpecs :
                 /\ setTodo = <<SetCall("remove", m, s), SetCall("add", m, t)>>
                 /\ m \notin missed => t = sets[m] /\ CanProcessAppSet(t)
      BY <2>3
    <3>2. c = SetCall("remove", m, s) /\ setTodo' = <<SetCall("add", m, t)>> BY <1>1, <3>1
    <3> QED BY <3>1, <3>2 DEF SetCall
  <2> HIDE DEF c, n
  <2> QED BY <1>1, <2>1, <2>2, <2>3 DEF SetInv, SetCallsInv
<1>3. c.repo \in Repos /\ d \in SetDirType BY <1>2, SetSpecFacts DEF SetInv, SetTypeOK
<1>4. /\ e = IF c.op = "add" THEN ProcessAppSet(d, n, c.spec) ELSE RemoveAppSet(d, n, c.spec)
      /\ \A r \in Repos \ {c.repo} : setDirs'[r] = setDirs[r]
  BY <1>1, <1>3 DEF SetInv, SetTypeOK
<1>5. e \in SetDirType /\ SameSetsElsewhere(d, e, n)
  <2> HIDE DEF c, n, d, e
  <2>1. CASE c.op = "add"
    <3>1. e = ProcessAppSet(d, n, c.spec) BY <1>4, <2>1
    <3> QED BY <1>2, <1>3, <3>1, ProcessAppSetDoes
  <2>2. CASE c.op = "remove"
    <3>1. e = RemoveAppSet(d, n, c.spec) BY <1>4, <2>2
    <3> QED BY <1>2, <1>3, <3>1, RemoveAppSetDoes
  <2> QED BY <1>2, <2>1, <2>2
<1> HIDE DEF c, n, d, e
<1>6. SetTypeOK' BY <1>1, <1>3, <1>4, <1>5 DEF SetInv, SetTypeOK, e
<1>7. SetCallsInv' BY <1>1, <1>2 DEF SetCallsInv
<1>8. ASSUME NEW m \in SetNames, NEW r \in Repos, m # n \/ r # c.repo
      PROVE  /\ setDirs'[r].sets[m] = setDirs[r].sets[m]
             /\ \A p \in PatternKeys : m \in Range(setDirs'[r].lists[p].names) <=> m \in Range(setDirs[r].lists[p].names)
  <2>1. CASE r # c.repo
    <3>1. setDirs'[r] = setDirs[r] BY <1>4, <2>1
    <3> QED BY <3>1
  <2>2. CASE r = c.repo
    <3>1. m # n /\ e.sets[m] = d.sets[m] BY <1>5, <1>8, <2>2 DEF SameSetsElsewhere
    <3>2. ASSUME NEW p \in PatternKeys PROVE m \in Range(e.lists[p].names) <=> m \in Range(d.lists[p].names)
      <4> DEFINE old == d.lists[p]
                 new == e.lists[p]
      <4>1. old \in ListType(SetNames) /\ new \in ListType(SetNames) BY <1>3, <1>5 DEF SetDirType
      <4>2. (Grown(old, new, n) \/ Shrunk(old, new, n)) /\ m # n BY <1>5, <3>1 DEF SameSetsElsewhere
      <4> HIDE DEF old, new
      <4>3. m \in Range(new.names) <=> m \in Range(old.names)
        <5>1. CASE Grown(old, new, n) BY <4>1, <4>2, <5>1, OthersStay
        <5>2. CASE Shrunk(old, new, n) BY <4>1, <4>2, <5>2, OthersStay
        <5> QED BY <4>2, <5>1, <5>2
      <4> QED BY <4>3 DEF old, new
    <3> QED BY <2>2, <3>1, <3>2 DEF d, e
  <2> QED BY <2>1, <2>2
<1>9. e.sets[n] = IF c.op = "remove" THEN None ELSE IF d.sets[n] # None THEN d.sets[n] ELSE c.spec
  BY <1>2, <1>3, <1>4, ProcessAppSetDoes, RemoveAppSetDoes
<1>10. SetMapInv'
  <2> SUFFICES ASSUME NEW m \in SetNames \ missed, NEW r \in Repos, NEW f, f = setDirs'[r].sets[m]
               PROVE  IF setTodo' # << >> /\ Head(setTodo').name = m /\ Head(setTodo').op = "remove"
                      THEN f # None => Head(setTodo').repo = r
                      ELSE /\ f # None => f = sets[m] /\ CanProcessAppSet(f) /\ f.repo = r
                           /\ f = None /\ CanProcessAppSet(sets[m]) /\ sets[m].repo = r =>
                                setTodo' # << >> /\ Head(setTodo') = SetCall("add", m, sets[m])
    BY <1>1 DEF SetMapInv
  <2>1. setTodo' # << >> => Head(setTodo').op = "add" BY <1>2 DEF SetCall
  <2> DEFINE g == setDirs[r].sets[m]
  <2>2. IF n = m /\ c.op = "remove" THEN g # None => c.repo = r
        ELSE /\ g # None => g = sets[m] /\ CanProcessAppSet(g) /\ g.repo = r
             /\ g = None /\ CanProcessAppSet(sets[m]) /\ sets[m].repo = r => c = SetCall("add", m, sets[m])
    BY <1>1 DEF SetInv, SetMapInv, c, n
  <2>3. m # n \/ r # c.repo => f = g BY <1>8
  <2>4. m = n /\ r = c.repo => f = IF c.op = "remove" THEN None ELSE IF g # None THEN g ELSE c.spec
    BY <1>9 DEF d, e
  <2> HIDE DEF g
  <2>5. CASE m # n
    <3>1. c # SetCall("add", m, sets[m]) BY <2>5 DEF SetCall, n
    <3> QED BY <2>1, <2>2, <2>3, <2>5, <3>1
  <2>6. CASE m = n /\ c.op = "remove"
    <3>1. f = None BY <2>2, <2>3, <2>4, <2>6
    <3>2. CASE setTodo' = << >> /\ sets[n] = None BY <2>6, <3>1, <3>2 DEF CanProcessAppSet
    <3>3. CASE setTodo' = <<SetCall("add", n, sets[n])>>
      <4>1. Head(setTodo') = SetCall("add", n, sets[n]) /\ setTodo' # << >> BY <3>3
      <4> QED BY <2>1, <2>6, <3>1, <4>1
    <3> QED BY <1>2, <2>6, <3>2, <3>3
  <2>7. CASE m = n /\ c.op = "add"
    <3>1. setTodo' = << >> /\ c.spec = sets[m] /\ CanProcessAppSet(c.spec) BY <1>2, <2>7
    <3>2. c.spec # None BY <1>2, SetSpecFacts
    <3>3. CASE r = c.repo BY <1>2, <2>2, <2>4, <2>7, <3>1, <3>2, <3>3
    <3>4. CASE r # c.repo
      <4>1. sets[m].repo # r BY <1>2, <3>1, <3>4
      <4> QED BY <2>2, <2>3, <2>7, <3>1, <3>4, <4>1
    <3> QED BY <3>3, <3>4
  <2> QED BY <1>2, <2>5, <2>6, <2>7
<1>11. SetIndexedInv'
  <2> SUFFICES ASSUME NEW m \in SetNames, NEW r \in Repos, NEW s, s = setDirs'[r].sets[m], s # None,
                      NEW g \in Generators(s), Visible(g), NEW x \in Entries(g), ~x.exclude
               PROVE  m \in Range(setDirs'[r].lists[[kind |-> x.kind, path |-> x.path]].names)
    BY DEF SetIndexedInv
  <2> DEFINE p == [kind |-> x.kind, path |-> x.path]
  <2>1. s \in SetSpecs BY <1>6 DEF SetTypeOK, SetDirType
  <2>2. p \in PatternKeys BY <2>1, SetSpecFacts
  <2>3. setDirs[r].sets[m] = s => m \in Range(setDirs[r].lists[p].names) BY DEF SetInv, SetIndexedInv
  <2> HIDE DEF p
  <2>4. ASSUME m # n \/ r # c.repo PROVE m \in Range(setDirs'[r].lists[p].names)
    <3>1. setDirs'[r].sets[m] = setDirs[r].sets[m] BY <1>8, <2>4
    <3> QED BY <1>8, <2>2, <2>3, <2>4, <3>1
  <2>5. ASSUME m = n, r = c.repo PROVE n \in Range(e.lists[p].names)
    <3>1. c.op = "add" BY <1>2, <1>9, <2>5 DEF e
    <3>2. n \in Range(d.lists[p].names) \/ Registered(c.spec, p) > 0 => n \in Range(e.lists[p].names)
      <4>1. e = ProcessAppSet(d, n, c.spec) BY <1>4, <3>1
      <4> QED BY <1>2, <1>3, <2>2, <4>1, ProcessAppSetDoes
    <3>3. CASE d.sets[n] # None
      <4>1. n \in Range(d.lists[p].names) BY <1>9, <2>3, <2>5, <3>1, <3>3 DEF d, e
      <4> QED BY <3>2, <4>1
    <3>4. CASE d.sets[n] = None
      <4>1. s = c.spec BY <1>9, <2>5, <3>1, <3>4 DEF e
      <4>2. Registered(c.spec, p) > 0 BY <1>2, <4>1, RegisteredCounts DEF p
      <4> QED BY <3>2, <4>2
    <3> QED BY <3>3, <3>4
  <2>6. m \in Range(setDirs'[r].lists[p].names) BY <2>4, <2>5 DEF e
  <2> QED BY <2>6 DEF p
<1> QED BY <1>6, <1>7, <1>10, <1>11 DEF SetInv


-----------------------------------------------------------------------------
(***************************************************************************)
(* What the watchers leave alone while a check goes on.                    *)
(***************************************************************************)

(* Nothing is left to do for a name to which nothing happens. *)
SteadyInv ==
  /\ steady \subseteq AppNames \cup SetNames
  /\ \A n \in steady : /\ \A i \in DOMAIN appTodo : appTodo[i].name # n
                       /\ \A i \in DOMAIN setTodo : setTodo[i].name # n

DirInv == AppInv /\ SetInv /\ SteadyInv /\ events \in 0..MaxEvents

AppChanges == {AppNameOf[k] : k \in {x \in AppKeys : apps'[x] # apps[x]}}
SetChanges == {n \in SetNames : sets'[n] # sets[n]}

(* What happens to a list, for the names that stay steady. *)
Others(old, new, S) == new = old \/ \E m \in S \ steady' : Grown(old, new, m) \/ Shrunk(old, new, m)

(* A step of a watcher, for the names that stay steady. *)
Keeps ==
  /\ DirInv' /\ RacedGrows
  /\ missed \subseteq missed' /\ several \subseteq several' /\ steady' \subseteq steady
  /\ \A n \in steady' \cap AppNames :
       Live(n)' = Live(n) /\ \A r \in Repos : appDirs'[r].apps[n] = appDirs[r].apps[n]
  /\ \A n \in steady' \cap SetNames : sets'[n] = sets[n]
  /\ \A r \in Repos : \A k \in ListKeys : Others(appDirs[r].lists[k], appDirs'[r].lists[k], AppNames)
  /\ \A r \in Repos : \A p \in PatternKeys : Others(setDirs[r].lists[p], setDirs'[r].lists[p], SetNames)

(* An event takes its name out of those that are steady. *)
LEMMA AppEventKeeps ==
  ASSUME DirInv, NEW k \in AppKeys, NEW new \in AppSpecs \cup {None}, AppEvent(k, new),
         RacedGrows, steady' = steady \ (AppChanges \cup SetChanges)
  PROVE  Keeps
<1> DEFINE m == AppNameOf[k]
<1>1. /\ apps' = [apps EXCEPT ![k] = new] /\ apps'[k] # apps[k] /\ UNCHANGED <<appDirs, sets, setDirs, setTodo>>
      /\ missed \subseteq missed' /\ several \subseteq several' /\ events' = events + 1 /\ events < MaxEvents
  BY DEF AppEvent, DirInv, AppInv, AppTypeOK
<1>2. AppInv' BY AppInvEvent DEF DirInv
<1>3. SetInv' BY <1>1, <1>2, SetInvUnchanged DEF DirInv, AppInv, AppTypeOK
<1>4. m \notin steady' /\ steady' \subseteq steady BY <1>1 DEF AppChanges
<1>5. SteadyInv'
  <2>1. m \in AppNames /\ apps[k] \in AppSpecs \cup {None} BY DEF AppNames, DirInv, AppInv, AppTypeOK
  <2>2. EventCalls(appTodo', m, apps[k], new) BY <2>1, AppCallsOf DEF AppEvent
  <2>3. \A i \in DOMAIN appTodo' : appTodo'[i].name = m BY <2>2 DEF EventCalls
  <2> QED BY <1>1, <1>4, <2>3 DEF SteadyInv, DirInv
<1>6. \A n : n # m => Live(n)' = Live(n)
  BY <1>1 DEF DirInv, AppInv, AppTypeOK, Live
<1>7. events' \in 0..MaxEvents BY <1>1, EventsAssumption DEF DirInv
<1> QED BY <1>1, <1>2, <1>3, <1>4, <1>5, <1>6, <1>7 DEF Keeps, DirInv, Others

LEMMA AppTombstoneKeeps ==
  ASSUME DirInv, NEW k \in AppKeys, AppTombstone(k), RacedGrows, steady' = steady \ (AppChanges \cup SetChanges)
  PROVE  Keeps
<1> DEFINE m == AppNameOf[k]
<1>1. /\ apps' = [apps EXCEPT ![k] = None] /\ apps'[k] # apps[k]
      /\ UNCHANGED <<appDirs, appTodo, sets, setDirs, setTodo, several>>
      /\ missed \subseteq missed' /\ events' = events + 1 /\ events < MaxEvents
  BY DEF AppTombstone, DirInv, AppInv, AppTypeOK
<1>2. AppInv' BY AppInvTombstone DEF DirInv
<1>3. SetInv' BY <1>1, <1>2, SetInvUnchanged DEF DirInv, AppInv, AppTypeOK
<1>4. m \notin steady' /\ steady' \subseteq steady BY <1>1 DEF AppChanges
<1>5. SteadyInv' BY <1>1, <1>4 DEF SteadyInv, DirInv
<1>6. \A n : n # m => Live(n)' = Live(n)
  BY <1>1 DEF DirInv, AppInv, AppTypeOK, Live
<1>7. events' \in 0..MaxEvents BY <1>1, EventsAssumption DEF DirInv
<1> QED BY <1>1, <1>2, <1>3, <1>4, <1>5, <1>6, <1>7 DEF Keeps, DirInv, Others

(* A call is for a name that was taken out before. *)
LEMMA AppCallKeeps ==
  ASSUME DirInv, AppCall, RacedGrows, steady' = steady \ (AppChanges \cup SetChanges)
  PROVE  Keeps
<1> DEFINE c == Head(appTodo)
           d == appDirs[c.repo]
           e == appDirs'[c.repo]
<1>1. /\ UNCHANGED <<apps, sets, setDirs, setTodo, missed, several, events>>
      /\ appTodo # << >> /\ appTodo' = Tail(appTodo)
      /\ appDirs' = [appDirs EXCEPT ![c.repo] = IF c.op = "add" THEN AddApp(d, c.name, c.spec)
                                                ELSE RemoveApp(d, c.name, c.spec)]
  BY DEF AppCall
<1>2. AppInv' BY AppInvCall DEF DirInv
<1>3. SetInv' BY <1>1, SetInvUnchanged DEF DirInv, SetInv, SetTypeOK
<1>4. c \in AppCallType /\ appTodo \in Seq(AppCallType) /\ appDirs \in [Repos -> AppDirType]
  BY <1>1, NextCall DEF DirInv, AppInv, AppTypeOK
<1>5. /\ c.repo \in Repos /\ c.name \in AppNames /\ c.spec \in AppSpecs /\ c.op \in {"add", "remove"}
      /\ d \in AppDirType
  BY <1>4 DEF AppCallType
<1>6. 1 \in DOMAIN appTodo /\ c = appTodo[1] /\ \A i \in DOMAIN appTodo' : appTodo'[i] = appTodo[i + 1] /\ i + 1 \in DOMAIN appTodo
  BY <1>1, <1>4
<1>7. /\ e = IF c.op = "add" THEN AddApp(d, c.name, c.spec) ELSE RemoveApp(d, c.name, c.spec)
      /\ \A r \in Repos \ {c.repo} : appDirs'[r] = appDirs[r]
  BY <1>1, <1>4, <1>5
<1> HIDE DEF c, d, e
<1>8. SameElsewhere(d, e, c.name)
  <2>1. CASE c.op = "add" BY <1>5, <1>7, <2>1, AddAppDoes
  <2>2. CASE c.op = "remove" BY <1>5, <1>7, <2>2, RemoveAppDoes
  <2> QED BY <1>5, <2>1, <2>2
<1>9. steady' \subseteq steady /\ c.name \notin steady BY <1>6 DEF DirInv, SteadyInv
<1>10. SteadyInv' BY <1>1, <1>6, <1>9 DEF DirInv, SteadyInv
<1>11. ASSUME NEW n \in AppNames, n # c.name, NEW r \in Repos PROVE appDirs'[r].apps[n] = appDirs[r].apps[n]
  <2>1. CASE r = c.repo BY <1>8, <1>11, <2>1 DEF SameElsewhere, d, e
  <2>2. CASE r # c.repo BY <1>7, <2>2
  <2> QED BY <2>1, <2>2
<1>12. \A n : Live(n)' = Live(n) BY <1>1 DEF Live
<1>13. ASSUME NEW r \in Repos, NEW k \in ListKeys
       PROVE  Others(appDirs[r].lists[k], appDirs'[r].lists[k], AppNames)
  <2>1. CASE r = c.repo
    <3>1. Grown(d.lists[k], e.lists[k], c.name) \/ Shrunk(d.lists[k], e.lists[k], c.name) BY <1>8 DEF SameElsewhere
    <3>2. c.name \in AppNames \ steady' BY <1>5, <1>9
    <3> QED BY <2>1, <3>1, <3>2 DEF Others, d, e
  <2>2. CASE r # c.repo BY <1>7, <2>2 DEF Others
  <2> QED BY <2>1, <2>2
<1>14. \A r \in Repos : \A p \in PatternKeys : Others(setDirs[r].lists[p], setDirs'[r].lists[p], SetNames)
  BY <1>1 DEF Others
<1> QED BY <1>1, <1>2, <1>3, <1>9, <1>10, <1>11, <1>12, <1>13, <1>14 DEF Keeps, DirInv

LEMMA SetEventKeeps ==
  ASSUME DirInv, NEW m \in SetNames, NEW new \in SetSpecs \cup {None}, SetEvent(m, new),
         RacedGrows, steady' = steady \ (AppChanges \cup SetChanges)
  PROVE  Keeps
<1>1. /\ sets' = [sets EXCEPT ![m] = new] /\ sets'[m] # sets[m] /\ UNCHANGED <<apps, appDirs, appTodo, setDirs, several>>
      /\ missed \subseteq missed' /\ events' = events + 1 /\ events < MaxEvents
      /\ setTodo' = SetCalls(m, sets[m], new)
  BY DEF SetEvent, DirInv, SetInv, SetTypeOK
<1>2. SetInv' BY SetInvEvent DEF DirInv
<1>3. AppInv' BY <1>1, <1>2, AppInvUnchanged DEF DirInv, SetInv, SetTypeOK
<1>4. m \notin steady' /\ steady' \subseteq steady BY <1>1 DEF SetChanges
<1>5. SteadyInv'
  <2>1. \A i \in DOMAIN setTodo' : setTodo'[i].name = m
    BY <1>1 DEF SetCalls, SetCall
  <2> QED BY <1>1, <1>4, <2>1 DEF SteadyInv, DirInv
<1>6. \A n : Live(n)' = Live(n) BY <1>1 DEF Live
<1>7. events' \in 0..MaxEvents BY <1>1, EventsAssumption DEF DirInv
<1>8. \A n \in SetNames : n # m => sets'[n] = sets[n] BY <1>1 DEF DirInv, SetInv, SetTypeOK
<1> QED BY <1>1, <1>2, <1>3, <1>4, <1>5, <1>6, <1>7, <1>8 DEF Keeps, DirInv, Others

LEMMA SetTombstoneKeeps ==
  ASSUME DirInv, NEW m \in SetNames, SetTombstone(m), RacedGrows, steady' = steady \ (AppChanges \cup SetChanges)
  PROVE  Keeps
<1>1. /\ sets' = [sets EXCEPT ![m] = None] /\ sets'[m] # sets[m]
      /\ UNCHANGED <<apps, appDirs, appTodo, setDirs, setTodo, several>>
      /\ missed \subseteq missed' /\ events' = events + 1 /\ events < MaxEvents
  BY DEF SetTombstone, DirInv, SetInv, SetTypeOK
<1>2. SetInv' BY SetInvTombstone DEF DirInv
<1>3. AppInv' BY <1>1, <1>2, AppInvUnchanged DEF DirInv, SetInv, SetTypeOK
<1>4. m \notin steady' /\ steady' \subseteq steady BY <1>1 DEF SetChanges
<1>5. SteadyInv' BY <1>1, <1>4 DEF SteadyInv, DirInv
<1>6. \A n : Live(n)' = Live(n) BY <1>1 DEF Live
<1>7. events' \in 0..MaxEvents BY <1>1, EventsAssumption DEF DirInv
<1>8. \A n \in SetNames : n # m => sets'[n] = sets[n] BY <1>1 DEF DirInv, SetInv, SetTypeOK
<1> QED BY <1>1, <1>2, <1>3, <1>4, <1>5, <1>6, <1>7, <1>8 DEF Keeps, DirInv, Others

LEMMA SetCallKeeps ==
  ASSUME DirInv, SetDirCall, RacedGrows, steady' = steady \ (AppChanges \cup SetChanges)
  PROVE  Keeps
<1> DEFINE c == Head(setTodo)
           d == setDirs[c.repo]
           e == setDirs'[c.repo]
<1>1. /\ UNCHANGED <<apps, appDirs, appTodo, sets, missed, several, events>>
      /\ setTodo # << >> /\ setTodo' = Tail(setTodo)
      /\ setDirs' = [setDirs EXCEPT ![c.repo] = IF c.op = "add" THEN ProcessAppSet(d, c.name, c.spec)
                                                ELSE RemoveAppSet(d, c.name, c.spec)]
  BY DEF SetDirCall
<1>2. SetInv' BY SetInvCall DEF DirInv
<1>3. AppInv' BY <1>1, AppInvUnchanged DEF DirInv, SetInv, SetTypeOK
<1>4. /\ \A i \in DOMAIN setTodo' : setTodo'[i] = setTodo[i + 1] /\ i + 1 \in DOMAIN setTodo
      /\ 1 \in DOMAIN setTodo /\ c = setTodo[1] /\ c \in SetCallType
  <2>1. ASSUME NEW n \in SetNames, NEW s \in SetSpecs, NEW op \in {"add", "remove"}, NEW x, setTodo = <<SetCall(op, n, s)>> \/ setTodo = <<SetCall(op, n, s), x>>
        PROVE  /\ \A i \in DOMAIN setTodo' : setTodo'[i] = setTodo[i + 1] /\ i + 1 \in DOMAIN setTodo
               /\ 1 \in DOMAIN setTodo /\ c = setTodo[1] /\ c \in SetCallType
    <3>1. s.repo \in Repos BY SetSpecFacts
    <3>2. SetCall(op, n, s) \in SetCallType BY <3>1 DEF SetCall, SetCallType
    <3> HIDE DEF c
    <3>3. CASE setTodo = <<SetCall(op, n, s)>>
      <4>1. c = SetCall(op, n, s) BY <3>3 DEF c
      <4> QED BY <1>1, <3>2, <3>3, <4>1
    <3>4. CASE setTodo = <<SetCall(op, n, s), x>>
      <4>1. c = SetCall(op, n, s) BY <3>4 DEF c
      <4> QED BY <1>1, <3>2, <3>4, <4>1
    <3> QED BY <2>1, <3>3, <3>4
  <2>2. \E n \in SetNames, s \in SetSpecs, op \in {"add", "remove"} : \E x :
          setTodo = <<SetCall(op, n, s)>> \/ setTodo = <<SetCall(op, n, s), x>>
    BY <1>1 DEF DirInv, SetInv, SetCallsInv
  <2> QED BY <2>1, <2>2
<1>5. c.repo \in Repos /\ c.name \in SetNames /\ c.spec \in SetSpecs /\ c.op \in {"add", "remove"}
  BY <1>4 DEF SetCallType
<1>6. setDirs \in [Repos -> SetDirType] /\ d \in SetDirType BY <1>5 DEF DirInv, SetInv, SetTypeOK
<1>7. /\ e = IF c.op = "add" THEN ProcessAppSet(d, c.name, c.spec) ELSE RemoveAppSet(d, c.name, c.spec)
      /\ \A r \in Repos \ {c.repo} : setDirs'[r] = setDirs[r]
  BY <1>1, <1>5, <1>6
<1> HIDE DEF c, d, e
<1>8. SameSetsElsewhere(d, e, c.name)
  <2>1. CASE c.op = "add" BY <1>5, <1>6, <1>7, <2>1, ProcessAppSetDoes
  <2>2. CASE c.op = "remove" BY <1>5, <1>6, <1>7, <2>2, RemoveAppSetDoes
  <2> QED BY <1>5, <2>1, <2>2
<1>9. steady' \subseteq steady /\ c.name \notin steady BY <1>4 DEF DirInv, SteadyInv
<1>10. SteadyInv' BY <1>1, <1>4, <1>9 DEF SteadyInv, DirInv
<1>11. \A n : Live(n)' = Live(n) BY <1>1 DEF Live
<1>12. ASSUME NEW r \in Repos, NEW p \in PatternKeys
       PROVE  Others(setDirs[r].lists[p], setDirs'[r].lists[p], SetNames)
  <2>1. CASE r = c.repo
    <3>1. Grown(d.lists[p], e.lists[p], c.name) \/ Shrunk(d.lists[p], e.lists[p], c.name) BY <1>8 DEF SameSetsElsewhere
    <3>2. c.name \in SetNames \ steady' BY <1>5, <1>9
    <3> QED BY <2>1, <3>1, <3>2 DEF Others, d, e
  <2>2. CASE r # c.repo BY <1>7, <2>2 DEF Others
  <2> QED BY <2>1, <2>2
<1>13. \A r \in Repos : \A k \in ListKeys : Others(appDirs[r].lists[k], appDirs'[r].lists[k], AppNames)
  BY <1>1 DEF Others
<1> QED BY <1>1, <1>2, <1>3, <1>9, <1>10, <1>11, <1>12, <1>13 DEF Keeps, DirInv

(* A check is of a pull request. *)
CheckInv ==
  /\ pc \in {"idle", "walk", "join", "match", "generate", "done"}
  /\ pr \in PRs \cup {None} /\ (pc # "idle" => pr \in PRs /\ pr.repo \in Repos)
  /\ pc # "walk" => walking = {}
  /\ pc \notin {"walk", "join", "match"} => kust = << >>
  /\ pc \notin {"generate", "done"} => items = {} /\ todo = {} /\ failed = {} /\ claims = {} /\ findings = {}

(* What the watcher appends to in place is among the lists that there are. *)
LEMMA WatchRaces ==
  ASSUME DirInv, CheckInv, Watch
  PROVE  RacedGrows
<1>1. raced \in [Repos -> SUBSET ListKeys] BY DEF DirInv, AppInv, AppTypeOK
<1>2. CASE pc \in {"join", "match"}
  <2> DEFINE more == AppendedInPlace(appCopy, appDirs[pr.repo].lists, appDirs'[pr.repo].lists)
  <2>1. raced' = [raced EXCEPT ![pr.repo] = @ \cup more] BY <1>2 DEF Watch
  <2>2. pr.repo \in Repos BY <1>2 DEF CheckInv
  <2>3. DOMAIN appDirs[pr.repo].lists = ListKeys BY <2>2 DEF DirInv, AppInv, AppTypeOK, AppDirType
  <2>4. more \subseteq ListKeys BY <2>3 DEF AppendedInPlace
  <2> HIDE DEF more
  <2> QED BY <1>1, <2>1, <2>2, <2>4 DEF RacedGrows
<1>3. CASE pc \notin {"join", "match"}
  <2>1. raced' = raced BY <1>3 DEF Watch
  <2> QED BY <1>1, <2>1 DEF RacedGrows
<1> QED BY <1>2, <1>3

(* So no step of a watcher touches a steady name. *)
LEMMA WatchKeeps ==
  ASSUME DirInv, CheckInv, Watch
  PROVE  Keeps
<1>1. AppWatcher \/ AppSetWatcher BY DEF Watch
<1>2. steady' = steady \ (AppChanges \cup SetChanges) BY DEF Watch, AppChanges, SetChanges
<1>3. RacedGrows BY WatchRaces
<1> QED BY <1>1, <1>2, <1>3, AppEventKeeps, AppTombstoneKeeps, AppCallKeeps, SetEventKeeps, SetTombstoneKeeps, SetCallKeeps
        DEF AppWatcher, AppSetWatcher


-----------------------------------------------------------------------------
(***************************************************************************)
(* What the check finds in the directories.                                *)
(***************************************************************************)

(* FindAppsBasedOnChangeList, as what it contains. *)
LEMMA FindAppsIs ==
  ASSUME NEW entries, NEW appsMap, NEW change, NEW branch
  PROVE  \A x : x \in FindApps(entries, appsMap, change, branch) <=>
           \E n \in DOMAIN appsMap :
             /\ x = [name |-> n, spec |-> appsMap[n]]
             /\ appsMap[n] # None /\ ShouldInclude(appsMap[n], branch)
             /\ \E e \in entries : e.name = n /\ \E f \in change : Touches(e, f)
BY DEF FindApps

(* A map by name of a list keeps every name once. *)
LEMMA FirstOfEachIs ==
  ASSUME NEW as, NEW firsts \in FirstOfEach(as)
  PROVE  /\ firsts \subseteq as /\ NamesOf(firsts) = NamesOf(as)
         /\ \A a, b \in firsts : a.name = b.name => a = b
BY DEF FirstOfEach

(* The keys that the walk finds for an application. *)
KustKeys(e) == {[kind |-> x.kind, path |-> x.path] : x \in ProcessKustomization(pr, e.sources[1].path)}

(* A list is named by its kind and its path. *)
IsKey(k) == k = [kind |-> k.kind, path |-> k.path]

(* Only so many kustomizations name a file. *)
LEMMA TimesIs ==
  ASSUME NEW p \in PRs, NEW root, NEW k,
         NEW times, times = Cardinality({e \in ProcessKustomization(p, root) : e.kind = k.kind /\ e.path = k.path})
  PROVE  /\ times \in Nat
         /\ times > 0 <=> \E e \in ProcessKustomization(p, root) : e.kind = k.kind /\ e.path = k.path
<1> DEFINE T == {e \in ProcessKustomization(p, root) : e.kind = k.kind /\ e.path = k.path}
           from == DOMAIN p.kust \cup {k.path}
           f == [e \in T |-> e.from]
<1>1. IsFiniteSet(from) BY PRAssumption, FS_Singleton, FS_Union
<1>2. \A e \in T : e.from \in from /\ e = [kind |-> k.kind, path |-> k.path, from |-> e.from]
  <2> SUFFICES ASSUME NEW e \in T PROVE e.from \in from /\ e = [kind |-> k.kind, path |-> k.path, from |-> e.from]
    OBVIOUS
  <2>1. e \in Followed(p, root) BY DEF ProcessKustomization
  <2>2. PICK d : \/ d \in DOMAIN p.kust /\ \E file : e = [kind |-> "file", path |-> file, from |-> d]
                 \/ e = [kind |-> "dir", path |-> d, from |-> d]
    BY <2>1 DEF Followed
  <2>3. CASE d \in DOMAIN p.kust /\ \E file : e = [kind |-> "file", path |-> file, from |-> d] BY <2>3
  <2>4. CASE e = [kind |-> "dir", path |-> d, from |-> d] BY <2>4
  <2> QED BY <2>2, <2>3, <2>4
<1> HIDE DEF from, T
<1>3. f \in Injection(T, from)
  <2>1. f \in [T -> from] BY <1>2
  <2>2. \A d, e \in T : f[d] = f[e] => d = e BY <1>2
  <2>3. IsInjective(f) BY <2>2 DEF IsInjective
  <2> QED BY <2>1, <2>3 DEF Injection
<1>4. IsFiniteSet(T) BY <1>1, <1>3, FS_Injection
<1> QED BY <1>4, CountOfSubset DEF T

(* What the walk adds for one application. *)
KustType(lists) == \A k \in DOMAIN lists : IsKey(k) /\ lists[k] \in Seq(AppNames)
LEMMA WalkAdds ==
  ASSUME KustType(kust), pr \in PRs, NEW a \in [name : AppNames, spec : AppSpecs],
         NEW new, new = WithKustomized(kust, a.name, a.spec)
  PROVE  /\ KustType(new)
         /\ \A k, m : m \in Range(At(new, k)) <=> m \in Range(At(kust, k)) \/ (m = a.name /\ k \in KustKeys(a.spec))
<1> DEFINE found == ProcessKustomization(pr, a.spec.sources[1].path)
           times(k) == Cardinality({e \in found : e.kind = k.kind /\ e.path = k.path})
           keys == KustKeys(a.spec)
<1>1. new = [k \in DOMAIN kust \cup keys |-> At(kust, k) \o Copies(a.name, times(k))]
  BY DEF WithKustomized, KustKeys
<1>2. \A k : times(k) \in Nat /\ (times(k) > 0 <=> \E e \in found : e.kind = k.kind /\ e.path = k.path)
  BY TimesIs
<1>3. \A k : k \in keys <=> IsKey(k) /\ \E e \in found : e.kind = k.kind /\ e.path = k.path
  BY DEF KustKeys, IsKey
<1>4. \A k \in DOMAIN kust \cup keys : IsKey(k) BY <1>3 DEF KustType
<1>5. \A k : At(kust, k) \in Seq(AppNames) BY DEF KustType, At
<1>6. \A k : k \notin DOMAIN kust => At(kust, k) = << >> BY DEF At
<1> HIDE DEF found, times, keys
<1>7. ASSUME NEW k \in DOMAIN kust \cup keys
      PROVE  /\ new[k] \in Seq(AppNames)
             /\ \A m : m \in Range(new[k]) <=> m \in Range(At(kust, k)) \/ (m = a.name /\ k \in keys)
  <2> DEFINE s == At(kust, k)
             t == Copies(a.name, times(k))
             h == new[k]
  <2>1. s \in Seq(AppNames) BY <1>5
  <2>2. /\ t \in Seq(AppNames) /\ Len(t) = times(k) /\ \A i \in DOMAIN t : t[i] = a.name
    <3>1. times(k) \in Int /\ (times(k) > 0 => a.name \in AppNames) BY <1>2
    <3>2. Len(t) = IF times(k) > 0 THEN times(k) ELSE 0 BY <3>1, CopiesIs
    <3> QED BY <1>2, <3>1, <3>2, CopiesIs
  <2>3. h = s \o t BY <1>1
  <2>4. times(k) > 0 <=> k \in keys BY <1>2, <1>3, <1>4
  <2> HIDE DEF s, t, h
  <2>5. /\ h \in Seq(AppNames) /\ DOMAIN h = 1..Len(h) /\ DOMAIN t = 1..Len(t) /\ DOMAIN s = 1..Len(s)
        /\ Len(s) \in Nat /\ Len(t) \in Nat /\ Len(h) = Len(s) + Len(t)
        /\ \A j \in DOMAIN s : j \in DOMAIN h /\ h[j] = s[j]
        /\ \A j \in DOMAIN h : j > Len(s) => j - Len(s) \in DOMAIN t /\ h[j] = t[j - Len(s)]
        /\ \A j \in DOMAIN t : Len(s) + j \in DOMAIN h /\ h[Len(s) + j] = t[j]
    <3>1. t \in Seq(AppNames) BY <2>2
    <3> QED BY <2>1, <2>3, <3>1, JoinedIs
  <2>6. ASSUME NEW m PROVE m \in Range(h) <=> m \in Range(s) \/ (m = a.name /\ k \in keys)
    <3>1. ASSUME m \in Range(h) PROVE m \in Range(s) \/ (m = a.name /\ k \in keys)
      <4>1. PICK j \in DOMAIN h : h[j] = m BY <3>1 DEF Range
      <4>2. CASE j > Len(s)
        <5>1. j - Len(s) \in DOMAIN t /\ m = a.name BY <2>2, <2>5, <4>1, <4>2
        <5>2. Len(t) > 0 BY <2>5, <5>1
        <5> QED BY <1>2, <2>2, <2>4, <5>1, <5>2
      <4>3. CASE ~(j > Len(s))
        <5>1. j \in DOMAIN s BY <2>5, <4>3
        <5> QED BY <2>5, <4>1, <5>1 DEF Range
      <4> QED BY <4>2, <4>3
    <3>2. ASSUME m \in Range(s) PROVE m \in Range(h) BY <2>5, <3>2 DEF Range
    <3>3. ASSUME m = a.name, k \in keys PROVE m \in Range(h)
      <4>1. Len(t) > 0 BY <1>2, <2>2, <2>4, <3>3
      <4>2. 1 \in DOMAIN t BY <2>5, <4>1
      <4>3. t[1] = m BY <2>2, <3>3, <4>2
      <4>4. Len(s) + 1 \in DOMAIN h /\ h[Len(s) + 1] = m BY <2>5, <4>2, <4>3
      <4> QED BY <4>4 DEF Range
    <3> QED BY <3>1, <3>2, <3>3
  <2> QED BY <2>5, <2>6 DEF s, h
<1>8. DOMAIN new = DOMAIN kust \cup keys BY <1>1
<1>9. KustType(new) BY <1>4, <1>7, <1>8 DEF KustType
<1>10. ASSUME NEW k, NEW m
       PROVE  m \in Range(At(new, k)) <=> m \in Range(At(kust, k)) \/ (m = a.name /\ k \in keys)
  <2>1. CASE k \in DOMAIN new
    <3>1. At(new, k) = new[k] BY <2>1 DEF At
    <3> QED BY <1>7, <1>8, <2>1, <3>1
  <2>2. CASE k \notin DOMAIN new
    <3>1. At(new, k) = << >> /\ At(kust, k) = << >> /\ k \notin keys BY <1>6, <1>8, <2>2 DEF At
    <3> QED BY <3>1 DEF Range
  <2> QED BY <2>1, <2>2
<1> QED BY <1>9, <1>10 DEF keys

-----------------------------------------------------------------------------
(***************************************************************************)
(* What the check keeps true until the matchers are done.                  *)
(***************************************************************************)

(* Of a name to which nothing happens, the walk finds what the live        *)
(* directory has.                                                          *)
WalkInv ==
  /\ walking \subseteq [name : AppNames, spec : AppSpecs] /\ KustType(kust)
  /\ pc \in {"walk", "join"} =>
       \A n \in steady \cap AppNames :
         LET e == appDirs[pr.repo].apps[n] IN
         /\ \A w \in walking : w.name = n => e # None /\ w.spec = e
         /\ \A k : n \in Range(At(kust, k)) <=> e # None /\ k \in KustKeys(e) /\ \A w \in walking : w.name # n

CopyTypeInv ==
  pc \in {"join", "match"} =>
    /\ appCopy = [apps |-> appCopy.apps, lists |-> appCopy.lists]
    /\ DOMAIN appCopy.apps = AppNames
    /\ ListKeys \subseteq DOMAIN appCopy.lists
    /\ \A k \in DOMAIN appCopy.lists : IsKey(k) /\ appCopy.lists[k] \in SliceType(AppNames)
    /\ pc = "join" => DOMAIN appCopy.lists = ListKeys

(* As long as the watcher does not append in place, a slice of the check   *)
(* has all that the live list has.                                         *)
SharedInv ==
  pc \in {"join", "match"} =>
    \A k \in ListKeys \ raced[pr.repo] :
      appCopy.lists[k].shared => Within(appDirs[pr.repo].lists[k], appCopy.lists[k])

(* ... so the copy has what the live directory has, *)
OwnInv ==
  pc \in {"join", "match"} =>
    \A n \in steady \cap AppNames :
      LET e == appDirs[pr.repo].apps[n] IN
      /\ appCopy.apps[n] = e
      /\ e # None => \A k \in KeysOf(e) \ raced[pr.repo] : n \in Range(appCopy.lists[k].names)

(* and behind it, where the watcher does not write, what the walk found.   *)
FollowedInv ==
  pc = "match" =>
    \A n \in steady \cap AppNames :
      LET e == appDirs[pr.repo].apps[n] IN
      e # None => \A k \in KustKeys(e) \ raced[pr.repo] :
        /\ k \in DOMAIN appCopy.lists
        /\ LET c == appCopy.lists[k] IN
           \E p \in DOMAIN c.names :
             /\ c.names[p] = n
             /\ k \in ListKeys /\ c.shared => p > Len(appDirs[pr.repo].lists[k].names)

(* It has nothing else. *)
OnlyInv ==
  pc \in {"join", "match"} =>
    \A n \in (steady \cap AppNames) \ (missed \cup several) :
      LET e == appDirs[pr.repo].apps[n] IN
      \A k \in DOMAIN appCopy.lists \ raced[pr.repo] :
        n \in Range(appCopy.lists[k].names) =>
          e # None /\ k \in KeysOf(e) \cup (IF pc = "match" THEN KustKeys(e) ELSE {})

(* The slices of the ApplicationSets are only read, and the watcher never  *)
(* takes away a name that it does not work on.                             *)
SetCopyInv ==
  pc = "match" =>
    /\ setCopy = [sets |-> setCopy.sets, lists |-> setCopy.lists]
    /\ setCopy.lists \in [PatternKeys -> SliceType(SetNames)]
    /\ \A p \in PatternKeys : setCopy.lists[p].shared => Agree(setDirs[pr.repo].lists[p], setCopy.lists[p])
    /\ \A n \in (steady \cap SetNames) \ missed :
         CanProcessAppSet(sets[n]) /\ sets[n].repo = pr.repo =>
           /\ setCopy.sets[n] = sets[n]
           /\ \A g \in Generators(sets[n]) : Visible(g) =>
                \A e \in Entries(g) : ~e.exclude =>
                  LET c == setCopy.lists[[kind |-> e.kind, path |-> e.path]]
                      l == setDirs[pr.repo].lists[[kind |-> e.kind, path |-> e.path]]
                  IN \E i \in DOMAIN c.names : c.names[i] = n /\ (c.shared => i \in DOMAIN l.names)

CopyInv == CopyTypeInv /\ SharedInv /\ OwnInv /\ FollowedInv /\ OnlyInv
FindInv == DirInv /\ CheckInv /\ WalkInv /\ CopyInv /\ SetCopyInv

-----------------------------------------------------------------------------
(* The invariant of the check up to the matchers, step by step. *)
LEMMA FindInvInit == Init => FindInv
<1> SUFFICES ASSUME Init PROVE FindInv OBVIOUS
<1>1. AppInv /\ SetInv BY AppInvInit, SetInvInit DEF Init
<1>2. SteadyInv /\ events \in 0..MaxEvents BY EventsAssumption DEF Init, DirsInit, SteadyInv
<1>3. CheckInv BY DEF Init, CheckInv
<1>4. WalkInv /\ CopyInv /\ SetCopyInv
  BY DEF Init, WalkInv, KustType, CopyInv, CopyTypeInv, SharedInv, OwnInv, FollowedInv, OnlyInv, SetCopyInv
<1> QED BY <1>1, <1>2, <1>3, <1>4 DEF FindInv, DirInv

LEMMA DirInvUnchanged ==
  ASSUME DirInv, UNCHANGED <<dirVars, steady, raced>>
  PROVE  DirInv'
<1>1. RacedGrows BY DEF RacedGrows, DirInv, AppInv, AppTypeOK
<1>2. AppInv' BY <1>1, AppInvUnchanged DEF dirVars, DirInv, AppInv, AppTypeOK
<1>3. SetInv' BY SetInvUnchanged DEF dirVars, DirInv, SetInv, SetTypeOK
<1> QED BY <1>2, <1>3 DEF dirVars, DirInv, SteadyInv

LEMMA FindInvStart ==
  ASSUME FindInv, NEW p \in PRs, StartCheck(p)
  PROVE  FindInv'
<1> DEFINE live == appDirs[p.repo].apps
<1>1. /\ UNCHANGED <<dirVars, kust, appCopy, setCopy, listVars, raced>> /\ pc = "idle" /\ pc' = "walk" /\ pr' = p
      /\ walking' = {[name |-> n, spec |-> live[n]] : n \in {m \in AppNames : live[m] # None}}
  BY DEF StartCheck
<1>2. RacedGrows BY <1>1 DEF RacedGrows, FindInv, DirInv, AppInv, AppTypeOK
<1>3. AppInv' BY <1>1, <1>2, AppInvUnchanged DEF dirVars, FindInv, DirInv, AppInv, AppTypeOK
<1>4. SetInv' BY <1>1, SetInvUnchanged DEF dirVars, FindInv, DirInv, SetInv, SetTypeOK
<1>5. SteadyInv' /\ events' \in 0..MaxEvents BY DEF dirVars, FindInv, DirInv, SteadyInv, StartCheck
<1>6. CheckInv' BY <1>1, PRAssumption DEF FindInv, CheckInv, listVars
<1>7. CopyInv' /\ SetCopyInv'
  BY <1>1 DEF CopyInv, CopyTypeInv, SharedInv, OwnInv, FollowedInv, OnlyInv, SetCopyInv
<1>8. live \in [AppNames -> AppSpecs \cup {None}]
  BY PRAssumption DEF FindInv, DirInv, AppInv, AppTypeOK, AppDirType
<1>9. kust = << >> BY <1>1 DEF FindInv, CheckInv
<1>10. \A k : Range(At(kust', k)) = {} BY <1>1, <1>9 DEF At, Range
<1>11. live' = live /\ p.repo = pr'.repo BY <1>1 DEF dirVars
<1>12. walking' \subseteq [name : AppNames, spec : AppSpecs] BY <1>1, <1>8
<1>13. ASSUME NEW n \in AppNames, live[n] # None PROVE \E w \in walking' : w.name = n
  <2> DEFINE w == [name |-> n, spec |-> live[n]]
  <2>1. w \in walking' /\ w.name = n BY <1>1, <1>13
  <2> QED BY <2>1
<1>14. \A w \in walking' : w.spec = live[w.name] /\ live[w.name] # None BY <1>1
<1> HIDE DEF live
<1>15. WalkInv' BY <1>1, <1>9, <1>10, <1>11, <1>12, <1>13, <1>14 DEF WalkInv, KustType, live
<1> QED BY <1>3, <1>4, <1>5, <1>6, <1>7, <1>15 DEF FindInv, DirInv

(* The walk sees the Kustomize files of every application there. *)
LEMMA FindInvWalk ==
  ASSUME FindInv, NEW a \in walking, WalkApp(a)
  PROVE  FindInv'
<1>1. /\ UNCHANGED <<dirVars, pc, pr, appCopy, setCopy, listVars, steady, raced>> /\ pc = "walk"
      /\ walking' = walking \ {a} /\ kust' = WithKustomized(kust, a.name, a.spec)
  BY DEF WalkApp
<1>2. DirInv' BY <1>1, DirInvUnchanged DEF FindInv
<1>3. CheckInv' BY <1>1 DEF FindInv, CheckInv, listVars
<1>4. CopyInv' /\ SetCopyInv'
  BY <1>1 DEF CopyInv, CopyTypeInv, SharedInv, OwnInv, FollowedInv, OnlyInv, SetCopyInv
<1>5. a \in [name : AppNames, spec : AppSpecs] /\ KustType(kust) /\ pr \in PRs
  BY <1>1 DEF FindInv, WalkInv, CheckInv
<1>6. /\ KustType(kust')
      /\ \A k, m : m \in Range(At(kust', k)) <=> m \in Range(At(kust, k)) \/ (m = a.name /\ k \in KustKeys(a.spec))
  BY <1>1, <1>5, WalkAdds
<1>7. ASSUME NEW n \in steady \cap AppNames, NEW e, e = appDirs[pr.repo].apps[n]
      PROVE  /\ \A w \in walking' : w.name = n => e # None /\ w.spec = e
             /\ \A k : n \in Range(At(kust', k)) <=> e # None /\ k \in KustKeys(e) /\ \A w \in walking' : w.name # n
  <2>1. /\ \A w \in walking : w.name = n => e # None /\ w.spec = e
        /\ \A k : n \in Range(At(kust, k)) <=> e # None /\ k \in KustKeys(e) /\ \A w \in walking : w.name # n
    BY <1>1, <1>7 DEF FindInv, WalkInv
  <2>2. CASE a.name = n
    <3>1. e # None /\ a.spec = e BY <2>1, <2>2
    <3>2. \A w \in walking : w.name = n => w = a BY <1>5, <2>1, <2>2, <3>1 DEF FindInv, WalkInv
    <3> QED BY <1>1, <1>6, <2>1, <2>2, <3>1, <3>2
  <2>3. CASE a.name # n
    <3>1. (\A w \in walking' : w.name # n) <=> (\A w \in walking : w.name # n) BY <1>1, <2>3
    <3> QED BY <1>1, <1>6, <2>1, <2>3, <3>1
  <2> QED BY <2>2, <2>3
<1>8. WalkInv'
  <2>1. walking' \subseteq [name : AppNames, spec : AppSpecs] BY <1>1 DEF FindInv, WalkInv
  <2>2. /\ steady' = steady /\ pr' = pr /\ appDirs' = appDirs /\ \A e : KustKeys(e)' = KustKeys(e)
    BY <1>1 DEF KustKeys, dirVars
  <2> QED BY <1>6, <1>7, <2>1, <2>2 DEF WalkInv
<1> QED BY <1>2, <1>3, <1>4, <1>8 DEF FindInv

(* The copy has what the invariants of the watchers say. *)
LEMMA FindInvCopy ==
  ASSUME FindInv, Copy
  PROVE  FindInv'
<1> DEFINE live == appDirs[pr.repo]
<1>1. /\ UNCHANGED <<dirVars, pr, walking, kust, setCopy, listVars, steady, raced>>
      /\ pc = "walk" /\ pc' = "join" /\ walking = {}
      /\ appCopy' = [apps |-> live.apps, lists |-> Headers(live.lists)]
  BY DEF Copy
<1>2. DirInv' BY <1>1, DirInvUnchanged DEF FindInv
<1>3. CheckInv' BY <1>1 DEF FindInv, CheckInv, listVars
<1>4. WalkInv'
  <2>1. /\ steady' = steady /\ pr' = pr /\ appDirs' = appDirs /\ \A e : KustKeys(e)' = KustKeys(e)
    BY <1>1 DEF KustKeys, dirVars
  <2> QED BY <1>1, <2>1 DEF FindInv, WalkInv
<1>5. SetCopyInv' /\ FollowedInv' BY <1>1 DEF SetCopyInv, FollowedInv
<1>6. pr.repo \in Repos /\ live \in AppDirType
  BY <1>1 DEF FindInv, CheckInv, DirInv, AppInv, AppTypeOK
<1>7. /\ DOMAIN appCopy'.lists = ListKeys /\ DOMAIN appCopy'.apps = AppNames /\ appCopy'.apps = live.apps
      /\ appCopy' = [apps |-> appCopy'.apps, lists |-> appCopy'.lists]
      /\ \A k \in ListKeys : appCopy'.lists[k] = [names |-> live.lists[k].names, shared |-> TRUE]
  BY <1>1, <1>6 DEF AppDirType, Headers
<1>8. \A k \in ListKeys : /\ live.lists[k].names \in Seq(AppNames)
                          /\ Within(live.lists[k], appCopy'.lists[k]) /\ IsKey(k)
                          /\ appCopy'.lists[k].names = live.lists[k].names /\ appCopy'.lists[k] \in SliceType(AppNames)
  <2> SUFFICES ASSUME NEW k \in ListKeys
               PROVE  /\ live.lists[k].names \in Seq(AppNames)
                      /\ Within(live.lists[k], appCopy'.lists[k]) /\ IsKey(k)
                      /\ appCopy'.lists[k].names = live.lists[k].names /\ appCopy'.lists[k] \in SliceType(AppNames)
    OBVIOUS
  <2> DEFINE l == live.lists[k]
             c == appCopy'.lists[k]
  <2>1. l.names \in Seq(AppNames) BY <1>6 DEF AppDirType, ListType
  <2>2. c = [names |-> l.names, shared |-> TRUE] BY <1>7
  <2>3. IsKey(k) BY DEF IsKey, ListKeys
  <2> HIDE DEF l, c
  <2>4. c \in SliceType(AppNames) /\ c.names = l.names BY <2>1, <2>2 DEF SliceType
  <2>5. Len(l.names) \in Nat BY <2>1
  <2>6. Within(l, c) BY <2>4, <2>5 DEF Within
  <2> QED BY <2>1, <2>3, <2>4, <2>6 DEF l, c
<1> HIDE DEF live
<1>9. CopyTypeInv' BY <1>1, <1>7, <1>8 DEF CopyTypeInv
<1>10. SharedInv' BY <1>1, <1>8 DEF SharedInv, live, dirVars
<1>11. OwnInv'
  <2> SUFFICES ASSUME NEW n \in steady \cap AppNames, NEW e, e = live.apps[n], e # None, NEW k \in KeysOf(e) \ raced[pr.repo]
               PROVE  n \in Range(appCopy'.lists[k].names)
    BY <1>1, <1>7 DEF OwnInv, live, dirVars
  <2>1. k \in ListKeys BY <1>6, KeysOfIs DEF AppDirType
  <2> QED BY <1>6, <1>8, <2>1 DEF FindInv, DirInv, AppInv, IndexedInv, live
<1>12. OnlyInv'
  <2> SUFFICES ASSUME NEW n \in AppNames \ (missed \cup several), NEW k \in ListKeys \ raced[pr.repo],
                      n \in Range(live.lists[k].names), NEW e, e = live.apps[n]
               PROVE  e # None /\ k \in KeysOf(e)
    BY <1>1, <1>7, <1>8 DEF OnlyInv, live, dirVars
  <2>1. Count(live.lists[k].names, n) \in Nat /\ Count(live.lists[k].names, n) > 0 BY <1>8, CountIs
  <2>2. Count(live.lists[k].names, n) =< Allowed(e, k) BY <1>6 DEF FindInv, DirInv, AppInv, ExactInv, live
  <2>3. e # None BY <2>1, <2>2 DEF Allowed
  <2>4. e \in AppSpecs BY <1>6, <2>3 DEF AppDirType
  <2>5. Mentions(e.sources, k) \in Nat BY <2>4, SpecFacts, MentionsIs
  <2>6. Mentions(e.sources, k) > 0 BY <2>1, <2>2, <2>3, <2>5 DEF Allowed
  <2> QED BY <2>3, <2>4, <2>6, KeysOfIs
<1> QED BY <1>2, <1>3, <1>4, <1>5, <1>9, <1>10, <1>11, <1>12 DEF FindInv, CopyInv

(* What append makes of a slice. *)
LEMMA AppendedIs ==
  ASSUME NEW c \in SliceType(AppNames), NEW live \in ListType(AppNames), NEW t \in Seq(AppNames),
         NEW j, j = Appended(c, live, t)
  PROVE  /\ j \in SliceType(AppNames) /\ (j.shared => c.shared)
         /\ Len(c.names) \in Nat /\ Len(j.names) \in Nat /\ Len(c.names) =< Len(j.names)
         /\ \A i \in DOMAIN c.names : i \in DOMAIN j.names /\ j.names[i] = c.names[i]
         /\ \A m : m \in Range(j.names) <=> m \in Range(c.names) \/ m \in Range(t)
         /\ \A m \in Range(t) : \E p \in DOMAIN j.names : p > Len(c.names) /\ j.names[p] = m
<1>1. c.names \in Seq(AppNames) /\ c.shared \in BOOLEAN /\ Len(c.names) \in Nat BY DEF SliceType
<1>2. CASE t = << >>
  <2>1. j = c /\ Range(t) = {} BY <1>2 DEF Appended, Range
  <2> QED BY <1>1, <2>1
<1>3. CASE t # << >>
  <2> DEFINE s == c.names
             h == s \o t
             shared == c.shared /\ Len(s) + Len(t) =< live.cap
  <2>1. j = [names |-> h, shared |-> shared] BY <1>3 DEF Appended
  <2>2. j.names = h /\ (j.shared => c.shared)
    <3>1. shared => c.shared OBVIOUS
    <3>2. shared \in BOOLEAN OBVIOUS
    <3> HIDE DEF h, shared
    <3>3. j.names = h /\ j.shared = shared BY <2>1
    <3> QED BY <3>1, <3>3
  <2>3. /\ h \in Seq(AppNames) /\ Len(h) = Len(s) + Len(t) /\ DOMAIN h = 1..Len(h)
        /\ Len(s) \in Nat /\ Len(t) \in Nat /\ DOMAIN s = 1..Len(s) /\ DOMAIN t = 1..Len(t)
        /\ \A i \in DOMAIN s : i \in DOMAIN h /\ h[i] = s[i]
        /\ \A i \in DOMAIN h : i > Len(s) => i - Len(s) \in DOMAIN t /\ h[i] = t[i - Len(s)]
        /\ \A i \in DOMAIN t : Len(s) + i \in DOMAIN h /\ h[Len(s) + i] = t[i]
    BY <1>1, JoinedIs
  <2>4. j \in SliceType(AppNames)
    <3>1. shared \in BOOLEAN OBVIOUS
    <3> HIDE DEF h, shared
    <3> QED BY <2>1, <2>3, <3>1 DEF SliceType
  <2> HIDE DEF h, shared, s
  <2>5. \A i \in DOMAIN h : IF i > Len(s) THEN i - Len(s) \in DOMAIN t /\ h[i] = t[i - Len(s)]
                            ELSE i \in DOMAIN s /\ h[i] = s[i]
    BY <2>3
  <2>6. \A m \in Range(t) : \E p \in DOMAIN h : p > Len(s) /\ h[p] = m
    <3> SUFFICES ASSUME NEW m \in Range(t) PROVE \E p \in DOMAIN h : p > Len(s) /\ h[p] = m OBVIOUS
    <3>1. PICK i \in DOMAIN t : t[i] = m BY DEF Range
    <3>2. Len(s) + i > Len(s) BY <2>3, <3>1
    <3> QED BY <2>3, <3>1, <3>2
  <2>7. \A m : m \in Range(h) <=> m \in Range(s) \/ m \in Range(t)
    <3>1. ASSUME NEW m \in Range(h) PROVE m \in Range(s) \/ m \in Range(t)
      <4>1. PICK i \in DOMAIN h : h[i] = m BY DEF Range
      <4> QED BY <2>5, <4>1 DEF Range
    <3>2. ASSUME NEW m \in Range(s) PROVE m \in Range(h) BY <2>3 DEF Range
    <3>3. ASSUME NEW m \in Range(t) PROVE m \in Range(h) BY <2>6 DEF Range
    <3> QED BY <3>1, <3>2, <3>3
  <2>8. Len(h) \in Nat /\ Len(s) =< Len(h) BY <2>3
  <2> QED BY <2>2, <2>3, <2>4, <2>6, <2>7, <2>8 DEF s
<1> QED BY <1>2, <1>3

(* What it makes of the live list whose array it is in: a list of the same *)
(* length, and the same list if the slice had all of it.                   *)
LEMMA OverwrittenIs ==
  ASSUME NEW c \in SliceType(AppNames), NEW live \in ListType(AppNames), NEW t \in Seq(AppNames),
         NEW o, o = Overwritten(live, c, t)
  PROVE  /\ o \in ListType(AppNames)
         /\ (c.shared => Within(live, c)) => o = live
<1> DEFINE j == Appended(c, live, t)
           seen == [i \in DOMAIN live.names |-> IF i \in DOMAIN j.names THEN j.names[i] ELSE live.names[i]]
<1>1. /\ j \in SliceType(AppNames) /\ (j.shared => c.shared)
      /\ \A i \in DOMAIN c.names : i \in DOMAIN j.names /\ j.names[i] = c.names[i]
  BY AppendedIs
<1>2. o = live \/ (j.shared /\ o = [live EXCEPT !.names = seen]) BY DEF Overwritten, Seen
<1>3. /\ live.names \in Seq(AppNames) /\ Len(live.names) \in Nat /\ DOMAIN live.names = 1..Len(live.names)
      /\ live.cap \in Nat /\ Len(live.names) =< live.cap
      /\ live = [names |-> live.names, cap |-> live.cap]
  BY DEF ListType
<1>4. c.names \in Seq(AppNames) /\ Len(c.names) \in Nat /\ DOMAIN c.names = 1..Len(c.names) BY DEF SliceType
<1>5. j.names \in Seq(AppNames) BY <1>1 DEF SliceType
<1> HIDE DEF j
<1>6. \A i \in DOMAIN live.names : seen[i] \in AppNames BY <1>3, <1>5
<1>7. DOMAIN seen = 1..Len(live.names) BY <1>3
<1>8. seen \in Seq(AppNames) /\ Len(seen) = Len(live.names)
  <2>1. seen = [i \in 1..Len(live.names) |-> seen[i]] BY <1>7
  <2>2. \A i \in 1..Len(live.names) : seen[i] \in AppNames BY <1>3, <1>6
  <2> HIDE DEF seen
  <2>3. seen \in [1..Len(live.names) -> AppNames] BY <2>1, <2>2
  <2> QED BY <1>3, <2>3
<1>9. ASSUME j.shared, o = [live EXCEPT !.names = seen]
      PROVE  o \in ListType(AppNames) /\ ((c.shared => Within(live, c)) => o = live)
  <2>1. o = [names |-> seen, cap |-> live.cap] BY <1>3, <1>9
  <2>2. o \in ListType(AppNames)
    <3> HIDE DEF seen
    <3> QED BY <1>3, <1>8, <2>1 DEF ListType
  <2>3. ASSUME Within(live, c) PROVE o = live
    <3>1. Len(live.names) =< Len(c.names) /\ \A i \in DOMAIN live.names : live.names[i] = c.names[i]
      BY <2>3 DEF Within
    <3>2. \A i \in DOMAIN live.names : i \in DOMAIN c.names BY <1>3, <1>4, <3>1
    <3>3. \A i \in DOMAIN live.names : seen[i] = live.names[i] BY <1>1, <3>1, <3>2
    <3>4. live.names = [i \in DOMAIN live.names |-> live.names[i]] BY <1>3
    <3>5. seen = [i \in DOMAIN live.names |-> seen[i]] OBVIOUS
    <3> HIDE DEF seen
    <3>6. seen = live.names BY <3>3, <3>4, <3>5
    <3> QED BY <1>3, <2>1, <3>6
  <2> QED BY <1>1, <1>9, <2>2, <2>3
<1> QED BY <1>2, <1>9

(* The union leaves the live lists as they are, but for those in which the *)
(* watcher appended since they were copied.                                *)
LEMMA UnionIs ==
  ASSUME FindInv, Union
  PROVE  LET live == appDirs[pr.repo].lists
             mine == appCopy.lists
         IN
         /\ UNCHANGED <<apps, appTodo, sets, setDirs, setTodo, missed, several, events, pr, walking, kust, listVars, steady, raced>>
         /\ pc = "join" /\ pc' = "match" /\ walking = {}
         /\ pr \in PRs /\ pr.repo \in Repos
         /\ appDirs' \in [Repos -> AppDirType]
         /\ \A r \in Repos : /\ appDirs'[r].apps = appDirs[r].apps
                             /\ \A k \in ListKeys \ raced[r] : appDirs'[r].lists[k] = appDirs[r].lists[k]
         /\ appCopy' = [apps |-> appCopy'.apps, lists |-> appCopy'.lists]
         /\ appCopy'.apps = appCopy.apps
         /\ DOMAIN appCopy'.lists = ListKeys \cup DOMAIN kust
         /\ \A k \in ListKeys :
              /\ mine[k] \in SliceType(AppNames) /\ live[k] \in ListType(AppNames) /\ At(kust, k) \in Seq(AppNames)
              /\ appCopy'.lists[k] = Appended(mine[k], live[k], At(kust, k))
         /\ \A k \in DOMAIN kust \ ListKeys :
              /\ kust[k] \in Seq(AppNames) /\ At(kust, k) = kust[k]
              /\ appCopy'.lists[k] = [names |-> kust[k], shared |-> FALSE]
<1> DEFINE r0 == pr.repo
           live == appDirs[r0].lists
           mine == appCopy.lists
           over == [k \in ListKeys |-> Overwritten(live[k], mine[k], At(kust, k))]
           lists == [k \in ListKeys \cup DOMAIN kust |->
                       IF k \in ListKeys THEN Appended(mine[k], live[k], At(kust, k))
                       ELSE [names |-> kust[k], shared |-> FALSE]]
<1>1. /\ UNCHANGED <<apps, appTodo, sets, setDirs, setTodo, missed, several, events, pr, walking, kust, listVars, steady, raced>>
      /\ pc = "join" /\ pc' = "match"
      /\ appDirs' = [appDirs EXCEPT ![r0].lists = over]
      /\ appCopy' = [appCopy EXCEPT !.lists = lists]
  BY DEF Union
<1>2. /\ walking = {} /\ pr \in PRs /\ r0 \in Repos /\ KustType(kust)
      /\ appCopy = [apps |-> appCopy.apps, lists |-> mine]
      /\ \A k \in ListKeys : mine[k] \in SliceType(AppNames)
  BY <1>1 DEF FindInv, CheckInv, WalkInv, CopyInv, CopyTypeInv
<1>3. appDirs \in [Repos -> AppDirType] BY DEF FindInv, DirInv, AppInv, AppTypeOK
<1>4. live \in [ListKeys -> ListType(AppNames)] BY <1>2, <1>3 DEF AppDirType
<1>5. \A k : At(kust, k) \in Seq(AppNames) BY <1>2 DEF KustType, At
<1>6. ASSUME NEW k \in ListKeys
      PROVE  /\ over[k] \in ListType(AppNames)
             /\ k \notin raced[r0] => over[k] = live[k]
  <2> DEFINE c == mine[k]
             l == live[k]
             t == At(kust, k)
             o == over[k]
  <2>1. c \in SliceType(AppNames) /\ l \in ListType(AppNames) /\ t \in Seq(AppNames) BY <1>2, <1>4, <1>5
  <2>2. o = Overwritten(l, c, t) OBVIOUS
  <2>3. k \notin raced[r0] => (c.shared => Within(l, c)) BY <1>1 DEF FindInv, CopyInv, SharedInv
  <2> HIDE DEF c, l, t, o
  <2>4. o \in ListType(AppNames) /\ ((c.shared => Within(l, c)) => o = l) BY <2>1, <2>2, OverwrittenIs
  <2> QED BY <2>3, <2>4 DEF o, l
<1>7. over \in [ListKeys -> ListType(AppNames)] BY <1>6
<1>8. /\ appCopy' = [apps |-> appCopy'.apps, lists |-> appCopy'.lists] /\ appCopy'.apps = appCopy.apps
      /\ appCopy'.lists = lists
  <2> HIDE DEF lists, mine
  <2>1. appCopy' = [apps |-> appCopy.apps, lists |-> lists] BY <1>1, <1>2
  <2> QED BY <2>1
<1>9. /\ appDirs' \in [Repos -> AppDirType]
      /\ \A r \in Repos : /\ appDirs'[r].apps = appDirs[r].apps
                          /\ \A k \in ListKeys \ raced[r] : appDirs'[r].lists[k] = appDirs[r].lists[k]
  <2> HIDE DEF over, r0
  <2>1. /\ appDirs'[r0] = [apps |-> appDirs[r0].apps, lists |-> over]
        /\ \A r \in Repos \ {r0} : appDirs'[r] = appDirs[r]
        /\ DOMAIN appDirs' = Repos
    BY <1>1, <1>2, <1>3 DEF AppDirType
  <2>2. appDirs'[r0] \in AppDirType BY <1>2, <1>3, <1>7, <2>1 DEF AppDirType
  <2>3. appDirs' = [r \in Repos |-> appDirs'[r]] BY <1>1, <1>3, <2>1
  <2>4. \A r \in Repos : appDirs'[r] \in AppDirType BY <1>3, <2>1, <2>2
  <2>5. appDirs' \in [Repos -> AppDirType] BY <2>3, <2>4
  <2>6. appDirs'[r0].apps = appDirs[r0].apps /\ appDirs'[r0].lists = over BY <2>1
  <2> QED BY <1>6, <2>1, <2>5, <2>6
<1>10. /\ DOMAIN lists = ListKeys \cup DOMAIN kust
       /\ \A k \in ListKeys : lists[k] = Appended(mine[k], live[k], At(kust, k))
       /\ \A k \in DOMAIN kust \ ListKeys : lists[k] = [names |-> kust[k], shared |-> FALSE]
  OBVIOUS
<1>11. \A k \in DOMAIN kust \ ListKeys : kust[k] \in Seq(AppNames) /\ At(kust, k) = kust[k]
  BY <1>2 DEF KustType, At
<1> HIDE DEF lists, live, mine, r0
<1> QED BY <1>1, <1>2, <1>4, <1>5, <1>8, <1>9, <1>10, <1>11 DEF live, mine, r0

LEMMA FindInvUnion ==
  ASSUME FindInv, Union
  PROVE  FindInv'
<1> DEFINE live == appDirs[pr.repo].lists
           mine == appCopy.lists
           new == appCopy'.lists
<1>1. /\ UNCHANGED <<apps, appTodo, sets, setDirs, setTodo, missed, several, events, pr, walking, kust, listVars, steady, raced>>
      /\ pc = "join" /\ pc' = "match" /\ walking = {} /\ pr \in PRs /\ pr.repo \in Repos
      /\ appDirs' \in [Repos -> AppDirType]
      /\ \A r \in Repos : /\ appDirs'[r].apps = appDirs[r].apps
                          /\ \A k \in ListKeys \ raced[r] : appDirs'[r].lists[k] = appDirs[r].lists[k]
      /\ appCopy'.apps = appCopy.apps
      /\ DOMAIN new = ListKeys \cup DOMAIN kust
  BY UnionIs
<1>2. appCopy' = [apps |-> appCopy'.apps, lists |-> new] BY UnionIs
<1>3. ASSUME NEW k \in ListKeys
      PROVE  /\ mine[k] \in SliceType(AppNames) /\ live[k] \in ListType(AppNames)
             /\ new[k] \in SliceType(AppNames) /\ (new[k].shared => mine[k].shared)
             /\ Len(mine[k].names) \in Nat /\ Len(new[k].names) \in Nat /\ Len(mine[k].names) =< Len(new[k].names)
             /\ \A i \in DOMAIN mine[k].names : i \in DOMAIN new[k].names /\ new[k].names[i] = mine[k].names[i]
             /\ \A m : m \in Range(new[k].names) <=> m \in Range(mine[k].names) \/ m \in Range(At(kust, k))
             /\ \A m \in Range(At(kust, k)) : \E p \in DOMAIN new[k].names : p > Len(mine[k].names) /\ new[k].names[p] = m
  <2> DEFINE c == mine[k]
             l == live[k]
             t == At(kust, k)
             j == new[k]
  <2>1. c \in SliceType(AppNames) /\ l \in ListType(AppNames) /\ t \in Seq(AppNames) /\ j = Appended(c, l, t)
    BY UnionIs
  <2> HIDE DEF c, l, t, j
  <2>2. /\ j \in SliceType(AppNames) /\ (j.shared => c.shared)
        /\ Len(c.names) \in Nat /\ Len(j.names) \in Nat /\ Len(c.names) =< Len(j.names)
        /\ \A i \in DOMAIN c.names : i \in DOMAIN j.names /\ j.names[i] = c.names[i]
        /\ \A m : m \in Range(j.names) <=> m \in Range(c.names) \/ m \in Range(t)
        /\ \A m \in Range(t) : \E p \in DOMAIN j.names : p > Len(c.names) /\ j.names[p] = m
    BY <2>1, AppendedIs
  <2> QED BY <2>1, <2>2 DEF c, l, t, j
<1>4. ASSUME NEW k \in DOMAIN kust \ ListKeys
      PROVE  new[k] \in SliceType(AppNames) /\ new[k].names = At(kust, k) /\ ~new[k].shared
  <2>1. kust[k] \in Seq(AppNames) /\ At(kust, k) = kust[k] /\ new[k] = [names |-> kust[k], shared |-> FALSE]
    BY UnionIs
  <2> DEFINE t == kust[k]
             j == new[k]
  <2> HIDE DEF t, j
  <2>2. t \in Seq(AppNames) /\ j = [names |-> t, shared |-> FALSE] BY <2>1 DEF t, j
  <2>3. j \in SliceType(AppNames) /\ j.names = t /\ ~j.shared BY <2>2 DEF SliceType
  <2> QED BY <2>1, <2>3 DEF t, j
<1> HIDE DEF new, live, mine
<1>5. RacedGrows BY <1>1 DEF RacedGrows, FindInv, DirInv, AppInv, AppTypeOK
<1>6. AppInv' BY <1>1, <1>5, AppInvKept DEF FindInv, DirInv, AppInv, AppTypeOK
<1>7. SetInv' BY <1>1, SetInvUnchanged DEF FindInv, DirInv, SetInv, SetTypeOK
<1>8. DirInv' BY <1>1, <1>6, <1>7 DEF FindInv, DirInv, SteadyInv
<1>9. CheckInv' BY <1>1 DEF FindInv, CheckInv, listVars
<1>10. WalkInv' BY <1>1 DEF FindInv, WalkInv
<1>11. \A e : KustKeys(e)' = KustKeys(e) BY <1>1 DEF KustKeys
<1>12. \A k \in ListKeys : IsKey(k) BY DEF IsKey, ListKeys
<1>13. CopyTypeInv'
  <2>1. \A k \in DOMAIN kust : IsKey(k) BY DEF FindInv, WalkInv, KustType
  <2>2. DOMAIN appCopy'.apps = AppNames BY <1>1 DEF FindInv, CopyInv, CopyTypeInv
  <2>3. \A k \in DOMAIN new : new[k] \in SliceType(AppNames) BY <1>1, <1>3, <1>4
  <2> QED BY <1>1, <1>2, <1>12, <2>1, <2>2, <2>3 DEF CopyTypeInv, new
<1>14. SharedInv'
  <2> SUFFICES ASSUME NEW k \in ListKeys \ raced[pr.repo], new[k].shared PROVE Within(live[k], new[k])
    BY <1>1 DEF SharedInv, new, live
  <2>1. Within(live[k], mine[k]) BY <1>1, <1>3 DEF FindInv, CopyInv, SharedInv, live, mine
  <2>2. /\ Len(live[k].names) \in Nat /\ DOMAIN live[k].names = 1..Len(live[k].names)
        /\ DOMAIN mine[k].names = 1..Len(mine[k].names)
    BY <1>3 DEF ListType, SliceType
  <2> QED BY <1>3, <2>1, <2>2 DEF Within
<1>15. OwnInv'
  <2> SUFFICES ASSUME NEW n \in steady \cap AppNames, NEW e, e = appDirs[pr.repo].apps[n]
               PROVE  /\ appCopy.apps[n] = e
                      /\ e # None => \A k \in KeysOf(e) \ raced[pr.repo] : n \in Range(new[k].names)
    BY <1>1 DEF OwnInv, new
  <2>1. /\ appCopy.apps[n] = e
        /\ e # None => \A k \in KeysOf(e) \ raced[pr.repo] : n \in Range(mine[k].names)
    BY <1>1 DEF FindInv, CopyInv, OwnInv, mine
  <2>2. e # None => e \in AppSpecs BY <1>1 DEF FindInv, DirInv, AppInv, AppTypeOK, AppDirType
  <2> QED BY <1>3, <2>1, <2>2, KeysOfIs
<1>16. ASSUME NEW n \in steady \cap AppNames, NEW e, e = appDirs[pr.repo].apps[n]
       PROVE  \A k : n \in Range(At(kust, k)) <=> e # None /\ k \in KustKeys(e)
  BY <1>1, <1>16 DEF FindInv, WalkInv
<1>17. FollowedInv'
  <2> SUFFICES ASSUME NEW n \in steady \cap AppNames, NEW e, e = appDirs[pr.repo].apps[n], e # None,
                      NEW k \in KustKeys(e) \ raced[pr.repo]
               PROVE  /\ k \in DOMAIN new
                      /\ \E p \in DOMAIN new[k].names :
                           new[k].names[p] = n /\ (k \in ListKeys /\ new[k].shared => p > Len(live[k].names))
    <3>1. ASSUME NEW n \in steady' \cap AppNames, NEW e, e = appDirs'[pr.repo].apps[n], e # None,
                 NEW k \in KustKeys(e) \ raced[pr.repo]
          PROVE  /\ k \in DOMAIN new
                 /\ \E p \in DOMAIN new[k].names :
                      new[k].names[p] = n /\ (k \in ListKeys /\ new[k].shared => p > Len(appDirs'[pr.repo].lists[k].names))
      <4>1. e = appDirs[pr.repo].apps[n] /\ n \in steady BY <1>1, <3>1
      <4>2. k \in ListKeys => appDirs'[pr.repo].lists[k] = live[k] BY <1>1 DEF live
      <4>3. /\ k \in DOMAIN new
            /\ \E p \in DOMAIN new[k].names :
                 new[k].names[p] = n /\ (k \in ListKeys /\ new[k].shared => p > Len(live[k].names))
        BY <3>1, <4>1
      <4> QED BY <4>2, <4>3
    <3> QED BY <1>1, <1>11, <3>1 DEF FollowedInv, new
  <2>1. n \in Range(At(kust, k)) BY <1>16
  <2>2. k \in DOMAIN kust BY <2>1 DEF At, Range
  <2>3. CASE k \in ListKeys
    <3>1. PICK p \in DOMAIN new[k].names : p > Len(mine[k].names) /\ new[k].names[p] = n BY <1>3, <2>1, <2>3
    <3>2. new[k].shared => Len(live[k].names) =< Len(mine[k].names)
      BY <1>1, <1>3, <2>3 DEF FindInv, CopyInv, SharedInv, Within, live, mine
    <3>3. Len(live[k].names) \in Nat BY <1>3, <2>3 DEF ListType
    <3>4. DOMAIN new[k].names = 1..Len(new[k].names) /\ Len(mine[k].names) \in Nat BY <1>3, <2>3 DEF SliceType
    <3>5. new[k].shared => p > Len(live[k].names) BY <3>1, <3>2, <3>3, <3>4
    <3> QED BY <1>1, <2>3, <3>1, <3>5
  <2>4. CASE k \notin ListKeys
    <3>1. n \in Range(new[k].names) BY <1>4, <2>1, <2>2, <2>4
    <3>2. PICK p \in DOMAIN new[k].names : new[k].names[p] = n BY <3>1 DEF Range
    <3> QED BY <1>1, <2>2, <2>4, <3>2
  <2> QED BY <2>3, <2>4
<1>18. OnlyInv'
  <2> SUFFICES ASSUME NEW n \in (steady \cap AppNames) \ (missed \cup several), NEW e, e = appDirs[pr.repo].apps[n],
                      NEW k \in DOMAIN new \ raced[pr.repo], n \in Range(new[k].names)
               PROVE  e # None /\ k \in KeysOf(e) \cup KustKeys(e)
    BY <1>1, <1>11 DEF OnlyInv, new
  <2>1. CASE n \in Range(At(kust, k)) BY <1>16, <2>1
  <2>2. CASE n \notin Range(At(kust, k))
    <3>1. k \in ListKeys /\ n \in Range(mine[k].names) BY <1>1, <1>3, <1>4, <2>2
    <3>2. k \in DOMAIN mine \ raced[pr.repo] BY <1>1, <3>1 DEF FindInv, CopyInv, CopyTypeInv, mine
    <3> QED BY <1>1, <3>1, <3>2 DEF FindInv, CopyInv, OnlyInv, mine
  <2> QED BY <2>1, <2>2
<1>19. CopyInv' BY <1>13, <1>14, <1>15, <1>17, <1>18 DEF CopyInv
<1>20. SetCopyInv'
  <2> DEFINE d == setDirs[pr.repo]
  <2>1. setCopy' = [sets |-> d.sets, lists |-> Headers(d.lists)] BY DEF Union
  <2>2. d \in SetDirType BY <1>1 DEF FindInv, DirInv, SetInv, SetTypeOK
  <2>3. /\ setCopy' = [sets |-> setCopy'.sets, lists |-> setCopy'.lists] /\ setCopy'.sets = d.sets
        /\ DOMAIN setCopy'.lists = PatternKeys
        /\ setCopy'.lists = [p \in PatternKeys |-> setCopy'.lists[p]]
        /\ \A p \in PatternKeys : setCopy'.lists[p] = [names |-> d.lists[p].names, shared |-> TRUE]
    BY <2>1, <2>2 DEF SetDirType, Headers
  <2>4. \A p \in PatternKeys : d.lists[p].names \in Seq(SetNames) BY <2>2 DEF SetDirType, ListType
  <2>5. \A p \in PatternKeys : setCopy'.lists[p].names = d.lists[p].names /\ setCopy'.lists[p] \in SliceType(SetNames)
    <3> SUFFICES ASSUME NEW p \in PatternKeys, NEW s, s = d.lists[p].names, NEW c, c = setCopy'.lists[p]
                 PROVE  c.names = s /\ c \in SliceType(SetNames)
      OBVIOUS
    <3>1. s \in Seq(SetNames) /\ c = [names |-> s, shared |-> TRUE] BY <2>3, <2>4
    <3> QED BY <3>1 DEF SliceType
  <2>6. setCopy'.lists \in [PatternKeys -> SliceType(SetNames)]
    <3> DEFINE lists == setCopy'.lists
    <3>1. lists = [p \in PatternKeys |-> lists[p]] BY <2>3
    <3>2. \A p \in PatternKeys : lists[p] \in SliceType(SetNames) BY <2>5
    <3> HIDE DEF lists
    <3>3. lists \in [PatternKeys -> SliceType(SetNames)] BY <3>1, <3>2
    <3> QED BY <3>3 DEF lists
  <2>7. \A p \in PatternKeys : Agree(d.lists[p], setCopy'.lists[p]) BY <2>5 DEF Agree
  <2>8. ASSUME NEW n \in (steady \cap SetNames) \ missed, CanProcessAppSet(sets[n]), sets[n].repo = pr.repo
        PROVE  /\ setCopy'.sets[n] = sets[n]
               /\ \A g \in Generators(sets[n]) : Visible(g) =>
                    \A e \in Entries(g) : ~e.exclude =>
                      LET c == setCopy'.lists[[kind |-> e.kind, path |-> e.path]]
                          l == d.lists[[kind |-> e.kind, path |-> e.path]]
                      IN \E i \in DOMAIN c.names : c.names[i] = n /\ i \in DOMAIN l.names
    <3> DEFINE s == d.sets[n]
    <3>1. setTodo # << >> => Head(setTodo).name # n
      <4> SUFFICES ASSUME setTodo # << >> PROVE Head(setTodo).name # n OBVIOUS
      <4>1. Head(setTodo) = setTodo[1] /\ 1 \in DOMAIN setTodo BY DEF FindInv, DirInv, SetInv, SetCallsInv
      <4> QED BY <2>8, <4>1 DEF FindInv, DirInv, SteadyInv
    <3>2. /\ s # None => s = sets[n]
          /\ s = None => setTodo # << >> /\ Head(setTodo) = SetCall("add", n, sets[n])
      BY <1>1, <2>8, <3>1 DEF FindInv, DirInv, SetInv, SetMapInv
    <3>3. s # None /\ s = sets[n] BY <3>1, <3>2 DEF SetCall
    <3>4. sets[n] \in SetSpecs BY <2>8, <3>3 DEF FindInv, DirInv, SetInv, SetTypeOK
    <3>5. ASSUME NEW g \in Generators(sets[n]), Visible(g), NEW e \in Entries(g), ~e.exclude,
                 NEW p, p = [kind |-> e.kind, path |-> e.path]
          PROVE  \E i \in DOMAIN setCopy'.lists[p].names : setCopy'.lists[p].names[i] = n /\ i \in DOMAIN d.lists[p].names
      <4>1. p \in PatternKeys BY <3>4, <3>5, SetSpecFacts
      <4>2. n \in Range(d.lists[p].names) BY <1>1, <3>3, <3>5 DEF FindInv, DirInv, SetInv, SetIndexedInv
      <4>3. PICK i \in DOMAIN d.lists[p].names : d.lists[p].names[i] = n BY <4>2 DEF Range
      <4> QED BY <2>5, <4>1, <4>3
    <3> QED BY <2>3, <3>3, <3>5
  <2> HIDE DEF d
  <2> QED BY <1>1, <2>3, <2>6, <2>7, <2>8 DEF SetCopyInv, d
<1> QED BY <1>8, <1>9, <1>10, <1>19, <1>20 DEF FindInv

(* A copy that follows its arrays. *)
LEMMA FollowIs ==
  ASSUME NEW copy, NEW old, NEW new
  PROVE  /\ copy = [apps |-> copy.apps, lists |-> copy.lists] =>
              /\ Follow(copy, old, new) = [apps |-> copy.apps, lists |-> Follow(copy, old, new).lists]
              /\ Follow(copy, old, new).apps = copy.apps
         /\ copy = [sets |-> copy.sets, lists |-> copy.lists] =>
              /\ Follow(copy, old, new) = [sets |-> copy.sets, lists |-> Follow(copy, old, new).lists]
              /\ Follow(copy, old, new).sets = copy.sets
         /\ (copy = [apps |-> copy.apps, lists |-> copy.lists] \/ copy = [sets |-> copy.sets, lists |-> copy.lists]) =>
              Follow(copy, old, new).lists =
                [k \in DOMAIN copy.lists |-> IF k \in DOMAIN old THEN Held(copy.lists[k], old[k], new[k]) ELSE copy.lists[k]]
<1> DEFINE lists == [k \in DOMAIN copy.lists |-> IF k \in DOMAIN old THEN Held(copy.lists[k], old[k], new[k]) ELSE copy.lists[k]]
<1>1. Follow(copy, old, new) = [copy EXCEPT !.lists = lists] BY DEF Follow
<1> HIDE DEF lists
<1>2. ASSUME copy = [apps |-> copy.apps, lists |-> copy.lists]
      PROVE  /\ Follow(copy, old, new) = [apps |-> copy.apps, lists |-> lists]
             /\ Follow(copy, old, new).apps = copy.apps /\ Follow(copy, old, new).lists = lists
  <2>1. Follow(copy, old, new) = [apps |-> copy.apps, lists |-> lists] BY <1>1, <1>2
  <2> QED BY <2>1
<1>3. ASSUME copy = [sets |-> copy.sets, lists |-> copy.lists]
      PROVE  /\ Follow(copy, old, new) = [sets |-> copy.sets, lists |-> lists]
             /\ Follow(copy, old, new).sets = copy.sets /\ Follow(copy, old, new).lists = lists
  <2>1. Follow(copy, old, new) = [sets |-> copy.sets, lists |-> lists] BY <1>1, <1>3
  <2> QED BY <2>1
<1> QED BY <1>2, <1>3 DEF lists

(* What a step of the watcher does to the slices of the copy. *)
LEMMA WatchMoves ==
  ASSUME FindInv, Watch, pc \in {"join", "match"},
         NEW k \in DOMAIN appCopy.lists,
         NEW c, c = appCopy.lists[k], NEW h, h = appCopy'.lists[k]
  PROVE  /\ h \in SliceType(AppNames)
         /\ k \notin ListKeys => h = c
         /\ k \in ListKeys \ raced'[pr.repo] =>
              LET old == appDirs[pr.repo].lists[k]
                  new == appDirs'[pr.repo].lists[k]
              IN /\ new \in ListType(AppNames) /\ old \in ListType(AppNames)
                 /\ ~c.shared => h = c
                 /\ c.shared => /\ h.shared => Within(new, h) /\ Len(new.names) =< Len(old.names)
                                /\ ~h.shared => h.names = c.names
                                /\ Range(h.names) \subseteq Range(c.names)
                                /\ \A p \in DOMAIN c.names : /\ p \in DOMAIN h.names
                                                             /\ p > Len(old.names) => h.names[p] = c.names[p]
<1> DEFINE olds == appDirs[pr.repo].lists
           news == appDirs'[pr.repo].lists
           old == olds[k]
           new == news[k]
<1>1. Keeps BY WatchKeeps DEF FindInv
<1>2. pr.repo \in Repos BY DEF FindInv, CheckInv
<1>3. /\ appCopy' = Follow(appCopy, olds, news)
      /\ raced' = [raced EXCEPT ![pr.repo] = @ \cup AppendedInPlace(appCopy, olds, news)]
  BY DEF Watch
<1>4. /\ appCopy = [apps |-> appCopy.apps, lists |-> appCopy.lists] /\ c \in SliceType(AppNames)
  BY DEF FindInv, CopyInv, CopyTypeInv
<1>5. olds \in [ListKeys -> ListType(AppNames)] /\ news \in [ListKeys -> ListType(AppNames)]
  BY <1>1, <1>2 DEF Keeps, DirInv, AppInv, AppTypeOK, AppDirType, FindInv
<1>6. appCopy'.lists = [i \in DOMAIN appCopy.lists |->
                          IF i \in DOMAIN olds THEN Held(appCopy.lists[i], olds[i], news[i]) ELSE appCopy.lists[i]]
  <2> HIDE DEF olds, news
  <2> QED BY <1>3, <1>4, FollowIs
<1>7. DOMAIN olds = ListKeys BY <1>5
<1>8. ASSUME k \notin ListKeys PROVE h = c BY <1>6, <1>7, <1>8
<1>9. ASSUME k \in ListKeys
      PROVE  h = Held(c, old, new) /\ old \in ListType(AppNames) /\ new \in ListType(AppNames)
  BY <1>5, <1>6, <1>7, <1>9
<1>10. ASSUME k \in ListKeys PROVE Moved(old, new, AppNames)
  <2>1. Others(old, new, AppNames) BY <1>1, <1>2, <1>10 DEF Keeps
  <2> HIDE DEF old, new
  <2> QED BY <2>1 DEF Others, Moved
<1>11. ASSUME k \in ListKeys \ raced'[pr.repo], c.shared
       PROVE  Within(old, c) /\ ~(Len(old.names) < Len(new.names) /\ Len(old.names) < old.cap)
  <2>1. raced'[pr.repo] = raced[pr.repo] \cup AppendedInPlace(appCopy, olds, news)
    BY <1>2, <1>3 DEF FindInv, DirInv, AppInv, AppTypeOK
  <2>2. k \notin raced[pr.repo] /\ k \notin AppendedInPlace(appCopy, olds, news) BY <1>11, <2>1
  <2>3. Within(old, c) BY <1>11, <2>2 DEF FindInv, CopyInv, SharedInv
  <2>4. ~(Len(old.names) < Len(new.names) /\ Len(old.names) < old.cap)
    BY <1>7, <1>11, <2>2 DEF AppendedInPlace
  <2> QED BY <2>3, <2>4
<1> HIDE DEF old, new, olds, news
<1>12. ASSUME k \in ListKeys
       PROVE  h \in SliceType(AppNames) /\ DOMAIN h.names = DOMAIN c.names /\ (~c.shared => h = c)
  BY <1>4, <1>9, <1>12, HeldType
<1>13. ASSUME k \in ListKeys \ raced'[pr.repo], c.shared
       PROVE  /\ h.shared => Within(new, h) /\ Len(new.names) =< Len(old.names)
              /\ ~h.shared => h.names = c.names
              /\ Range(h.names) \subseteq Range(c.names)
              /\ \A p \in DOMAIN c.names : p > Len(old.names) => h.names[p] = c.names[p]
  BY <1>4, <1>9, <1>10, <1>11, <1>13, HeldWithin
<1>14. h \in SliceType(AppNames) BY <1>4, <1>8, <1>12
<1> QED BY <1>8, <1>9, <1>12, <1>13, <1>14 DEF old, new, olds, news

LEMMA FindInvWatch ==
  ASSUME FindInv, Watch
  PROVE  FindInv' /\ Keeps
<1>1. Keeps /\ UNCHANGED <<pc, pr, walking, kust, listVars>> BY WatchKeeps DEF FindInv, Watch
<1>2. CheckInv' BY <1>1 DEF FindInv, CheckInv, listVars
<1>3. pc # "idle" => pr \in PRs /\ pr.repo \in Repos BY DEF FindInv, CheckInv
<1>4. \A e : KustKeys(e)' = KustKeys(e) BY <1>1 DEF KustKeys
<1>5. \A n \in steady' \cap AppNames : n \in steady /\ \A r \in Repos : appDirs'[r].apps[n] = appDirs[r].apps[n]
  BY <1>1 DEF Keeps
<1>6. \A r \in Repos : raced[r] \subseteq raced'[r] BY <1>1 DEF Keeps, RacedGrows
<1>7. WalkInv'
  <2>1. walking' \subseteq [name : AppNames, spec : AppSpecs] /\ KustType(kust') BY <1>1 DEF FindInv, WalkInv
  <2>2. ASSUME pc \in {"walk", "join"}, NEW n \in steady' \cap AppNames, NEW e, e = appDirs'[pr.repo].apps[n]
        PROVE  /\ \A w \in walking : w.name = n => e # None /\ w.spec = e
               /\ \A k : n \in Range(At(kust, k)) <=> e # None /\ k \in KustKeys(e) /\ \A w \in walking : w.name # n
    <3>1. e = appDirs[pr.repo].apps[n] /\ n \in steady \cap AppNames BY <1>3, <1>5, <2>2
    <3> QED BY <2>2, <3>1 DEF FindInv, WalkInv
  <2> QED BY <1>1, <1>4, <2>1, <2>2 DEF WalkInv
<1>8. CopyInv'
  <2>1. CASE pc \notin {"join", "match"}
    BY <1>1, <2>1 DEF CopyInv, CopyTypeInv, SharedInv, OwnInv, FollowedInv, OnlyInv
  <2>2. CASE pc \in {"join", "match"}
    <3> DEFINE cs == appCopy.lists
               hs == appCopy'.lists
               olds == appDirs[pr.repo].lists
               news == appDirs'[pr.repo].lists
    <3>1. /\ appCopy = [apps |-> appCopy.apps, lists |-> cs] /\ DOMAIN appCopy.apps = AppNames
          /\ ListKeys \subseteq DOMAIN cs /\ \A k \in DOMAIN cs : IsKey(k)
          /\ pc = "join" => DOMAIN cs = ListKeys
      BY <2>2 DEF FindInv, CopyInv, CopyTypeInv
    <3>2. appCopy' = Follow(appCopy, olds, news) BY <2>2 DEF Watch
    <3>3. /\ appCopy' = [apps |-> appCopy'.apps, lists |-> hs] /\ appCopy'.apps = appCopy.apps
          /\ DOMAIN hs = DOMAIN cs
      <4>1. appCopy = [apps |-> appCopy.apps, lists |-> appCopy.lists] BY <3>1
      <4> HIDE DEF olds, news, cs, hs
      <4>2. /\ Follow(appCopy, olds, news) = [apps |-> appCopy.apps, lists |-> Follow(appCopy, olds, news).lists]
            /\ Follow(appCopy, olds, news).apps = appCopy.apps
            /\ Follow(appCopy, olds, news).lists =
                 [k \in DOMAIN appCopy.lists |->
                    IF k \in DOMAIN olds THEN Held(appCopy.lists[k], olds[k], news[k]) ELSE appCopy.lists[k]]
        BY <4>1, FollowIs
      <4>3. DOMAIN Follow(appCopy, olds, news).lists = DOMAIN cs BY <4>2 DEF cs
      <4> QED BY <3>2, <4>2, <4>3 DEF hs
    <3>4. ASSUME NEW k \in DOMAIN cs
          PROVE  /\ hs[k] \in SliceType(AppNames)
                 /\ k \notin ListKeys => hs[k] = cs[k]
                 /\ k \in ListKeys \ raced'[pr.repo] =>
                      /\ news[k] \in ListType(AppNames) /\ olds[k] \in ListType(AppNames)
                      /\ ~cs[k].shared => hs[k] = cs[k]
                      /\ cs[k].shared => /\ hs[k].shared => Within(news[k], hs[k]) /\ Len(news[k].names) =< Len(olds[k].names)
                                         /\ ~hs[k].shared => hs[k].names = cs[k].names
                                         /\ Range(hs[k].names) \subseteq Range(cs[k].names)
                                         /\ \A p \in DOMAIN cs[k].names :
                                              /\ p \in DOMAIN hs[k].names
                                              /\ p > Len(olds[k].names) => hs[k].names[p] = cs[k].names[p]
      BY <2>2, <3>4, WatchMoves
    <3>5. pr.repo \in Repos BY <1>3, <2>2
    <3> HIDE DEF cs, hs, olds, news
    <3>6. CopyTypeInv' BY <1>1, <3>1, <3>3, <3>4 DEF CopyTypeInv, hs
    <3>7. SharedInv' BY <1>1, <3>1, <3>4 DEF SharedInv, hs, news
    <3>8. ASSUME NEW n \in steady' \cap AppNames, NEW e, e = appDirs'[pr.repo].apps[n]
          PROVE  n \in steady \cap AppNames /\ e = appDirs[pr.repo].apps[n] /\ (e # None => e \in AppSpecs)
      <4>1. n \in steady \cap AppNames /\ e = appDirs[pr.repo].apps[n] BY <1>5, <3>5, <3>8
      <4> QED BY <3>5, <4>1 DEF FindInv, DirInv, AppInv, AppTypeOK, AppDirType
    <3>9. OwnInv'
      <4> SUFFICES ASSUME NEW n \in steady' \cap AppNames, NEW e, e = appDirs'[pr.repo].apps[n]
                   PROVE  /\ appCopy.apps[n] = e
                          /\ e # None => \A k \in KeysOf(e) \ raced'[pr.repo] : n \in Range(hs[k].names)
        BY <1>1, <3>3 DEF OwnInv, hs
      <4>1. n \in steady \cap AppNames /\ e = appDirs[pr.repo].apps[n] /\ (e # None => e \in AppSpecs) BY <3>8
      <4>2. appCopy.apps[n] = e BY <2>2, <4>1 DEF FindInv, CopyInv, OwnInv
      <4>3. ASSUME e # None, NEW k \in KeysOf(e) \ raced'[pr.repo] PROVE n \in Range(hs[k].names)
        <5>1. k \in ListKeys /\ k \notin raced[pr.repo] BY <1>6, <3>5, <4>1, <4>3, KeysOfIs
        <5>2. n \in Range(cs[k].names) BY <2>2, <4>1, <4>3, <5>1 DEF FindInv, CopyInv, OwnInv, cs
        <5>3. n \in Range(news[k].names) BY <1>1, <3>5, <4>3 DEF Keeps, DirInv, AppInv, IndexedInv, news
        <5>4. CASE cs[k].shared /\ hs[k].shared
          <6>1. Within(news[k], hs[k]) /\ news[k] \in ListType(AppNames) /\ hs[k] \in SliceType(AppNames)
            BY <3>1, <3>4, <4>3, <5>1, <5>4
          <6> DEFINE l == news[k]
                     h == hs[k]
          <6> HIDE DEF l, h
          <6>2. /\ Len(l.names) =< Len(h.names) /\ \A i \in DOMAIN l.names : l.names[i] = h.names[i]
                /\ DOMAIN l.names = 1..Len(l.names) /\ DOMAIN h.names = 1..Len(h.names)
                /\ Len(l.names) \in Nat /\ Len(h.names) \in Nat
            BY <6>1 DEF Within, ListType, SliceType, l, h
          <6>3. PICK i \in DOMAIN l.names : l.names[i] = n BY <5>3 DEF Range, l
          <6>4. i \in DOMAIN h.names /\ h.names[i] = n BY <6>2, <6>3
          <6> QED BY <6>4 DEF Range, h
        <5>5. CASE ~(cs[k].shared /\ hs[k].shared)
          <6>1. hs[k].names = cs[k].names BY <3>1, <3>4, <4>3, <5>1, <5>5
          <6> QED BY <5>2, <6>1
        <5> QED BY <5>4, <5>5
      <4> QED BY <4>2, <4>3
    <3>10. FollowedInv'
      <4> SUFFICES ASSUME pc = "match", NEW n \in steady' \cap AppNames, NEW e, e = appDirs'[pr.repo].apps[n], e # None,
                          NEW k \in KustKeys(e) \ raced'[pr.repo]
                   PROVE  /\ k \in DOMAIN hs
                          /\ \E p \in DOMAIN hs[k].names :
                               hs[k].names[p] = n /\ (k \in ListKeys /\ hs[k].shared => p > Len(news[k].names))
        BY <1>1, <1>4 DEF FollowedInv, hs, news
      <4>1. n \in steady \cap AppNames /\ e = appDirs[pr.repo].apps[n] BY <3>8
      <4>2. k \notin raced[pr.repo] BY <1>6, <3>5
      <4>3. k \in DOMAIN cs BY <4>1, <4>2 DEF FindInv, CopyInv, FollowedInv, cs
      <4>4. PICK p \in DOMAIN cs[k].names :
              cs[k].names[p] = n /\ (k \in ListKeys /\ cs[k].shared => p > Len(olds[k].names))
        BY <4>1, <4>2 DEF FindInv, CopyInv, FollowedInv, cs, olds
      <4>5. CASE k \notin ListKeys \/ ~cs[k].shared
        <5>1. hs[k] = cs[k] BY <3>4, <4>3, <4>5
        <5> QED BY <3>3, <4>3, <4>4, <4>5, <5>1
      <4>6. CASE k \in ListKeys /\ cs[k].shared
        <5>1. /\ p \in DOMAIN hs[k].names /\ hs[k].names[p] = n
              /\ hs[k].shared => Len(news[k].names) =< Len(olds[k].names)
          BY <3>4, <4>3, <4>4, <4>6
        <5>2. /\ Len(news[k].names) \in Nat /\ Len(olds[k].names) \in Nat /\ p \in Nat
          <6>1. news[k] \in ListType(AppNames) /\ olds[k] \in ListType(AppNames) /\ hs[k] \in SliceType(AppNames)
            BY <3>4, <4>3, <4>6
          <6>2. DOMAIN hs[k].names = 1..Len(hs[k].names) BY <6>1 DEF SliceType
          <6> QED BY <5>1, <6>1, <6>2 DEF ListType
        <5>3. hs[k].shared => p > Len(news[k].names) BY <4>4, <4>6, <5>1, <5>2
        <5> QED BY <3>3, <4>3, <5>1, <5>3
      <4> QED BY <4>5, <4>6
    <3>11. OnlyInv'
      <4> SUFFICES ASSUME NEW n \in (steady' \cap AppNames) \ (missed' \cup several'), NEW e, e = appDirs'[pr.repo].apps[n],
                          NEW k \in DOMAIN hs \ raced'[pr.repo], n \in Range(hs[k].names)
                   PROVE  e # None /\ k \in KeysOf(e) \cup (IF pc = "match" THEN KustKeys(e) ELSE {})
        BY <1>1, <1>4 DEF OnlyInv, hs
      <4>1. n \in (steady \cap AppNames) \ (missed \cup several) /\ e = appDirs[pr.repo].apps[n]
        BY <1>1, <3>8 DEF Keeps
      <4>2. k \in DOMAIN cs \ raced[pr.repo] BY <1>6, <3>3, <3>5
      <4>3. n \in Range(cs[k].names) BY <3>4, <4>2
      <4> QED BY <2>2, <4>1, <4>2, <4>3 DEF FindInv, CopyInv, OnlyInv, cs
    <3> QED BY <3>6, <3>7, <3>9, <3>10, <3>11 DEF CopyInv
  <2> QED BY <2>1, <2>2
<1>9. SetCopyInv'
  <2> SUFFICES ASSUME pc = "match" PROVE SetCopyInv' BY <1>1 DEF SetCopyInv
  <2> DEFINE olds == setDirs[pr.repo].lists
             news == setDirs'[pr.repo].lists
             cs == setCopy.lists
             hs == setCopy'.lists
  <2>1. setCopy' = Follow(setCopy, olds, news) BY DEF Watch
  <2>2. pr.repo \in Repos BY <1>3
  <2>3. olds \in [PatternKeys -> ListType(SetNames)] /\ news \in [PatternKeys -> ListType(SetNames)]
    BY <1>1, <2>2 DEF Keeps, FindInv, DirInv, SetInv, SetTypeOK, SetDirType
  <2>4. /\ setCopy = [sets |-> setCopy.sets, lists |-> cs] /\ cs \in [PatternKeys -> SliceType(SetNames)]
        /\ \A p \in PatternKeys : cs[p].shared => Agree(olds[p], cs[p])
    BY DEF FindInv, SetCopyInv
  <2>5. \A p \in PatternKeys : Others(olds[p], news[p], SetNames) BY <1>1, <2>2 DEF Keeps
  <2>6. /\ setCopy' = [sets |-> setCopy'.sets, lists |-> hs] /\ setCopy'.sets = setCopy.sets
        /\ hs = [p \in PatternKeys |-> Held(cs[p], olds[p], news[p])]
    <3> HIDE DEF olds, news, cs
    <3>1. /\ Follow(setCopy, olds, news) = [sets |-> setCopy.sets, lists |-> Follow(setCopy, olds, news).lists]
          /\ Follow(setCopy, olds, news).sets = setCopy.sets
          /\ Follow(setCopy, olds, news).lists =
               [k \in DOMAIN cs |-> IF k \in DOMAIN olds THEN Held(cs[k], olds[k], news[k]) ELSE cs[k]]
      BY <2>4, FollowIs DEF cs
    <3>2. DOMAIN cs = PatternKeys /\ DOMAIN olds = PatternKeys BY <2>3, <2>4
    <3> QED BY <2>1, <3>1, <3>2
  <2> HIDE DEF olds, news, cs, hs
  <2>7. ASSUME NEW p \in PatternKeys
        PROVE  /\ hs[p] \in SliceType(SetNames)
               /\ ~cs[p].shared => hs[p] = cs[p]
               /\ hs[p].shared => Agree(news[p], hs[p])
               /\ cs[p].shared =>
                    \A n \in steady' :
                      (\E i \in DOMAIN cs[p].names \cap DOMAIN olds[p].names : cs[p].names[i] = n) =>
                        \E i \in DOMAIN hs[p].names : hs[p].names[i] = n /\ (hs[p].shared => i \in DOMAIN news[p].names)
    <3> DEFINE c == cs[p]
               old == olds[p]
               new == news[p]
               h == hs[p]
    <3>1. /\ c \in SliceType(SetNames) /\ old \in ListType(SetNames) /\ new \in ListType(SetNames)
          /\ h = Held(c, old, new) /\ (c.shared => Agree(old, c)) /\ Others(old, new, SetNames)
      BY <2>3, <2>4, <2>5, <2>6
    <3> HIDE DEF c, old, new, h
    <3>2. h \in SliceType(SetNames) /\ (~c.shared => h = c) BY <3>1, HeldType
    <3>3. ASSUME c.shared, NEW n, NEW m, n # m, new = old \/ Grown(old, new, m) \/ Shrunk(old, new, m)
          PROVE  /\ h.shared => Agree(new, h)
                 /\ (\E i \in DOMAIN c.names \cap DOMAIN old.names : c.names[i] = n) =>
                      \E i \in DOMAIN h.names : h.names[i] = n /\ (h.shared => i \in DOMAIN new.names)
      BY <3>1, <3>3, HeldAgrees
    <3>4. \A n : \E m : m # n
      <4> SUFFICES ASSUME NEW n PROVE \E m : m # n OBVIOUS
      <4>1. {n} # n \/ {} # n OBVIOUS
      <4> QED BY <4>1
    <3>5. ASSUME c.shared, NEW n, n \in steady'
          PROVE  /\ h.shared => Agree(new, h)
                 /\ (\E i \in DOMAIN c.names \cap DOMAIN old.names : c.names[i] = n) =>
                      \E i \in DOMAIN h.names : h.names[i] = n /\ (h.shared => i \in DOMAIN new.names)
      <4>1. PICK m : m # n /\ (new = old \/ Grown(old, new, m) \/ Shrunk(old, new, m))
        BY <3>1, <3>4, <3>5 DEF Others
      <4> QED BY <3>3, <3>5, <4>1
    <3>6. ASSUME c.shared, h.shared PROVE Agree(new, h)
      <4>1. PICK m : new = old \/ Grown(old, new, m) \/ Shrunk(old, new, m) BY <3>1 DEF Others
      <4>2. PICK n : n # m BY <3>4
      <4> QED BY <3>3, <3>6, <4>1, <4>2
    <3>7. h.shared => c.shared BY <3>2
    <3>8. /\ h \in SliceType(SetNames)
          /\ ~c.shared => h = c
          /\ h.shared => Agree(new, h)
          /\ c.shared =>
               \A n \in steady' :
                 (\E i \in DOMAIN c.names \cap DOMAIN old.names : c.names[i] = n) =>
                   \E i \in DOMAIN h.names : h.names[i] = n /\ (h.shared => i \in DOMAIN new.names)
      BY <3>2, <3>5, <3>6, <3>7
    <3> QED BY <3>8 DEF c, old, new, h
  <2>8. hs \in [PatternKeys -> SliceType(SetNames)] BY <2>6, <2>7
  <2>9. ASSUME NEW n \in (steady' \cap SetNames) \ missed', CanProcessAppSet(sets'[n]), sets'[n].repo = pr.repo
        PROVE  /\ setCopy'.sets[n] = sets'[n]
               /\ \A g \in Generators(sets'[n]) : Visible(g) =>
                    \A e \in Entries(g) : ~e.exclude =>
                      LET p == [kind |-> e.kind, path |-> e.path]
                      IN \E i \in DOMAIN hs[p].names : hs[p].names[i] = n /\ (hs[p].shared => i \in DOMAIN news[p].names)
    <3>1. n \in (steady \cap SetNames) \ missed /\ sets'[n] = sets[n] BY <1>1, <2>9 DEF Keeps
    <3>2. setCopy.sets[n] = sets[n] BY <2>9, <3>1 DEF FindInv, SetCopyInv
    <3>3. sets[n] \in SetSpecs
      BY <2>9, <3>1 DEF FindInv, DirInv, SetInv, SetTypeOK, CanProcessAppSet
    <3>4. ASSUME NEW g \in Generators(sets[n]), Visible(g), NEW e \in Entries(g), ~e.exclude,
                 NEW p, p = [kind |-> e.kind, path |-> e.path]
          PROVE  \E i \in DOMAIN hs[p].names : hs[p].names[i] = n /\ (hs[p].shared => i \in DOMAIN news[p].names)
      <4>1. p \in PatternKeys BY <3>3, <3>4, SetSpecFacts
      <4>2. PICK i \in DOMAIN cs[p].names : cs[p].names[i] = n /\ (cs[p].shared => i \in DOMAIN olds[p].names)
        BY <2>9, <3>1, <3>4 DEF FindInv, SetCopyInv, cs, olds
      <4>3. CASE cs[p].shared BY <2>7, <2>9, <4>1, <4>2, <4>3
      <4>4. CASE ~cs[p].shared
        <5>1. hs[p] = cs[p] /\ ~hs[p].shared BY <2>7, <4>1, <4>4
        <5> QED BY <4>2, <5>1
      <4> QED BY <4>3, <4>4
    <3> QED BY <2>6, <3>1, <3>2, <3>4
  <2>10. setCopy' = [sets |-> setCopy'.sets, lists |-> setCopy'.lists] BY <2>6 DEF hs
  <2> QED BY <1>1, <2>7, <2>8, <2>9, <2>10 DEF SetCopyInv, hs, news
<1> QED BY <1>1, <1>2, <1>7, <1>8, <1>9 DEF FindInv, Keeps

-----------------------------------------------------------------------------
(* What the matchers return, from what the directories' copy says. *)
Argo == {[name |-> a.name, spec |-> a.spec, by |-> "matcher"] :
           a \in FindApps(Indexed(appCopy.lists), appCopy.apps, pr.change, pr.branch)}

(* A list of the copy that a changed file touches has the name n. *)
Hit(n) ==
  \E k \in DOMAIN appCopy.lists : n \in Range(appCopy.lists[k].names) /\ \E f \in pr.change : Touches(k, f)

LEMMA HitIs ==
  ASSUME NEW n
  PROVE  Hit(n) <=> \E x \in Indexed(appCopy.lists) : x.name = n /\ \E f \in pr.change : Touches(x, f)
<1> DEFINE entry(k, m) == [kind |-> k.kind, path |-> k.path, name |-> m]
<1>1. \A x : x \in Indexed(appCopy.lists) <=>
        \E k \in DOMAIN appCopy.lists : \E m \in Range(appCopy.lists[k].names) : x = entry(k, m)
  BY DEF Indexed
<1>2. \A k, m, f : entry(k, m).name = m /\ (Touches(entry(k, m), f) <=> Touches(k, f)) BY DEF Touches
<1> HIDE DEF entry
<1>3. ASSUME Hit(n)
      PROVE  \E x \in Indexed(appCopy.lists) : x.name = n /\ \E f \in pr.change : Touches(x, f)
  <2>1. PICK k \in DOMAIN appCopy.lists, f \in pr.change : n \in Range(appCopy.lists[k].names) /\ Touches(k, f)
    BY <1>3 DEF Hit
  <2>2. entry(k, n) \in Indexed(appCopy.lists) BY <1>1, <2>1
  <2> QED BY <1>2, <2>1, <2>2
<1>4. ASSUME NEW x \in Indexed(appCopy.lists), x.name = n, NEW f \in pr.change, Touches(x, f)
      PROVE  Hit(n)
  <2>1. PICK k \in DOMAIN appCopy.lists : \E m \in Range(appCopy.lists[k].names) : x = entry(k, m)
    BY <1>1
  <2>2. n \in Range(appCopy.lists[k].names) /\ x = entry(k, n) BY <1>2, <1>4, <2>1
  <2>3. Touches(k, f) BY <1>2, <1>4, <2>2
  <2> QED BY <2>1, <2>2, <2>3 DEF Hit
<1> QED BY <1>3, <1>4

LEMMA ArgoIs ==
  /\ \A a \in Argo :
       LET e == appCopy.apps[a.name] IN
       a = [name |-> a.name, spec |-> e, by |-> "matcher"] /\ e # None /\ Hit(a.name)
  /\ \A n \in DOMAIN appCopy.apps :
       LET e == appCopy.apps[n] IN
       e # None /\ ShouldInclude(e, pr.branch) /\ Hit(n) => [name |-> n, spec |-> e, by |-> "matcher"] \in Argo
<1> DEFINE found == FindApps(Indexed(appCopy.lists), appCopy.apps, pr.change, pr.branch)
<1>1. \A x : x \in found <=>
           \E n \in DOMAIN appCopy.apps :
             /\ x = [name |-> n, spec |-> appCopy.apps[n]]
             /\ appCopy.apps[n] # None /\ ShouldInclude(appCopy.apps[n], pr.branch)
             /\ Hit(n)
  BY FindAppsIs, HitIs
<1>2. Argo = {[name |-> a.name, spec |-> a.spec, by |-> "matcher"] : a \in found} BY DEF Argo
<1> HIDE DEF found
<1>3. ASSUME NEW a \in Argo
      PROVE  /\ a = [name |-> a.name, spec |-> appCopy.apps[a.name], by |-> "matcher"]
             /\ appCopy.apps[a.name] # None /\ Hit(a.name)
  <2>1. PICK x \in found : a = [name |-> x.name, spec |-> x.spec, by |-> "matcher"] BY <1>2
  <2>2. PICK n \in DOMAIN appCopy.apps :
             x = [name |-> n, spec |-> appCopy.apps[n]] /\ appCopy.apps[n] # None /\ Hit(n)
    BY <1>1
  <2>3. a.name = n /\ a.spec = appCopy.apps[n] /\ x.name = n BY <2>1, <2>2
  <2> QED BY <2>1, <2>2, <2>3
<1>4. ASSUME NEW n \in DOMAIN appCopy.apps, appCopy.apps[n] # None, ShouldInclude(appCopy.apps[n], pr.branch), Hit(n)
      PROVE  [name |-> n, spec |-> appCopy.apps[n], by |-> "matcher"] \in Argo
  <2> DEFINE x == [name |-> n, spec |-> appCopy.apps[n]]
  <2>1. x \in found BY <1>1, <1>4
  <2> QED BY <1>2, <2>1
<1> QED BY <1>3, <1>4

(* AffectedApps puts what the first matcher found into the list, and other names. *)
LEMMA AffectedAppsIs ==
  ASSUME AffectedApps
  PROVE  /\ Argo \subseteq items'
         /\ \A a \in items' \ Argo : a.by \in AppKeys /\ a.name \notin NamesOf(Argo)
         /\ matched' = items' /\ err' \in BOOLEAN
         /\ pc = "match" /\ pc' = "generate" /\ kust' = << >>
         /\ UNCHANGED <<dirVars, pr, walking, failed, claims, findings, steady, raced>>
         /\ todo' \in ManifestsFirst(FindAppSets(setCopy, pr.change))
<1>1. \A a \in ConfigApps(pr.config, pr.change) : a.by \in AppKeys BY DEF ConfigApps
<1>2. \/ items' = Argo
      \/ items' = Argo \cup {a \in ConfigApps(pr.config, pr.change) : a.name \notin NamesOf(Argo)}
  BY DEF AffectedApps, Argo
<1> QED BY <1>1, <1>2 DEF AffectedApps

(* An application that is known has its spec in the directory and in the   *)
(* copy, if any of its sources is in the pull request's repository.        *)
LEMMA KnownIsCopied ==
  ASSUME FindInv, pc = "match", NEW n \in AppNames, NEW s, Known(n, s)
  PROVE  /\ s \in AppSpecs /\ n \in (steady \cap AppNames) \ missed
         /\ appCopy.apps[n] = appDirs[pr.repo].apps[n]
         /\ pr.repo \in ReposOf(s) => appCopy.apps[n] = s
<1>1. n \in steady \ missed /\ CanProcessApp(s) /\ \E k \in AppKeys : AppNameOf[k] = n /\ apps[k] = s
  BY DEF Known
<1>2. s # None BY <1>1 DEF CanProcessApp
<1>3. s \in Wanted(n) BY <1>1, <1>2 DEF Wanted, Live
<1>4. \A t \in Wanted(n) : t = s BY <1>1, <1>3 DEF Wanted, FindInv, DirInv, AppInv, LiveInv
<1>5. s \in AppSpecs BY <1>1, <1>2 DEF FindInv, DirInv, AppInv, AppTypeOK
<1>6. appCopy.apps[n] = appDirs[pr.repo].apps[n] BY <1>1 DEF FindInv, CopyInv, OwnInv
<1>7. ASSUME pr.repo \in ReposOf(s) PROVE appDirs[pr.repo].apps[n] = s
  <2> DEFINE e == appDirs[pr.repo].apps[n]
  <2>1. \A c \in Todo : c.name # n BY <1>1 DEF FindInv, DirInv, SteadyInv, Todo
  <2>2. ~Removing(n) /\ \A t : Call("add", pr.repo, n, t) \notin Todo BY <2>1 DEF Removing, Call
  <2>3. pr.repo \in Repos BY DEF FindInv, CheckInv
  <2>4. (e # None => e \in Wanted(n)) /\ (e = None => \A t \in Wanted(n) : pr.repo \notin ReposOf(t))
    BY <1>1, <2>2, <2>3 DEF FindInv, DirInv, AppInv, MapInv
  <2> QED BY <1>3, <1>4, <1>7, <2>4
<1> QED BY <1>1, <1>5, <1>6, <1>7

(* The spellings of a path. *)
LEMMA RelativeIs ==
  ASSUME NEW s \in AppSpecs, NEW i \in DOMAIN s.sources, NEW path, path = s.sources[i].path
  PROVE  Relative(Relative(path)) = Relative(path) /\ (ValidPath(path) => Relative(path) = path)
<1>1. path \in Seq(Range(path)) /\ \A j \in DOMAIN path : path[j] = "/" => j = 1
  BY SpecAssumption DEF Sources
<1>2. CASE path # << >> /\ Head(path) = "/"
  <2>1. Relative(path) = Tail(path) BY <1>2 DEF Relative
  <2>2. CASE Tail(path) = << >> BY <1>2, <2>1, <2>2 DEF Relative, ValidPath
  <2>3. CASE Tail(path) # << >>
    <3>1. 2 \in DOMAIN path /\ Head(Tail(path)) = path[2] BY <1>1, <1>2, <2>3
    <3>2. Head(Tail(path)) # "/" BY <1>1, <3>1
    <3> QED BY <1>2, <2>1, <3>2 DEF Relative, ValidPath
  <2> QED BY <2>2, <2>3
<1>3. CASE ~(path # << >> /\ Head(path) = "/") BY <1>3 DEF Relative
<1> QED BY <1>2, <1>3

(* What an application reads is under a key of its own, unless it is       *)
(* overlooked or raced.                                                    *)
LEMMA ReadsIsKey ==
  ASSUME NEW s \in AppSpecs, NEW i \in DOMAIN s.sources, NEW x \in Reads(s.sources[i]), NEW f, Touches(x, f),
         ~Overlooked(s, i, x.how), ~Raced(x)
  PROVE  \E k \in (KeysOf(s) \cup KustKeys(s)) \ raced[pr.repo] : Touches(k, f)
<1> DEFINE src == s.sources[i]
           path == src.path
<1>1. src \in Sources(s) BY DEF Sources
<1>2. Relative(Relative(path)) = Relative(path) /\ (ValidPath(path) => Relative(path) = path) BY RelativeIs
<1>3. \/ x = [how |-> "directory", kind |-> "dir", path |-> Relative(path)]
      \/ \E v \in src.values : x = [how |-> "values", kind |-> "file", path |-> Join(Relative(path), v)]
      \/ \E e \in Followed(pr, Relative(path)) : x = [how |-> "kustomize", kind |-> e.kind, path |-> e.path]
  BY DEF Reads
<1>4. CASE x = [how |-> "directory", kind |-> "dir", path |-> Relative(path)]
  <2> DEFINE k == [kind |-> "dir", path |-> path]
  <2>1. k \in KeysOf(s) BY <1>1 DEF KeysOf
  <2>2. Touches(k, f) BY <1>2, <1>4 DEF Touches, DirContainsPath
  <2>3. k \notin raced[pr.repo] BY <1>2, <1>4 DEF Raced
  <2> QED BY <2>1, <2>2, <2>3
<1>5. ASSUME NEW v \in src.values, x = [how |-> "values", kind |-> "file", path |-> Join(Relative(path), v)]
      PROVE  \E k \in KeysOf(s) \ raced[pr.repo] : Touches(k, f)
  <2> DEFINE k == [kind |-> "file", path |-> Join(path, v)]
  <2>1. Relative(path) = path BY <1>2, <1>5 DEF Overlooked
  <2>2. k \in [kind : {"file"}, path : ValueFiles(src)] BY DEF ValueFiles
  <2>3. k \in KeysOf(s) BY <1>1, <2>2 DEF KeysOf
  <2>4. k.kind = x.kind /\ k.path = x.path BY <1>5, <2>1
  <2> HIDE DEF k
  <2> QED BY <2>3, <2>4 DEF Touches, Raced
<1>6. ASSUME NEW e \in Followed(pr, Relative(path)), x = [how |-> "kustomize", kind |-> e.kind, path |-> e.path]
      PROVE  \E k \in KustKeys(s) \ raced[pr.repo] : Touches(k, f)
  <2> DEFINE k == [kind |-> e.kind, path |-> e.path]
  <2>1. i = 1 /\ ValidPath(path) /\ ~WalkFails(pr, path) BY <1>6 DEF Overlooked
  <2>2. e \in ProcessKustomization(pr, s.sources[1].path) BY <1>2, <2>1 DEF ProcessKustomization
  <2>3. k \in KustKeys(s) BY <2>2 DEF KustKeys
  <2>4. k.kind = x.kind /\ k.path = x.path BY <1>6
  <2> HIDE DEF k
  <2> QED BY <2>3, <2>4 DEF Touches, Raced
<1> QED BY <1>3, <1>4, <1>5, <1>6

(* A known application that reads a changed file is found. *)
LEMMA MatchCompleteHolds ==
  ASSUME FindInv, AffectedApps
  PROVE  MatchComplete'
<1>1. /\ Argo \subseteq items' /\ matched' = items' /\ pc = "match"
      /\ UNCHANGED <<dirVars, pr, steady, raced>>
  BY AffectedAppsIs
<1> SUFFICES ASSUME NEW k \in AppKeys, Known(AppNameOf[k], apps[k]), ShouldInclude(apps[k], pr.branch),
                    NEW i \in DOMAIN apps[k].sources, NEW x \in Reads(apps[k].sources[i]), NEW f \in pr.change,
                    apps[k].sources[i].repo = pr.repo, Touches(x, f), ~Overlooked(apps[k], i, x.how), ~Raced(x)
             PROVE  \E a \in Argo : a.name = AppNameOf[k] /\ a.spec = apps[k]
  <2>1. \A n, s : Known(n, s)' <=> Known(n, s) BY <1>1 DEF Known, dirVars
  <2>2. \A src : Reads(src)' = Reads(src) BY <1>1 DEF Reads
  <2>3. \A s, i, how : Overlooked(s, i, how)' <=> Overlooked(s, i, how) BY <1>1 DEF Overlooked
  <2>4. \A x : Raced(x)' <=> Raced(x) BY <1>1 DEF Raced
  <2> QED BY <1>1, <2>1, <2>2, <2>3, <2>4 DEF MatchComplete, dirVars
<1> DEFINE n == AppNameOf[k]
           s == apps[k]
<1>2. n \in AppNames BY DEF AppNames
<1>3. Known(n, s) /\ ShouldInclude(s, pr.branch) OBVIOUS
<1>4. pr.repo \in ReposOf(s) BY DEF ReposOf, Sources
<1>5. /\ s \in AppSpecs /\ n \in steady \cap AppNames
      /\ appDirs[pr.repo].apps[n] = s /\ appCopy.apps[n] = s
  BY <1>1, <1>2, <1>3, <1>4, KnownIsCopied
<1>6. s # None BY <1>5, SpecFacts
<1>7. PICK key \in (KeysOf(s) \cup KustKeys(s)) \ raced[pr.repo] : Touches(key, f)
  <2>1. i \in DOMAIN s.sources /\ x \in Reads(s.sources[i]) /\ ~Overlooked(s, i, x.how) OBVIOUS
  <2> HIDE DEF s
  <2> QED BY <1>5, <2>1, ReadsIsKey
<1> HIDE DEF n, s
<1>8. key \in DOMAIN appCopy.lists /\ n \in Range(appCopy.lists[key].names)
  <2>1. CASE key \in KeysOf(s)
    <3>1. key \in ListKeys BY <1>5, <2>1, KeysOfIs
    <3>2. key \in DOMAIN appCopy.lists BY <1>1, <3>1 DEF FindInv, CopyInv, CopyTypeInv
    <3> QED BY <1>1, <1>5, <1>6, <1>7, <2>1, <3>2 DEF FindInv, CopyInv, OwnInv
  <2>2. CASE key \in KustKeys(s)
    <3>1. /\ key \in DOMAIN appCopy.lists
          /\ \E p \in DOMAIN appCopy.lists[key].names : appCopy.lists[key].names[p] = n
      BY <1>1, <1>5, <1>6, <1>7, <2>2 DEF FindInv, CopyInv, FollowedInv
    <3> QED BY <3>1 DEF Range
  <2> QED BY <1>7, <2>1, <2>2
<1>9. Hit(n) BY <1>7, <1>8 DEF Hit
<1>10. n \in DOMAIN appCopy.apps BY <1>1, <1>2 DEF FindInv, CopyInv, CopyTypeInv
<1>11. [name |-> n, spec |-> s, by |-> "matcher"] \in Argo BY <1>3, <1>5, <1>6, <1>9, <1>10, ArgoIs
<1> QED BY <1>11 DEF n, s

(* What is found of a known application is in a list of its own, or in a   *)
(* raced one.                                                              *)
LEMMA MatchPreciseHolds ==
  ASSUME FindInv, AffectedApps
  PROVE  MatchPrecise'
<1>1. /\ \A a \in items' \ Argo : a.by \in AppKeys
      /\ matched' = items' /\ pc = "match"
      /\ UNCHANGED <<dirVars, pr, steady, raced>>
  BY AffectedAppsIs
<1> SUFFICES ASSUME NEW a \in Argo, Known(a.name, a.spec), a.name \notin several
             PROVE  \E f \in pr.change :
                      \/ \E src \in Sources(a.spec) : \E x \in Reads(src) : Touches(x, f)
                      \/ \E k \in KeysOf(a.spec) \cup raced[pr.repo] : Touches(k, f)
  <2>1. \A n, s : Known(n, s)' <=> Known(n, s) BY <1>1 DEF Known, dirVars
  <2>2. \A src : Reads(src)' = Reads(src) BY <1>1 DEF Reads
  <2>3. \A b \in items' : b.by = "matcher" => b \in Argo BY <1>1, NamesAssumption
  <2> QED BY <1>1, <2>1, <2>2, <2>3 DEF MatchPrecise, dirVars
<1> DEFINE n == a.name
           s == a.spec
<1>2. s = appCopy.apps[n] /\ s # None /\ Hit(n) BY ArgoIs
<1>3. n \in AppNames BY DEF Known, AppNames
<1>4. Known(n, s) /\ n \notin several OBVIOUS
<1> HIDE DEF n, s
<1>5. s \in AppSpecs /\ n \in (steady \cap AppNames) \ (missed \cup several) /\ s = appDirs[pr.repo].apps[n]
  BY <1>1, <1>2, <1>3, <1>4, KnownIsCopied
<1>6. PICK k \in DOMAIN appCopy.lists, f \in pr.change : n \in Range(appCopy.lists[k].names) /\ Touches(k, f)
  BY <1>2 DEF Hit
<1>7. CASE k \in raced[pr.repo] \cup KeysOf(s) BY <1>6, <1>7 DEF s
<1>8. CASE k \in KustKeys(s)
  <2> DEFINE src == s.sources[1]
  <2>1. 1 \in DOMAIN s.sources /\ src \in Sources(s)
    <3>0. s \in AppSpecs BY <1>5
    <3>1. 1 \in DOMAIN s.sources
      <4>1. DOMAIN s.sources = 1..Len(s.sources) /\ Len(s.sources) \in Nat \ {0} BY <3>0, SpecFacts
      <4> QED BY <4>1
    <3> QED BY <3>1 DEF Sources
  <2>2. PICK e \in ProcessKustomization(pr, src.path) : k = [kind |-> e.kind, path |-> e.path]
    BY <1>8 DEF KustKeys
  <2>3. ~WalkFails(pr, src.path) /\ e \in Followed(pr, src.path) BY <2>2 DEF ProcessKustomization
  <2>4. src.path \in Visited(pr, src.path) BY DEF Visited
  <2>5. ValidPath(src.path) BY <2>3, <2>4 DEF WalkFails, Broken
  <2>6. Relative(src.path) = src.path BY <1>5, <2>1, <2>5, RelativeIs
  <2> DEFINE x == [how |-> "kustomize", kind |-> e.kind, path |-> e.path]
  <2>7. x \in Reads(src) BY <2>3, <2>6 DEF Reads
  <2>8. Touches(x, f) BY <1>6, <2>2 DEF Touches
  <2> QED BY <1>6, <2>1, <2>7, <2>8 DEF s
<1>9. k \in raced[pr.repo] \cup KeysOf(s) \cup KustKeys(s)
  BY <1>1, <1>5, <1>6 DEF FindInv, CopyInv, OnlyInv
<1> QED BY <1>7, <1>8, <1>9

-----------------------------------------------------------------------------
(***************************************************************************)
(* The list of applications while ApplicationSets are generated.           *)
(***************************************************************************)

ListTypeInv ==
  /\ err \in BOOLEAN /\ failed \subseteq SetNames /\ NamesOf(todo) \subseteq SetNames
  /\ \A a \in items : a.by \in {"matcher"} \cup AppKeys \cup SetNames

(* Every ApplicationSet is generated once ... *)
TodoInv == \A s, t \in todo : s.name = t.name => s = t

(* ... and what is in the list has a name of its own. *)
OnceInv == \A a, b \in items : a.name = b.name => a = b \/ {a.by, b.by} \subseteq AppKeys

(* Findings come with the generation, and fit the list from then on. *)
Fits(x) ==
  IF x.action = "removed" THEN x.name \notin NamesOf(items)
  ELSE \E a \in items : a.name = x.name /\ a.by = x.set
FindingsInv ==
  \A x \in findings : x.set \notin NamesOf(todo) /\ (Uncontested(x.name, x.set) => Fits(x))

(* An application a that is to be queued for ApplicationSet n: as in       *)
(* GeneratedIsQueued.                                                      *)
Generates(n, a) ==
  LET s == sets[n] IN
  \E g \in {x \in Generators(s) : x.repo = pr.repo /\ x.nested =< 1} :
    \E e \in {x \in Entries(g) : x.kind = "dir" /\ ~x.exclude} :
      \E d \in GitDirs(g, pr.head) \cap Candidates(e, pr.head) :
        a = FromTemplate(s, d) /\ \E f \in pr.change : IsStrictPrefix(d, f)
Watched(n) ==
  /\ n \in steady \ missed
  /\ CanProcessAppSet(sets[n])
  /\ sets[n].repo = pr.repo
  /\ \A f \in DOMAIN pr.manifests : pr.manifests[f].name # n
Alone(n, a) ==
  /\ ShouldInclude(a.spec, pr.branch)
  /\ \A b \in GenerateApplications(sets[n], "head") : b.name = a.name => b = a
Due(n, a) == Watched(n) /\ n \notin failed /\ Generates(n, a) /\ Alone(n, a) /\ Uncontested(a.name, n)

(* Until it is generated the ApplicationSet is in todo, as it is in the    *)
(* cluster, and then the application is in the list.                       *)
QueueInv ==
  pc \in {"generate", "done"} =>
    \A n \in SetNames : \A a : Due(n, a) =>
      \/ [name |-> n, spec |-> sets[n]] \in todo
      \/ n \notin NamesOf(todo) /\ [name |-> a.name, spec |-> a.spec, by |-> n] \in items

DoneInv == pc = "done" => todo = {}

ListInv == ListTypeInv /\ TodoInv /\ OnceInv /\ FindingsInv /\ QueueInv /\ DoneInv

-----------------------------------------------------------------------------
(* A directory that a generator turns into an application is in a tree of  *)
(* the pull request, and a changed file in it is found by its pattern.     *)
LEMMA DirFacts ==
  ASSUME NEW p \in PRs, NEW e, e.kind = "dir", NEW d \in Candidates(e, p.head),
         NEW f \in p.change, IsStrictPrefix(d, f)
  PROVE  /\ d \in Dirs(p.head) \ {<< >>} /\ DirContainsPath(d, f)
         /\ PatternMatches([kind |-> e.kind, path |-> e.path], f)
<1>1. d \in Dirs(p.head) /\ d # << >> /\ Match(e.path, d) BY DEF Candidates
<1>2. PICK t \in p.head : \E i \in 0..Len(t) - 1 : d = SubSeq(t, 1, i) BY <1>1 DEF Dirs
<1>0. PICK i \in 0..Len(t) - 1 : d = SubSeq(t, 1, i) BY <1>2
<1>3. t \in Seq(Range(t)) /\ t # << >> /\ Head(t) # "/" BY PRAssumption
<1>4. f \in Seq(Range(f)) /\ f # << >> BY PRAssumption
<1>5. Len(t) \in Nat /\ i \in 1..Len(t) BY <1>0, <1>1, <1>3
<1>6. d \in Seq(Range(t)) /\ Len(d) = i /\ d[1] = t[1] BY <1>0, <1>3, <1>5
<1>7. Head(d) # "/" BY <1>1, <1>3, <1>6
<1>8. Relative(d) = d BY <1>7 DEF Relative
<1>9. IsPrefix(d, f) /\ d # f BY DEF IsStrictPrefix
<1>10. DirContainsPath(d, f) BY <1>8, <1>9 DEF DirContainsPath
<1>11. Len(d) =< Len(f) /\ SubSeq(d, 1, Len(d)) = SubSeq(f, 1, Len(d)) BY <1>9 DEF IsPrefix
<1>12. SubSeq(d, 1, Len(d)) = d BY <1>6
<1>13. d = SubSeq(f, 1, Len(d)) BY <1>11, <1>12
<1>14. Len(d) # Len(f)
  <2>1. SubSeq(f, 1, Len(f)) = f BY <1>4
  <2> QED BY <1>9, <1>13, <2>1
<1>15. Len(d) \in 1..Len(f) - 1 BY <1>4, <1>5, <1>6, <1>11, <1>14
<1>16. d \in Parents(f) BY <1>13, <1>15 DEF Parents
<1>17. AnyParentMatches(e.path, f) BY <1>1, <1>16 DEF AnyParentMatches
<1> QED BY <1>1, <1>10, <1>17 DEF PatternMatches

(* What an ApplicationSet is due to queue passes the filter, whatever else *)
(* it generates.                                                           *)
LEMMA DuePasses ==
  ASSUME FindInv, pr \in PRs, NEW n \in SetNames, NEW a, Watched(n), Generates(n, a), Alone(n, a)
  PROVE  /\ a \in GenerateApplications(sets[n], "head")
         /\ \A as : a \in as => a \in FilterAppsByChangeList(as)
<1> DEFINE s == sets[n]
<1>1. s \in SetSpecs
  BY DEF Watched, CanProcessAppSet, FindInv, DirInv, SetInv, SetTypeOK
<1>2. PICK g, e, d, f :
        /\ g \in Generators(s) /\ g.repo = pr.repo /\ g.nested =< 1
        /\ e \in Entries(g) /\ e.kind = "dir" /\ ~e.exclude
        /\ d \in GitDirs(g, pr.head) \cap Candidates(e, pr.head) /\ a = FromTemplate(s, d)
        /\ f \in pr.change /\ IsStrictPrefix(d, f)
  BY DEF Generates
<1>3. f \in pr.change /\ IsStrictPrefix(d, f) BY <1>2
<1>4. d \in Dirs(pr.head) \ {<< >>} /\ DirContainsPath(d, f) BY <1>2, <1>3, DirFacts
<1>5. FilesFor(g, "head") = pr.head BY <1>2 DEF FilesFor, PointsToPR, Visible
<1>6. a \in GenerateApplications(s, "head") BY <1>2, <1>5 DEF GenerateApplications
<1>7. a.spec # None BY <1>1, <1>2, <1>4, NamesAssumption
<1>8. a.spec.sources = <<[repo |-> s.repo, path |-> d, values |-> s.values]>> BY <1>2 DEF FromTemplate
<1>9. [repo |-> s.repo, path |-> d, values |-> s.values] \in Sources(a.spec) BY <1>8 DEF Sources
<1> DEFINE key == [kind |-> "dir", path |-> d]
           x == [kind |-> "dir", path |-> d, name |-> a.name]
           appsMap == [m \in {a.name} |-> a.spec]
           entries == EntriesOf(a.name, a.spec)
<1>10. x \in entries
  <2>1. key \in KeysOf(a.spec) BY <1>9 DEF KeysOf
  <2>2. x = [kind |-> key.kind, path |-> key.path, name |-> a.name] OBVIOUS
  <2> HIDE DEF key, x
  <2> QED BY <2>1, <2>2 DEF EntriesOf, Named
<1>11. x.name = a.name /\ Touches(x, f) BY <1>4 DEF Touches
<1>12. a.name \in DOMAIN appsMap /\ appsMap[a.name] = a.spec OBVIOUS
<1>13. ShouldInclude(a.spec, pr.branch) BY DEF Alone
<1> HIDE DEF key, x, appsMap, entries
<1>14. [name |-> a.name, spec |-> appsMap[a.name]] \in FindApps(entries, appsMap, pr.change, pr.branch)
  BY <1>3, <1>7, <1>10, <1>11, <1>12, <1>13, FindAppsIs
<1>15. FindApps(entries, appsMap, pr.change, pr.branch) # {} BY <1>14
<1>16. \A as : a \in as => a \in FilterAppsByChangeList(as)
  BY <1>15 DEF FilterAppsByChangeList, entries, appsMap
<1> QED BY <1>6, <1>16

(* ... and the second pass of the matcher finds the ApplicationSet. *)
LEMMA DueIsFound ==
  ASSUME FindInv, pc = "match", NEW n \in SetNames, NEW a, Watched(n), Generates(n, a)
  PROVE  n \in FindAppSets(setCopy, pr.change) /\ setCopy.sets[n] = sets[n]
<1> DEFINE s == sets[n]
<1>1. s \in SetSpecs /\ s # None
  BY DEF Watched, CanProcessAppSet, FindInv, DirInv, SetInv, SetTypeOK
<1>2. PICK g, e, d, f :
        /\ g \in Generators(s) /\ g.nested =< 1
        /\ e \in Entries(g) /\ e.kind = "dir" /\ ~e.exclude
        /\ d \in Candidates(e, pr.head)
        /\ f \in pr.change /\ IsStrictPrefix(d, f)
  BY DEF Generates
<1>3. pr \in PRs BY DEF FindInv, CheckInv
<1> DEFINE p == [kind |-> e.kind, path |-> e.path]
<1>4. PatternMatches(p, f) BY <1>2, <1>3, DirFacts
<1>5. p \in PatternKeys BY <1>1, <1>2, SetSpecFacts
<1>6. Visible(g) BY <1>2 DEF Visible
<1>7. n \in (steady \cap SetNames) \ missed /\ CanProcessAppSet(sets[n]) /\ sets[n].repo = pr.repo
  BY DEF Watched
<1>8. setCopy.sets[n] = sets[n] BY <1>7 DEF FindInv, SetCopyInv
<1>9. \E i \in DOMAIN setCopy.lists[p].names : setCopy.lists[p].names[i] = n
  BY <1>2, <1>6, <1>7 DEF FindInv, SetCopyInv
<1>10. n \in Range(setCopy.lists[p].names) BY <1>9 DEF Range
<1> HIDE DEF p
<1> QED BY <1>1, <1>2, <1>4, <1>5, <1>8, <1>10 DEF FindAppSets

-----------------------------------------------------------------------------
(* The invariant of the list, step by step. *)
LEMMA ListInvInit == Init => ListInv
BY DEF Init, ListInv, ListTypeInv, TodoInv, OnceInv, FindingsInv, QueueInv, DoneInv, NamesOf

(* While the list is empty there is nothing to say. *)
LEMMA ListInvEmpty ==
  ASSUME FindInv, ListInv, UNCHANGED <<items, todo, failed, claims, findings, err>>,
         pc \notin {"generate", "done"}, pc' \notin {"generate", "done"}
  PROVE  ListInv'
<1>1. items = {} /\ todo = {} /\ findings = {} BY DEF FindInv, CheckInv
<1>2. ListTypeInv' /\ TodoInv' BY DEF ListInv, ListTypeInv, TodoInv, NamesOf
<1>3. OnceInv' /\ FindingsInv' BY <1>1 DEF OnceInv, FindingsInv
<1>4. QueueInv' /\ DoneInv' BY DEF QueueInv, DoneInv
<1> QED BY <1>2, <1>3, <1>4 DEF ListInv

(* The matchers put down the ApplicationSets, each once. *)
LEMMA ManifestsFirstIs ==
  ASSUME NEW found \in SUBSET SetNames, pr \in PRs, NEW ts \in ManifestsFirst(found)
  PROVE  /\ NamesOf(ts) \subseteq SetNames
         /\ \A s, t \in ts : s.name = t.name => s = t
         /\ \A n \in found : (\A f \in DOMAIN pr.manifests : pr.manifests[f].name # n) =>
              [name |-> n, spec |-> setCopy.sets[n]] \in ts
<1> DEFINE all == {pr.manifests[f] : f \in pr.change \cap DOMAIN pr.manifests}
           of(n) == [name |-> n, spec |-> setCopy.sets[n]]
<1>1. PICK inPR \in FirstOfEach(all) : ts = inPR \cup {of(n) : n \in found \ NamesOf(inPR)}
  BY DEF ManifestsFirst
<1>2. \A m \in all : m.name \in SetNames /\ \E f \in DOMAIN pr.manifests : m = pr.manifests[f]
  BY PRAssumption
<1> HIDE DEF all
<1>3. inPR \subseteq all /\ \A a, b \in inPR : a.name = b.name => a = b BY <1>1, FirstOfEachIs
<1>4. \A n : of(n).name = n OBVIOUS
<1>5. ASSUME NEW n \in found, \A f \in DOMAIN pr.manifests : pr.manifests[f].name # n PROVE of(n) \in ts
  <2>1. n \notin NamesOf(inPR) BY <1>2, <1>3, <1>5 DEF NamesOf
  <2> HIDE DEF of
  <2> QED BY <1>1, <2>1
<1> HIDE DEF of
<1>6. NamesOf(ts) \subseteq SetNames BY <1>1, <1>2, <1>3, <1>4 DEF NamesOf
<1>7. \A s, t \in ts : s.name = t.name => s = t BY <1>1, <1>3, <1>4 DEF NamesOf
<1> QED BY <1>5, <1>6, <1>7 DEF of

(* The list begins with what the matchers found. *)
LEMMA ListInvAffectedApps ==
  ASSUME FindInv, ListInv, AffectedApps
  PROVE  ListInv'
<1>1. /\ Argo \subseteq items'
      /\ \A a \in items' \ Argo : a.by \in AppKeys /\ a.name \notin NamesOf(Argo)
      /\ err' \in BOOLEAN /\ pc = "match" /\ pc' = "generate"
      /\ UNCHANGED <<dirVars, pr, failed, claims, findings, steady>>
      /\ todo' \in ManifestsFirst(FindAppSets(setCopy, pr.change))
  BY AffectedAppsIs
<1>2. pr \in PRs /\ failed = {} /\ findings = {} BY <1>1 DEF FindInv, CheckInv
<1>3. FindAppSets(setCopy, pr.change) \in SUBSET SetNames BY DEF FindAppSets
<1>4. /\ NamesOf(todo') \subseteq SetNames
      /\ \A s, t \in todo' : s.name = t.name => s = t
      /\ \A n \in FindAppSets(setCopy, pr.change) :
           (\A f \in DOMAIN pr.manifests : pr.manifests[f].name # n) =>
              [name |-> n, spec |-> setCopy.sets[n]] \in todo'
  BY <1>1, <1>2, <1>3, ManifestsFirstIs
<1>5. \A a \in Argo : a.by = "matcher" /\ \A b \in Argo : a.name = b.name => a = b
  BY ArgoIs
<1>6. ListTypeInv' BY <1>1, <1>2, <1>4, <1>5 DEF ListTypeInv, NamesOf
<1>7. TodoInv' BY <1>4 DEF TodoInv
<1>8. OnceInv' BY <1>1, <1>5 DEF OnceInv, NamesOf
<1>9. FindingsInv' BY <1>1, <1>2 DEF FindingsInv
<1>10. QueueInv'
  <2> SUFFICES ASSUME NEW n \in SetNames, NEW a, Watched(n), Generates(n, a)
               PROVE  [name |-> n, spec |-> sets[n]] \in todo'
    BY <1>1 DEF QueueInv, Due, Watched, Generates, dirVars
  <2>1. n \in FindAppSets(setCopy, pr.change) /\ setCopy.sets[n] = sets[n] BY <1>1, DueIsFound
  <2> QED BY <1>4, <2>1 DEF Watched
<1>11. DoneInv' BY <1>1 DEF DoneInv
<1> QED BY <1>6, <1>7, <1>8, <1>9, <1>10, <1>11 DEF ListInv

LEMMA ListInvGenerated ==
  ASSUME FindInv, ListInv, Generated
  PROVE  ListInv'
<1> USE DEF Generated, listVars
<1>1. ListTypeInv' /\ TodoInv' BY DEF ListInv, ListTypeInv, TodoInv, NamesOf
<1>2. OnceInv' BY DEF ListInv, OnceInv
<1>3. FindingsInv' BY DEF ListInv, FindingsInv, Fits, Uncontested, NamesOf
<1>4. QueueInv'
  <2>1. \A n, a : Due(n, a)' => Due(n, a)
    BY DEF dirVars, Due, Watched, Generates, Alone, GenerateApplications, FilesFor, PointsToPR, Uncontested
  <2> QED BY <2>1 DEF ListInv, QueueInv, dirVars
<1>5. DoneInv' BY DEF DoneInv
<1> QED BY <1>1, <1>2, <1>3, <1>4, <1>5 DEF ListInv

(* The next check begins with an empty list. *)
LEMMA ListInvEnd ==
  ASSUME ListInv, EndCheck
  PROVE  ListInv'
<1>1. /\ todo = {} /\ todo' = {} /\ pc' = "idle"
      /\ items' = {} /\ failed' = {} /\ findings' = {} /\ err' = FALSE
  BY DEF EndCheck, ListInv, DoneInv
<1> QED BY <1>1 DEF ListInv, ListTypeInv, TodoInv, NamesOf, OnceInv, FindingsInv, QueueInv, DoneInv

(* An ApplicationSet replaces the names it generates or gives up. *)
LEMMA ListInvGenerate ==
  ASSUME FindInv, ListInv, NEW s \in todo, NEW headOk \in BOOLEAN, NEW baseOk \in BOOLEAN,
         GenerateAppSet(s, headOk, baseOk)
  PROVE  ListInv'
<1> DEFINE head == GenerateApplications(s.spec, "head")
           base == GenerateApplications(s.spec, "base")
           gone == IF baseOk THEN NamesOf(base) \ NamesOf(head) ELSE {}
           Queued(as) == {[name |-> a.name, spec |-> a.spec, by |-> s.name] : a \in FilterAppsByChangeList(as)}
<1>1. /\ pc = "generate" /\ todo' = todo \ {s}
      /\ failed' = IF headOk /\ baseOk THEN failed ELSE failed \cup {s.name}
      /\ claims' = claims \cup [set : {s.name}, name : NamesOf(head \cup base)]
      /\ UNCHANGED <<dirVars, pc, pr, copyVars, matched, err, steady, raced>>
  BY DEF GenerateAppSet
<1>2. \/ ~headOk /\ UNCHANGED <<items, findings>>
      \/ \E h \in FirstOfEach(head), b \in FirstOfEach(base) :
           /\ headOk
           /\ items' = Keep(items, head, gone) \cup Queued(h)
           /\ findings' = findings \cup (IF baseOk THEN SpecDiff(s.name, h, b) ELSE {})
  BY DEF GenerateAppSet
<1> HIDE DEF head, base, gone
<1>3. s.name \in SetNames /\ s.name \notin NamesOf(todo') /\ NamesOf(todo') \subseteq NamesOf(todo)
  BY <1>1 DEF ListInv, ListTypeInv, TodoInv, NamesOf
<1>4. TodoInv' BY <1>1 DEF ListInv, TodoInv
<1>5. DoneInv' BY <1>1 DEF DoneInv
<1>6. /\ \A x, n : Uncontested(x, n)' => Uncontested(x, n)
      /\ \A x, n : Uncontested(x, n)' /\ n # s.name => x \notin NamesOf(head) \cup NamesOf(base)
  <2>1. \A x \in NamesOf(head) \cup NamesOf(base) : [set |-> s.name, name |-> x] \in claims' BY <1>1 DEF NamesOf
  <2> QED BY <1>1, <2>1 DEF Uncontested
<1>7. \A n, a : Due(n, a)' => Due(n, a) /\ (n = s.name => headOk /\ baseOk)
  BY <1>1 DEF dirVars, Due, Watched, Generates, Alone, GenerateApplications, FilesFor, PointsToPR, Uncontested
<1>8. CASE ~headOk /\ UNCHANGED <<items, findings>>
  <2>1. ListTypeInv' BY <1>1, <1>3, <1>8 DEF ListInv, ListTypeInv
  <2>2. OnceInv' BY <1>8 DEF ListInv, OnceInv
  <2>3. FindingsInv' BY <1>3, <1>6, <1>8 DEF ListInv, FindingsInv, Fits
  <2>4. QueueInv'
    <3> SUFFICES ASSUME NEW n \in SetNames, NEW a, Due(n, a), n # s.name
                 PROVE  \/ [name |-> n, spec |-> sets[n]] \in todo'
                        \/ n \notin NamesOf(todo') /\ [name |-> a.name, spec |-> a.spec, by |-> n] \in items
      BY <1>1, <1>7, <1>8 DEF QueueInv, dirVars
    <3>1. \/ [name |-> n, spec |-> sets[n]] \in todo
          \/ n \notin NamesOf(todo) /\ [name |-> a.name, spec |-> a.spec, by |-> n] \in items
      BY <1>1 DEF ListInv, QueueInv
    <3>2. [name |-> n, spec |-> sets[n]] # s OBVIOUS
    <3> QED BY <1>1, <1>3, <3>1, <3>2
  <2> QED BY <1>4, <1>5, <2>1, <2>2, <2>3, <2>4 DEF ListInv
<1>9. ASSUME headOk, NEW h \in FirstOfEach(head), NEW b \in FirstOfEach(base),
             items' = Keep(items, head, gone) \cup Queued(h),
             findings' = findings \cup (IF baseOk THEN SpecDiff(s.name, h, b) ELSE {})
      PROVE  ListInv'
  <2>1. /\ h \subseteq head /\ NamesOf(h) = NamesOf(head) /\ \A x, y \in h : x.name = y.name => x = y
        /\ b \subseteq base
    BY FirstOfEachIs
  <2> DEFINE fh == FilterAppsByChangeList(h)
             fb == FilterAppsByChangeList(b)
  <2>2. fh \subseteq h /\ fb \subseteq b BY DEF FilterAppsByChangeList
  <2>3. /\ \A x \in Queued(h) : x.by = s.name /\ \E a \in fh : x = [name |-> a.name, spec |-> a.spec, by |-> s.name]
        /\ \A a \in fh : [name |-> a.name, spec |-> a.spec, by |-> s.name] \in Queued(h)
    OBVIOUS
  <2> HIDE DEF Queued, fh, fb
  <2>4. \A x \in Keep(items, head, gone) : x \in items /\ x.name \notin NamesOf(head) \cup gone BY DEF Keep
  <2>5. \A x \in items : x.name \notin NamesOf(head) \cup NamesOf(base) => x \in Keep(items, head, gone)
    BY DEF Keep, gone
  <2>6. NamesOf(fh) \subseteq NamesOf(head) /\ NamesOf(fb) \subseteq NamesOf(base) BY <2>1, <2>2 DEF NamesOf
  <2>7. NamesOf(Queued(h)) = NamesOf(fh)
    <3>1. ASSUME NEW x \in Queued(h) PROVE x.name \in NamesOf(fh)
      <4>1. PICK a \in fh : x = [name |-> a.name, spec |-> a.spec, by |-> s.name] BY <2>3
      <4>2. x.name = a.name BY <4>1
      <4> QED BY <4>2 DEF NamesOf
    <3>2. ASSUME NEW a \in fh PROVE a.name \in NamesOf(Queued(h))
      <4> DEFINE x == [name |-> a.name, spec |-> a.spec, by |-> s.name]
      <4>1. x \in Queued(h) /\ x.name = a.name BY <2>3
      <4> QED BY <4>1 DEF NamesOf
    <3> QED BY <3>1, <3>2 DEF NamesOf
  <2>8. ListTypeInv' BY <1>1, <1>3, <1>9, <2>3, <2>4 DEF ListInv, ListTypeInv
  <2>9. OnceInv'
    <3>1. \A x, y \in Queued(h) : x.name = y.name => x = y BY <2>1, <2>2, <2>3
    <3>2. \A x \in Queued(h) : x.name \in NamesOf(head) BY <2>6, <2>7 DEF NamesOf
    <3>3. \A x, y \in Keep(items, head, gone) : x.name = y.name => x = y \/ {x.by, y.by} \subseteq AppKeys
      BY <2>4 DEF ListInv, OnceInv
    <3> QED BY <1>9, <2>4, <3>1, <3>2, <3>3 DEF OnceInv
  <2>10. FindingsInv'
    <3>1. ASSUME NEW x \in findings PROVE x.set \notin NamesOf(todo') /\ (Uncontested(x.name, x.set)' => Fits(x)')
      <4>1. x.set \notin NamesOf(todo) /\ (Uncontested(x.name, x.set) => Fits(x)) BY DEF ListInv, FindingsInv
      <4>2. x.set # s.name BY <4>1 DEF NamesOf
      <4>3. ASSUME Uncontested(x.name, x.set)' PROVE Fits(x)'
        <5>1. Fits(x) /\ x.name \notin NamesOf(head) \cup NamesOf(base) BY <1>6, <4>1, <4>2, <4>3
        <5>2. x.name \notin NamesOf(Queued(h)) BY <2>6, <2>7, <5>1
        <5>3. CASE x.action = "removed"
          <6>1. x.name \notin NamesOf(items') BY <1>9, <2>4, <5>1, <5>2, <5>3 DEF Fits, NamesOf
          <6> QED BY <5>3, <6>1 DEF Fits
        <5>4. CASE x.action # "removed"
          <6>1. PICK a \in items : a.name = x.name /\ a.by = x.set BY <5>1, <5>4 DEF Fits
          <6>2. a \in items' BY <1>9, <2>5, <5>1, <6>1
          <6> QED BY <5>4, <6>1, <6>2 DEF Fits
        <5> QED BY <5>3, <5>4
      <4> QED BY <1>3, <4>1, <4>3
    <3>2. ASSUME baseOk, NEW x \in SpecDiff(s.name, h, b) PROVE x.set = s.name /\ Fits(x)'
      <4>1. /\ x.set = s.name
            /\ \/ x.action \in {"added", "modified"} /\ x.name \in NamesOf(fh)
               \/ x.action = "removed" /\ x.name \in NamesOf(fb) \ NamesOf(fh)
        BY DEF SpecDiff, fh, fb, NamesOf
      <4>2. CASE x.action \in {"added", "modified"} /\ x.name \in NamesOf(fh)
        <5>1. PICK a \in fh : a.name = x.name BY <4>2 DEF NamesOf
        <5>2. [name |-> a.name, spec |-> a.spec, by |-> s.name] \in items' BY <1>9, <2>3
        <5> QED BY <4>1, <4>2, <5>1, <5>2 DEF Fits
      <4>3. CASE x.action = "removed" /\ x.name \in NamesOf(fb) \ NamesOf(fh)
        <5>1. x.name \in NamesOf(head) \cup gone BY <2>6, <3>2, <4>3 DEF gone
        <5>2. x.name \notin NamesOf(items') BY <1>9, <2>4, <2>7, <4>3, <5>1 DEF NamesOf
        <5> QED BY <4>1, <4>3, <5>2 DEF Fits
      <4> QED BY <4>1, <4>2, <4>3
    <3> QED BY <1>3, <1>9, <3>1, <3>2 DEF FindingsInv
  <2>11. QueueInv'
    <3> SUFFICES ASSUME NEW n \in SetNames, NEW a, Due(n, a)', Due(n, a), n = s.name => headOk /\ baseOk
                 PROVE  \/ [name |-> n, spec |-> sets[n]] \in todo'
                        \/ n \notin NamesOf(todo') /\ [name |-> a.name, spec |-> a.spec, by |-> n] \in items'
      BY <1>1, <1>7 DEF QueueInv, dirVars
    <3> DEFINE item == [name |-> a.name, spec |-> a.spec, by |-> n]
               set == [name |-> n, spec |-> sets[n]]
    <3>1. set \in todo \/ (n \notin NamesOf(todo) /\ item \in items) BY <1>1 DEF ListInv, QueueInv
    <3>2. CASE s = set
      <4>1. n = s.name /\ sets[n] = s.spec BY <3>2
      <4>2. a \in head /\ a \in fh
        <5>1. pr \in PRs BY <1>1 DEF FindInv, CheckInv
        <5>2. Watched(n) /\ Generates(n, a) /\ Alone(n, a) BY DEF Due
        <5>3. a \in head /\ \A as : a \in as => a \in FilterAppsByChangeList(as)
          BY <4>1, <5>1, <5>2, DuePasses DEF head
        <5>4. PICK y \in h : y.name = a.name BY <2>1, <5>3 DEF NamesOf
        <5>5. y = a BY <2>1, <4>1, <5>2, <5>4 DEF Alone, head
        <5> QED BY <5>3, <5>4, <5>5 DEF fh
      <4>3. item \in items' BY <1>9, <2>3, <4>1, <4>2
      <4> QED BY <1>3, <4>1, <4>3
    <3>3. CASE s # set
      <4>1. CASE set \in todo
        <5>1. set \in todo' BY <1>1, <3>3, <4>1
        <5> QED BY <5>1
      <4>2. CASE n \notin NamesOf(todo) /\ item \in items
        <5>1. n # s.name BY <4>2 DEF NamesOf
        <5>2. Uncontested(a.name, n)' BY DEF Due
        <5>3. a.name \notin NamesOf(head) \cup NamesOf(base) BY <1>6, <5>1, <5>2
        <5>4. item.name = a.name OBVIOUS
        <5> HIDE DEF item
        <5>5. item \in items' BY <1>9, <2>5, <4>2, <5>3, <5>4
        <5> QED BY <1>3, <4>2, <5>5 DEF item
      <4> QED BY <3>1, <4>1, <4>2
    <3> QED BY <3>2, <3>3
  <2> QED BY <1>4, <1>5, <2>8, <2>9, <2>10, <2>11 DEF ListInv
<1> QED BY <1>2, <1>8, <1>9
-----------------------------------------------------------------------------
(***************************************************************************)
(* The theorems.                                                           *)
(***************************************************************************)

(* Once the matchers are done the watchers are not followed any more. *)
LEMMA FindInvLater ==
  ASSUME FindInv, UNCHANGED <<dirVars, raced>>, kust' = << >>, walking' = {}, SteadyInv',
         pr' \in PRs \cup {None}, pc' \in {"generate", "done", "idle"}, pc' # "idle" => pr' = pr /\ pc # "idle",
         pc' = "idle" => items' = {} /\ todo' = {} /\ failed' = {} /\ claims' = {} /\ findings' = {}
  PROVE  FindInv'
<1>1. DirInv'
  <2>1. RacedGrows BY DEF RacedGrows, FindInv, DirInv, AppInv, AppTypeOK
  <2>2. AppInv' BY <2>1, AppInvUnchanged DEF dirVars, FindInv, DirInv, AppInv, AppTypeOK
  <2>3. SetInv' BY SetInvUnchanged DEF dirVars, FindInv, DirInv, SetInv, SetTypeOK
  <2> QED BY <2>2, <2>3 DEF dirVars, FindInv, DirInv
<1>2. CheckInv' BY DEF FindInv, CheckInv
<1>3. WalkInv' BY DEF WalkInv, KustType
<1>4. CopyInv' /\ SetCopyInv'
  BY DEF CopyInv, CopyTypeInv, SharedInv, OwnInv, FollowedInv, OnlyInv, SetCopyInv
<1> QED BY <1>1, <1>2, <1>3, <1>4 DEF FindInv

MatchInv == MatchComplete /\ MatchPrecise

(* What the matchers found is found still. *)
LEMMA MatchInvUnchanged ==
  ASSUME MatchInv, UNCHANGED <<dirVars, steady, pr, matched, raced>>, pc' = "generate" => pc = "generate"
  PROVE  MatchInv'
<1>1. \A n, s : Known(n, s)' <=> Known(n, s) BY DEF Known, dirVars
<1>2. \A src : Reads(src)' = Reads(src) BY DEF Reads
<1>3. \A s, i, how : Overlooked(s, i, how)' <=> Overlooked(s, i, how) BY DEF Overlooked
<1>4. \A x : Raced(x)' <=> Raced(x) BY DEF Raced
<1>5. MatchComplete' BY <1>1, <1>2, <1>3, <1>4 DEF MatchInv, MatchComplete, dirVars
<1>6. MatchPrecise' BY <1>1, <1>2 DEF MatchInv, MatchPrecise, dirVars
<1> QED BY <1>5, <1>6 DEF MatchInv

IInv == FindInv /\ ListInv /\ MatchInv

LEMMA IInvInit == Init => IInv
<1>1. Init => MatchInv BY DEF Init, MatchInv, MatchComplete, MatchPrecise
<1> QED BY <1>1, FindInvInit, ListInvInit DEF IInv

(* All of it together, for every step. *)
LEMMA IInvNext == IInv /\ [Next]_vars => IInv'
<1> SUFFICES ASSUME FindInv, ListInv, MatchInv, [Next]_vars PROVE FindInv' /\ ListInv' /\ MatchInv'
  BY DEF IInv
<1>1. ASSUME pc' \notin {"generate", "done"} PROVE MatchInv'
  BY <1>1 DEF MatchInv, MatchComplete, MatchPrecise
<1>2. CASE Watch
  <2>1. UNCHANGED <<pc, listVars>> /\ pc \notin {"generate", "done"} BY <1>2 DEF Watch
  <2>2. ListInv' BY <2>1, ListInvEmpty DEF listVars
  <2> QED BY <1>1, <1>2, <2>1, <2>2, FindInvWatch
<1>3. ASSUME NEW p \in PRs, StartCheck(p) PROVE FindInv' /\ ListInv' /\ MatchInv'
  <2>1. UNCHANGED listVars /\ pc \notin {"generate", "done"} /\ pc' \notin {"generate", "done"}
    BY <1>3 DEF StartCheck
  <2>2. ListInv' BY <2>1, ListInvEmpty DEF listVars
  <2> QED BY <1>1, <1>3, <2>1, <2>2, FindInvStart
<1>4. ASSUME NEW a \in walking, WalkApp(a) PROVE FindInv' /\ ListInv' /\ MatchInv'
  <2>1. UNCHANGED <<pc, listVars>> /\ pc \notin {"generate", "done"} BY <1>4 DEF WalkApp
  <2>2. ListInv' BY <2>1, ListInvEmpty DEF listVars
  <2> QED BY <1>1, <1>4, <2>1, <2>2, FindInvWalk
<1>5. CASE Copy
  <2>1. UNCHANGED listVars /\ pc \notin {"generate", "done"} /\ pc' \notin {"generate", "done"} BY <1>5 DEF Copy
  <2>2. ListInv' BY <2>1, ListInvEmpty DEF listVars
  <2> QED BY <1>1, <1>5, <2>1, <2>2, FindInvCopy
<1>6. CASE Union
  <2>1. UNCHANGED listVars /\ pc \notin {"generate", "done"} /\ pc' \notin {"generate", "done"} BY <1>6 DEF Union
  <2>2. ListInv' BY <2>1, ListInvEmpty DEF listVars
  <2> QED BY <1>1, <1>6, <2>1, <2>2, FindInvUnion
<1>7. CASE AffectedApps
  <2>1. /\ UNCHANGED <<dirVars, pr, walking, steady, raced>> /\ pc = "match" /\ pc' = "generate" /\ kust' = << >>
    BY <1>7, AffectedAppsIs
  <2>2. walking' = {} /\ pr' \in PRs /\ SteadyInv'
    BY <2>1 DEF FindInv, CheckInv, DirInv, SteadyInv, dirVars
  <2>3. FindInv' BY <2>1, <2>2, FindInvLater
  <2>4. MatchInv' BY <1>7, MatchCompleteHolds, MatchPreciseHolds DEF MatchInv
  <2> QED BY <1>7, <2>3, <2>4, ListInvAffectedApps
<1>8. CASE Generated
  <2>1. /\ UNCHANGED <<dirVars, pr, walking, kust, steady, raced, matched>> /\ pc = "generate" /\ pc' = "done"
    BY <1>8 DEF Generated, copyVars, listVars
  <2>2. walking' = {} /\ kust' = << >> /\ pr' \in PRs /\ SteadyInv'
    BY <2>1 DEF FindInv, CheckInv, DirInv, SteadyInv, dirVars
  <2>3. FindInv' BY <2>1, <2>2, FindInvLater
  <2>4. MatchInv' BY <2>1, MatchInvUnchanged
  <2> QED BY <1>8, <2>3, <2>4, ListInvGenerated
<1>9. CASE EndCheck
  <2>1. /\ UNCHANGED <<dirVars, walking, kust, todo, raced>> /\ pc = "done" /\ pc' = "idle" /\ pr' = None
        /\ items' = {} /\ failed' = {} /\ claims' = {} /\ findings' = {} /\ steady' = {}
    BY <1>9 DEF EndCheck, copyVars
  <2>2. walking' = {} /\ kust' = << >> /\ todo' = {} BY <2>1 DEF FindInv, CheckInv, ListInv, DoneInv
  <2>3. SteadyInv' BY <2>1 DEF SteadyInv
  <2>4. FindInv' BY <2>1, <2>2, <2>3, FindInvLater
  <2> QED BY <1>1, <1>9, <2>1, <2>4, ListInvEnd
<1>10. ASSUME NEW s \in todo, NEW headOk \in BOOLEAN, NEW baseOk \in BOOLEAN, GenerateAppSet(s, headOk, baseOk)
       PROVE  FindInv' /\ ListInv' /\ MatchInv'
  <2>1. pc = "generate" /\ pc' = "generate" /\ UNCHANGED <<dirVars, steady, pr, matched, walking, kust, raced>>
    BY <1>10 DEF GenerateAppSet, copyVars
  <2>2. walking' = {} /\ kust' = << >> /\ pr' \in PRs /\ SteadyInv'
    BY <2>1 DEF FindInv, CheckInv, DirInv, SteadyInv, dirVars
  <2>3. FindInv' BY <2>1, <2>2, FindInvLater
  <2>4. MatchInv' BY <2>1, MatchInvUnchanged
  <2> QED BY <1>10, <2>3, <2>4, ListInvGenerate
<1>11. CASE UNCHANGED vars
  <2> USE <1>11 DEF vars, copyVars, listVars
  <2>1. DirInv' BY DirInvUnchanged DEF FindInv
  <2>2. CheckInv' BY DEF FindInv, CheckInv
  <2>3. /\ \A e : KustKeys(e)' = KustKeys(e)
        /\ UNCHANGED <<appDirs, setDirs, apps, sets, missed, several>>
    BY DEF KustKeys, dirVars
  <2>4. WalkInv' BY <2>3 DEF FindInv, WalkInv
  <2>5. CopyInv' BY <2>3 DEF FindInv, CopyInv, CopyTypeInv, SharedInv, OwnInv, FollowedInv, OnlyInv
  <2>6. SetCopyInv' BY <2>3 DEF FindInv, SetCopyInv
  <2>7. MatchInv' BY MatchInvUnchanged
  <2>8. ListTypeInv' /\ TodoInv' /\ DoneInv' BY DEF ListInv, ListTypeInv, TodoInv, NamesOf, DoneInv
  <2>9. OnceInv' BY DEF ListInv, OnceInv
  <2>10. FindingsInv' BY DEF ListInv, FindingsInv, Fits, Uncontested, NamesOf
  <2>11. QueueInv'
    <3>1. \A n, a : Due(n, a)' => Due(n, a)
      BY DEF dirVars, Due, Watched, Generates, Alone, GenerateApplications, FilesFor, PointsToPR, Uncontested
    <3> QED BY <3>1 DEF ListInv, QueueInv, dirVars
  <2> QED BY <2>1, <2>2, <2>4, <2>5, <2>6, <2>7, <2>8, <2>9, <2>10, <2>11 DEF FindInv, ListInv
<1> QED BY <1>2, <1>3, <1>4, <1>5, <1>6, <1>7, <1>8, <1>9, <1>10, <1>11 DEF Next

LEMMA IInvAlways == Spec => []IInv
BY IInvInit, IInvNext, PTL DEF Spec

(* The directories map names to specs and count entries, whatever the      *)
(* watchers do, and a check keeps its variables in their types.            *)
THEOREM AffectedTypeOK == Spec => []TypeOK
<1>1. IInv => TypeOK
  <2> SUFFICES ASSUME IInv PROVE TypeOK OBVIOUS
  <2>1. DirsTypeOK
    BY DEF IInv, FindInv, DirInv, AppInv, AppTypeOK, AppDirType, ListType,
           SetInv, SetTypeOK, SetDirType, DirsTypeOK
  <2>2. steady \subseteq AppNames \cup SetNames /\ raced \in [Repos -> SUBSET ListKeys]
    BY DEF IInv, FindInv, DirInv, SteadyInv, AppInv, AppTypeOK
  <2>3. walking \subseteq [name : AppNames, spec : AppSpecs] BY DEF IInv, FindInv, WalkInv
  <2> QED BY <2>1, <2>2, <2>3 DEF IInv, FindInv, CheckInv, ListInv, ListTypeInv, TypeOK
<1> QED BY <1>1, IInvAlways, PTL

(* The watchers' part of the argument (app_watcher.go with                 *)
(* app_directory.go): however events and calls for different names follow  *)
(* each other, and although checks append to arrays of the live lists, the *)
(* directories are the cluster's, but for the lists that the watcher       *)
(* appended to while a check held them.                                    *)
THEOREM DirectoryIsCluster == Spec => []DirectoryMatchesCluster
<1>1. IInv => DirectoryMatchesCluster
  <2> SUFFICES ASSUME DirInv, NEW n \in AppNames \ missed, NEW r \in Repos, NEW e, e = appDirs[r].apps[n],
                      \A i \in DOMAIN appTodo : appTodo[i].name # n
               PROVE  /\ e # None => /\ \E k \in AppKeys : AppNameOf[k] = n /\ apps[k] = e
                                     /\ r \in ReposOf(e)
                                     /\ Named(KeysOf(e) \ raced[r], n) \subseteq Indexed(appDirs[r].lists)
                      /\ e = None => \A k \in AppKeys :
                           AppNameOf[k] = n /\ CanProcessApp(apps[k]) => r \notin ReposOf(apps[k])
    BY DEF IInv, FindInv, DirectoryMatchesCluster, ReposOf
  <2>1. ~Removing(n) /\ \A s : Call("add", r, n, s) \notin Todo BY DEF Removing, Call, Todo
  <2>2. /\ e # None => e \in Wanted(n) /\ r \in ReposOf(e)
        /\ e = None => \A s \in Wanted(n) : r \notin ReposOf(s)
    BY <2>1 DEF DirInv, AppInv, MapInv
  <2>3. ASSUME e # None PROVE Named(KeysOf(e) \ raced[r], n) \subseteq Indexed(appDirs[r].lists)
    <3>1. e \in AppSpecs BY <2>3 DEF DirInv, AppInv, AppTypeOK, AppDirType
    <3>2. DOMAIN appDirs[r].lists = ListKeys BY DEF DirInv, AppInv, AppTypeOK, AppDirType
    <3>3. \A k \in KeysOf(e) \ raced[r] : k \in ListKeys /\ n \in Range(appDirs[r].lists[k].names)
      BY <2>3, <3>1, KeysOfIs DEF DirInv, AppInv, IndexedInv
    <3> QED BY <3>2, <3>3 DEF Named, Indexed
  <2>4. e \in Wanted(n) => \E k \in AppKeys : AppNameOf[k] = n /\ apps[k] = e BY DEF Wanted, Live
  <2>5. \A k \in AppKeys : AppNameOf[k] = n /\ CanProcessApp(apps[k]) => apps[k] \in Wanted(n)
    BY DEF Wanted, Live, CanProcessApp
  <2> QED BY <2>2, <2>3, <2>4, <2>5
<1> QED BY <1>1, IInvAlways, PTL

(* NewArgocdMatcher and AffectedApps forget no application, whatever the   *)
(* watchers do while they walk, copy, join and search the lists that they  *)
(* share with them, but for what is overlooked and for raced lists.        *)
THEOREM NoneForgotten == Spec => []MatchComplete
BY IInvAlways, PTL DEF IInv, MatchInv

(* ... and find none without cause. *)
THEOREM NoneWithoutCause == Spec => []MatchPrecise
BY IInvAlways, PTL DEF IInv, MatchInv

(* GenerateListOfAffectedApps queues what a directory that the pull        *)
(* request changes is generated to, in whatever order the ApplicationSets  *)
(* are generated and whichever of the others fail.                         *)
THEOREM GeneratedGetsQueued == Spec => []GeneratedIsQueued
<1>1. IInv => GeneratedIsQueued
  <2> SUFFICES ASSUME IInv, pc = "done", NEW n \in SetNames,
                      n \in steady \ (missed \cup failed), CanProcessAppSet(sets[n]), sets[n].repo = pr.repo,
                      \A f \in DOMAIN pr.manifests : pr.manifests[f].name # n,
                      NEW g \in {x \in Generators(sets[n]) : x.repo = pr.repo /\ x.nested =< 1},
                      NEW e \in {x \in Entries(g) : x.kind = "dir" /\ ~x.exclude},
                      NEW d \in GitDirs(g, pr.head) \cap Candidates(e, pr.head), NEW a, a = FromTemplate(sets[n], d),
                      \E f \in pr.change : IsStrictPrefix(d, f),
                      ShouldInclude(a.spec, pr.branch), Uncontested(a.name, n),
                      \A b \in GenerateApplications(sets[n], "head") : b.name = a.name => b = a
               PROVE  [name |-> a.name, spec |-> a.spec, by |-> n] \in items
    BY DEF GeneratedIsQueued
  <2>1. Watched(n) /\ Alone(n, a) BY DEF Watched, Alone
  <2>2. Generates(n, a) BY DEF Generates
  <2>3. Due(n, a) BY <2>1, <2>2 DEF Due
  <2>4. todo = {} BY DEF IInv, ListInv, DoneInv
  <2> QED BY <2>3, <2>4 DEF IInv, ListInv, QueueInv
<1> QED BY <1>1, IInvAlways, PTL

(* The list of applications and appSetSpecFindings do not contradict each  *)
(* other (generateAppSetApps and appSetSpecDiffForChange).                 *)
THEOREM ListFitsFindings == Spec => []ListMatchesFindings
<1>1. IInv => ListMatchesFindings
  BY DEF IInv, ListInv, OnceInv, FindingsInv, Fits, ListMatchesFindings
<1> QED BY <1>1, IInvAlways, PTL
=============================================================================
