---------------------------- MODULE ListsProofs ----------------------------
(***************************************************************************)
(* What the other proofs use of lists, of what is picked from them, and of *)
(* functions defined by recursion.                                         *)
(***************************************************************************)
EXTENDS Positions, FiniteSetTheorems, WellFoundedInduction, TLAPS

(* Lists.                                                                  *)
LEMMA ListIs ==
  ASSUME NEW s, IsList(s)
  PROVE  /\ Len(s) \in Nat /\ DOMAIN s = 1..Len(s)
         /\ \A T : (\A i \in DOMAIN s : s[i] \in T) => s \in Seq(T)
<1>1. Len(s) \in Nat /\ DOMAIN s = 1..Len(s) /\ s = [i \in 1..Len(s) |-> s[i]]
  BY DEF IsList
<1>2. ASSUME NEW T, \A i \in DOMAIN s : s[i] \in T PROVE s \in Seq(T)
  <2>1. s \in [1..Len(s) -> T]
    BY <1>1, <1>2
  <2> QED BY <1>1, <2>1
<1> QED BY <1>1, <1>2

LEMMA ListOfLength ==
  ASSUME NEW n \in Nat, NEW s, s = [i \in 1..n |-> s[i]]
  PROVE  IsList(s) /\ Len(s) = n /\ DOMAIN s = 1..n
<1>1. s \in [1..n -> {s[i] : i \in DOMAIN s}]
  OBVIOUS
<1>2. s \in Seq({s[i] : i \in DOMAIN s})
  BY <1>1
<1>3. DOMAIN s = 1..n
  OBVIOUS
<1> QED BY <1>2, <1>3 DEF IsList

LEMMA ListsEqual ==
  ASSUME NEW s, NEW t, IsList(s), IsList(t), Len(s) = Len(t), \A i \in 1..Len(s) : s[i] = t[i]
  PROVE  s = t
<1>1. s = [i \in 1..Len(s) |-> s[i]] /\ t = [i \in 1..Len(t) |-> t[i]]
  BY DEF IsList
<1> QED BY <1>1

LEMMA ListAppend ==
  ASSUME NEW s, IsList(s), NEW e
  PROVE  /\ IsList(Append(s, e)) /\ Len(Append(s, e)) = Len(s) + 1
         /\ \A i \in 1..Len(s) : Append(s, e)[i] = s[i]
         /\ Append(s, e)[Len(s) + 1] = e
<1> DEFINE T == {s[i] : i \in DOMAIN s} \cup {e}
<1>1. s \in Seq(T)
  BY ListIs
<1> HIDE DEF T
<1>2. e \in T
  BY DEF T
<1>3. Append(s, e) \in Seq(T) /\ Len(Append(s, e)) = Len(s) + 1
  BY <1>1, <1>2
<1>4. IsList(Append(s, e))
  <2>1. Len(s) + 1 \in Nat
    BY <1>1
  <2>2. Append(s, e) = [i \in 1..Len(Append(s, e)) |-> Append(s, e)[i]]
    <3> DEFINE t == Append(s, e)
    <3>1. t \in Seq(T)
      BY <1>3
    <3> HIDE DEF t
    <3>2. t = [i \in 1..Len(t) |-> t[i]]
      BY <3>1
    <3> QED BY <3>2 DEF t
  <2> QED BY <1>3, <2>1, <2>2, ListOfLength
<1> QED BY <1>1, <1>2, <1>3, <1>4

LEMMA ListExcept ==
  ASSUME NEW s, IsList(s), NEW k \in 1..Len(s), NEW e
  PROVE  LET t == [s EXCEPT ![k] = e]
         IN /\ IsList(t) /\ Len(t) = Len(s) /\ t[k] = e
            /\ \A i \in 1..Len(s) : i # k => t[i] = s[i]
<1> DEFINE t == [s EXCEPT ![k] = e]
<1>1. Len(s) \in Nat /\ DOMAIN s = 1..Len(s)
  BY ListIs
<1>2. DOMAIN t = 1..Len(s) /\ t[k] = e /\ \A i \in 1..Len(s) : i # k => t[i] = s[i]
  BY <1>1
<1>3. t = [i \in 1..Len(s) |-> t[i]]
  BY <1>1
<1> HIDE DEF t
<1>4. IsList(t) /\ Len(t) = Len(s)
  BY <1>1, <1>3, ListOfLength
<1> QED BY <1>2, <1>4 DEF t

LEMMA ListFrom ==
  ASSUME NEW T, NEW s \in Seq(T)
  PROVE  IsList(s) /\ DOMAIN s = 1..Len(s) /\ Len(s) \in Nat /\ \A i \in DOMAIN s : s[i] \in T
<1>1. /\ Len(s) \in Nat /\ DOMAIN s = 1..Len(s) /\ \A i \in DOMAIN s : s[i] \in T
      /\ s = [i \in 1..Len(s) |-> s[i]]
  OBVIOUS
<1>2. IsList(s)
  BY <1>1, ListOfLength
<1> QED BY <1>1, <1>2

LEMMA SubList ==
  ASSUME NEW s, IsList(s), NEW n \in 0..Len(s)
  PROVE  /\ IsList(SubSeq(s, 1, n)) /\ Len(SubSeq(s, 1, n)) = n /\ DOMAIN SubSeq(s, 1, n) = 1..n
         /\ \A k \in 1..n : SubSeq(s, 1, n)[k] = s[k]
<1> DEFINE t == SubSeq(s, 1, n)
           T == {s[i] : i \in DOMAIN s}
<1>1. s \in Seq(T) /\ Len(s) \in Nat /\ n \in Nat
  BY ListIs DEF IsList
<1> HIDE DEF T
<1>2. Len(t) = n /\ DOMAIN t = 1..n /\ t = [k \in 1..n |-> s[k]]
  BY <1>1
<1> HIDE DEF t
<1>3. t = [k \in 1..n |-> t[k]] /\ \A k \in 1..n : t[k] = s[k]
  BY <1>2
<1>4. IsList(t)
  BY <1>1, <1>3, ListOfLength
<1> QED BY <1>2, <1>3, <1>4 DEF t

LEMMA SeqFacts ==
  ASSUME NEW T
  PROVE  /\ \A e \in T : <<e>> \in Seq(T)
         /\ \A a, b \in Seq(T) : a \o b \in Seq(T)
         /\ \A a \in Seq(T) : a # <<>> => SubSeq(a, 1, Len(a) - 1) \in Seq(T)
<1>1. ASSUME NEW e \in T PROVE <<e>> \in Seq(T)
  OBVIOUS
<1>2. ASSUME NEW a \in Seq(T), NEW b \in Seq(T) PROVE a \o b \in Seq(T)
  OBVIOUS
<1>3. ASSUME NEW a \in Seq(T), a # <<>> PROVE SubSeq(a, 1, Len(a) - 1) \in Seq(T)
  <2>1. Len(a) \in Nat /\ Len(a) # 0
    BY <1>3
  <2>2. \A i \in 1..(Len(a) - 1) : a[i] \in T
    BY <2>1
  <2> QED BY <2>1, <2>2
<1> QED BY <1>1, <1>2, <1>3

LEMMA ConcatFacts ==
  ASSUME NEW T, NEW a \in Seq(T), NEW b \in Seq(T)
  PROVE  /\ a \o b \in Seq(T) /\ Len(a \o b) = Len(a) + Len(b)
         /\ Len(a) \in Nat /\ Len(b) \in Nat
         /\ \A i \in 1..Len(a) : (a \o b)[i] = a[i]
         /\ \A i \in 1..Len(b) : (a \o b)[Len(a) + i] = b[i]
<1>1. a \o b \in Seq(T) /\ Len(a \o b) = Len(a) + Len(b)
  OBVIOUS
<1>2. ASSUME NEW i \in 1..Len(a) PROVE (a \o b)[i] = a[i]
  OBVIOUS
<1>3. ASSUME NEW i \in 1..Len(b) PROVE (a \o b)[Len(a) + i] = b[i]
  OBVIOUS
<1> QED BY <1>1, <1>2, <1>3

LEMMA SaidTwice ==
  ASSUME NEW T, NEW e \in T
  PROVE  /\ <<>> \o <<e>> = <<e>> /\ <<e>> \o <<e>> = <<e, e>>
         /\ <<>> \in Seq(T) /\ <<e>> \in Seq(T) /\ <<e, e>> \in Seq(T)
<1>1. <<>> \in Seq(T) /\ <<e>> \in Seq(T) /\ <<e, e>> \in Seq(T)
  OBVIOUS
<1>2. <<>> \o <<e>> = <<e>>
  OBVIOUS
<1>3. <<e>> \o <<e>> = <<e, e>>
  <2> DEFINE E == {e}
             a == <<e>>
             t == a \o a
  <2>1. a \in Seq(E) /\ Len(a) = 1
    OBVIOUS
  <2> HIDE DEF a, E
  <2>2. t \in Seq(E) /\ Len(t) = 2
    BY <2>1
  <2> HIDE DEF t
  <2>3. t[1] \in E /\ t[2] \in E /\ t = [i \in 1..2 |-> t[i]]
    BY <2>2
  <2>4. t[1] = e /\ t[2] = e
    BY <2>3 DEF E
  <2>5. t = <<e, e>>
    BY <2>3, <2>4
  <2> QED BY <2>5 DEF a, t
<1> QED BY <1>1, <1>2, <1>3

LEMMA SplitBack ==
  ASSUME NEW E, NEW path \in Seq(E), NEW n \in 1..Len(path)
  PROVE  SubSeq(path, 1, n - 1) \o SubSeq(path, n, Len(path)) = path
<1> DEFINE a == SubSeq(path, 1, n - 1)
           b == SubSeq(path, n, Len(path))
           c == a \o b
<1>1. /\ a \in Seq(E) /\ Len(a) = n - 1 /\ \A i \in 1..(n - 1) : a[i] = path[i]
      /\ b \in Seq(E) /\ Len(b) = Len(path) - n + 1
      /\ \A i \in 1..(Len(path) - n + 1) : b[i] = path[n - 1 + i]
  OBVIOUS
<1> HIDE DEF a, b
<1>2. c \in Seq(E) /\ Len(c) = Len(path)
  BY <1>1
<1>3. ASSUME NEW i \in 1..Len(path) PROVE c[i] = path[i]
  <2>1. CASE i \in 1..(n - 1)
    <3>1. c[i] = a[i]
      BY <1>1, <2>1
    <3> QED BY <1>1, <2>1, <3>1
  <2>2. CASE i \notin 1..(n - 1)
    <3>1. i - (n - 1) \in 1..(Len(path) - n + 1) /\ n - 1 + (i - (n - 1)) = i
      BY <2>2
    <3>2. c[i] = b[i - (n - 1)]
      BY <1>1, <2>2, <3>1
    <3> QED BY <1>1, <3>1, <3>2
  <2> QED BY <2>1, <2>2
<1> HIDE DEF c
<1>4. c = path
  BY <1>2, <1>3
<1> QED BY <1>4 DEF a, b, c

LEMMA UpToMore ==
  ASSUME NEW n \in Nat
  PROVE  /\ n + 1 \in 1..(n + 1) /\ \A i \in 1..n : i \in 1..(n + 1) /\ i < n + 1
         /\ \A i \in 1..(n + 1) : i \in 1..n \/ i = n + 1
OBVIOUS

-----------------------------------------------------------------------------
(***************************************************************************)
(* Picking from a list keeps what is picked, all of it, and its order.     *)
(***************************************************************************)
(* Every n up to the size of a finite set of numbers has its n-th number:  *)
(* OrderIn is one-to-one into an interval of the same size, so it is onto. *)
LEMMA NthExists ==
  ASSUME NEW n \in Nat, NEW K \in SUBSET (1..n)
  PROVE  /\ Cardinality(K) \in Nat
         /\ \A k \in 1..Cardinality(K) : Nth(K, k) \in K /\ OrderIn(K, Nth(K, k)) = k
         /\ \A i \in K : OrderIn(K, i) \in 1..Cardinality(K) /\ Nth(K, OrderIn(K, i)) = i
<1>1. IsFiniteSet(K) /\ K \subseteq Nat
  <2>1. IsFiniteSet(1..n)
    BY FS_Interval
  <2>2. IsFiniteSet(K)
    BY <2>1, FS_Subset
  <2> QED BY <2>2
<1>2. Cardinality(K) \in Nat
  BY <1>1, FS_CardinalityType
<1>3. ASSUME NEW i \in K PROVE OrderIn(K, i) \in 1..Cardinality(K)
  <2> DEFINE D == {j \in K : j <= i}
  <2>1. IsFiniteSet(D) /\ Cardinality(D) <= Cardinality(K)
    BY <1>1, FS_Subset
  <2>2. Cardinality(D) \in Nat
    BY <2>1, FS_CardinalityType
  <2>3. i \in D
    BY <1>1
  <2>4. Cardinality(D) # 0
    BY <2>1, <2>3, FS_EmptySet
  <2> HIDE DEF D
  <2>5. Cardinality(D) \in 1..Cardinality(K)
    BY <1>2, <2>1, <2>2, <2>4
  <2> QED BY <2>5 DEF OrderIn, D
<1>4. ASSUME NEW a \in K, NEW b \in K, a < b PROVE OrderIn(K, a) < OrderIn(K, b)
  <2> DEFINE A == {j \in K : j <= a}
             B == {j \in K : j <= b}
  <2>1. A \subseteq B /\ A # B
    <3>1. b \in B /\ b \notin A
      BY <1>1, <1>4
    <3>2. \A j \in K : j <= a => j <= b
      BY <1>1, <1>4
    <3>3. A \subseteq B
      BY <3>2
    <3> QED BY <3>1, <3>3
  <2>2. IsFiniteSet(B)
    BY <1>1, FS_Subset
  <2> HIDE DEF A, B
  <2>3. Cardinality(A) <= Cardinality(B) /\ Cardinality(A) # Cardinality(B)
    BY <2>1, <2>2, FS_Subset
  <2>4. OrderIn(K, a) = Cardinality(A) /\ OrderIn(K, b) = Cardinality(B)
    BY DEF OrderIn, A, B
  <2> QED BY <1>2, <1>3, <2>3, <2>4
<1>5. \A a, b \in K : OrderIn(K, a) = OrderIn(K, b) => a = b
  <2> SUFFICES ASSUME NEW a \in K, NEW b \in K, OrderIn(K, a) = OrderIn(K, b), a # b
               PROVE  FALSE
    OBVIOUS
  <2>1. a < b \/ b < a
    BY <1>1
  <2>2. OrderIn(K, a) < OrderIn(K, b) \/ OrderIn(K, b) < OrderIn(K, a)
    BY <1>4, <2>1
  <2> QED BY <1>2, <1>3, <2>2
<1> DEFINE I == 1..Cardinality(K)
           f == [i \in K |-> OrderIn(K, i)]
<1>6. IsFiniteSet(I) /\ Cardinality(I) = Cardinality(K)
  <2>1. ASSUME NEW c \in Nat PROVE IsFiniteSet(1..c) /\ Cardinality(1..c) = c
    <3>1. IsFiniteSet(1..c) /\ Cardinality(1..c) = IF 1 > c THEN 0 ELSE c - 1 + 1
      BY FS_Interval
    <3> QED BY <3>1
  <2> QED BY <1>2, <2>1
<1>7. f \in Injection(K, I)
  BY <1>3, <1>5 DEF Injection, IsInjective
<1>8. f \in Surjection(K, I)
  <2> HIDE DEF f, I
  <2> QED BY <1>6, <1>7, FS_Injection
<1>9. \A k \in I : \E i \in K : OrderIn(K, i) = k
  BY <1>8 DEF Surjection
<1>10. \A k \in I : Nth(K, k) \in K /\ OrderIn(K, Nth(K, k)) = k
  BY <1>9 DEF Nth
<1>11. ASSUME NEW i \in K PROVE Nth(K, OrderIn(K, i)) = i
  BY <1>3, <1>5, <1>10
<1> QED BY <1>2, <1>3, <1>10, <1>11

(* What Picked returns: a list of the elements at the positions K, one for *)
(* each.                                                                   *)
LEMMA PickedIs ==
  ASSUME NEW S, NEW s \in Seq(S), NEW K \in SUBSET (DOMAIN s)
  PROVE  /\ Picked(s, K) \in Seq(S) /\ Len(Picked(s, K)) = Cardinality(K)
         /\ Cardinality(K) \in Nat /\ Cardinality(K) <= Len(s)
         /\ DOMAIN Picked(s, K) = 1..Cardinality(K)
         /\ \A n \in 1..Cardinality(K) :
              /\ Nth(K, n) \in K /\ OrderIn(K, Nth(K, n)) = n
              /\ Picked(s, K)[n] = s[Nth(K, n)]
         /\ \A i \in K : /\ OrderIn(K, i) \in 1..Cardinality(K) /\ Nth(K, OrderIn(K, i)) = i
                         /\ Picked(s, K)[OrderIn(K, i)] = s[i]
<1>1. PICK l \in Nat : l = Len(s) /\ DOMAIN s = 1..l
  OBVIOUS
<1>2. K \in SUBSET (1..l)
  BY <1>1
<1>3. /\ Cardinality(K) \in Nat
      /\ \A n \in 1..Cardinality(K) : Nth(K, n) \in K /\ OrderIn(K, Nth(K, n)) = n
      /\ \A i \in K : OrderIn(K, i) \in 1..Cardinality(K) /\ Nth(K, OrderIn(K, i)) = i
  BY <1>2, NthExists
<1>4. Cardinality(K) <= l
  <2>1. IsFiniteSet(1..l) /\ Cardinality(1..l) = IF 1 > l THEN 0 ELSE l - 1 + 1
    BY FS_Interval
  <2>2. Cardinality(K) <= Cardinality(1..l)
    BY <1>2, <2>1, FS_Subset
  <2> QED BY <1>1, <2>1, <2>2
<1>5. PICK c \in Nat : c = Cardinality(K)
  BY <1>3
<1>6. \A n \in 1..c : s[Nth(K, n)] \in S
  BY <1>1, <1>2, <1>3, <1>5
<1>7. Picked(s, K) = [n \in 1..c |-> s[Nth(K, n)]]
  BY <1>5 DEF Picked
<1>8. Picked(s, K) \in Seq(S) /\ Len(Picked(s, K)) = c /\ DOMAIN Picked(s, K) = 1..c
  BY <1>6, <1>7
<1>9. \A n \in 1..c : Picked(s, K)[n] = s[Nth(K, n)]
  BY <1>7
<1> QED BY <1>1, <1>3, <1>4, <1>5, <1>8, <1>9

(* The first of what is picked.                                            *)
LEMMA PickedCons ==
  ASSUME NEW n \in Nat, NEW s, NEW K \in SUBSET (1..n), NEW a \in 1..n, \A k \in K : a < k
  PROVE  Picked(s, K \cup {a}) = <<s[a]>> \o Picked(s, K)
<1> DEFINE L == K \cup {a}
           c == Cardinality(K)
<1>1. IsFiniteSet(1..n)
  BY FS_Interval
<1>2. IsFiniteSet(K) /\ a \notin K
  <2>1. a \notin K
    <3>1. a \in Nat /\ ~(a < a)
      OBVIOUS
    <3> QED BY <3>1
  <2> QED BY <1>1, <2>1, FS_Subset
<1>3. Cardinality(L) = c + 1 /\ c \in Nat
  BY <1>2, FS_AddElement, FS_CardinalityType
<1>4. OrderIn(L, a) = 1
  <2>1. {j \in L : j <= a} = {a}
    <3>1. ASSUME NEW k \in K PROVE ~(k <= a)
      <4>1. k \in 1..n /\ a < k
        OBVIOUS
      <4>2. k \in Nat /\ a \in Nat
        BY <4>1
      <4> QED BY <4>1, <4>2
    <3>2. a <= a
      OBVIOUS
    <3> QED BY <3>1, <3>2
  <2> QED BY <2>1, FS_Singleton DEF OrderIn
<1>5. ASSUME NEW i \in K PROVE OrderIn(L, i) = OrderIn(K, i) + 1
  <2> DEFINE D == {j \in K : j <= i}
  <2>1. {j \in L : j <= i} = D \cup {a}
    OBVIOUS
  <2>2. IsFiniteSet(D) /\ a \notin D
    BY <1>2, FS_Subset
  <2> HIDE DEF D
  <2>3. Cardinality(D \cup {a}) = Cardinality(D) + 1
    BY <2>2, FS_AddElement
  <2> QED BY <2>1, <2>3 DEF OrderIn, D
<1>6. L \in SUBSET (1..n)
  OBVIOUS
<1>7. /\ \A k \in 1..c : Nth(K, k) \in K /\ OrderIn(K, Nth(K, k)) = k
      /\ \A i \in L : Nth(L, OrderIn(L, i)) = i
  BY <1>6, NthExists
<1>8. Nth(L, 1) = a
  <2>1. a \in L
    OBVIOUS
  <2> HIDE DEF L
  <2> QED BY <1>4, <1>7, <2>1
<1>9. ASSUME NEW k \in 1..c PROVE Nth(L, k + 1) = Nth(K, k)
  <2>1. Nth(K, k) \in K /\ OrderIn(K, Nth(K, k)) = k
    BY <1>7
  <2>2. OrderIn(L, Nth(K, k)) = k + 1 /\ Nth(K, k) \in L
    BY <1>5, <2>1
  <2> HIDE DEF L
  <2> QED BY <1>7, <2>2
<1> DEFINE V == {s[i] : i \in L}
           t == Picked(s, K)
<1>10. t \in Seq(V) /\ Len(t) = c /\ \A k \in 1..c : t[k] = s[Nth(K, k)]
  <2>1. \A k \in 1..c : s[Nth(K, k)] \in V
    BY <1>7
  <2>2. t = [k \in 1..c |-> s[Nth(K, k)]]
    BY DEF Picked
  <2> HIDE DEF V, t, c
  <2>3. t \in [1..c -> V]
    BY <2>1, <2>2
  <2> QED BY <1>3, <2>2, <2>3 DEF c
<1>11. <<s[a]>> \in Seq(V)
  OBVIOUS
<1>12. Picked(s, L) = [k \in 1..(c + 1) |-> s[Nth(L, k)]]
  BY <1>3 DEF Picked
<1> HIDE DEF t, V, c, L
<1>13. /\ <<s[a]>> \o t \in Seq(V) /\ Len(<<s[a]>> \o t) = c + 1
       /\ (<<s[a]>> \o t)[1] = s[a]
       /\ \A k \in 1..c : (<<s[a]>> \o t)[k + 1] = t[k]
  BY <1>3, <1>10, <1>11
<1>14. \A k \in 1..(c + 1) : (<<s[a]>> \o t)[k] = s[Nth(L, k)]
  <2> SUFFICES ASSUME NEW k \in 1..(c + 1) PROVE (<<s[a]>> \o t)[k] = s[Nth(L, k)]
    OBVIOUS
  <2>1. CASE k = 1
    BY <1>8, <1>13, <2>1
  <2>2. CASE k # 1
    <3>1. PICK h \in 1..c : k = h + 1
      <4>1. k - 1 \in 1..c /\ k = (k - 1) + 1
        BY <1>3, <2>2
      <4> QED BY <4>1
    <3> QED BY <1>9, <1>10, <1>13, <3>1
  <2> QED BY <2>1, <2>2
<1>15. <<s[a]>> \o t = [k \in 1..(c + 1) |-> (<<s[a]>> \o t)[k]]
  BY <1>3, <1>13
<1>16. Picked(s, L) = <<s[a]>> \o t
  BY <1>12, <1>14, <1>15
<1> QED BY <1>16 DEF L, t

-----------------------------------------------------------------------------
NatLess == {ss \in Nat \X Nat : ss[1] < ss[2]}

(* Every set of numbers has a least one.                                   *)
LEMMA LeastNatural ==
  ASSUME NEW T \in SUBSET Nat, T # {}
  PROVE  \E n \in T : \A m \in T : n <= m
<1>1. IsWellFoundedOn(NatLess, Nat)
  BY NatLessThanWellFounded DEF OpToRel, NatLess
<1>2. PICK n \in T : \A m \in T : <<m, n>> \notin NatLess
  BY <1>1, WFMin
<1>3. ASSUME NEW m \in T PROVE n <= m
  <2>1. m \in Nat /\ n \in Nat /\ <<m, n>> \notin NatLess
    BY <1>2
  <2> QED BY <2>1 DEF NatLess
<1> QED BY <1>3

(***************************************************************************)
(* Recursive functions.  step gives a function's values from its values at *)
(* arguments of lower rank; then some function is its own step.            *)
(***************************************************************************)
Causal(S, V, rank, step) ==
  /\ V # {} /\ rank \in [S -> Nat] /\ step \in [[S -> V] -> [S -> V]]
  /\ \A f, g \in [S -> V] : \A x \in S :
       (\A y \in S : rank[y] < rank[x] => f[y] = g[y]) => step[f][x] = step[g][x]

LEMMA Recursion ==
  ASSUME NEW S, NEW V, NEW rank, NEW step, Causal(S, V, rank, step)
  PROVE  \E f \in [S -> V] : step[f] = f
<1> USE DEF Causal
<1> DEFINE Upto(n, f) == f \in [S -> V] /\ \A x \in S : rank[x] < n => step[f][x] = f[x]
           Has_(n) == \E f \in [S -> V] : Upto(n, f)
           T == {n \in Nat : ~Has_(n)}
<1>1. ASSUME NEW n \in Nat, Has_(n) PROVE Has_(n + 1)
  <2>1. PICK f \in [S -> V] : Upto(n, f)
    BY <1>1
  <2>2. step[f] \in [S -> V]
    OBVIOUS
  <2>3. ASSUME NEW x \in S, rank[x] < n + 1 PROVE step[step[f]][x] = step[f][x]
    <3>1. rank[x] \in Nat
      OBVIOUS
    <3>2. ASSUME NEW y \in S, rank[y] < rank[x] PROVE step[f][y] = f[y]
      <4>1. rank[y] \in Nat
        OBVIOUS
      <4>2. rank[y] < n
        BY <2>3, <3>1, <3>2, <4>1
      <4> QED BY <2>1, <4>2
    <3> QED BY <2>2, <3>2
  <2> QED BY <2>2, <2>3
<1>2. Has_(0)
  <2>1. PICK v \in V : TRUE
    OBVIOUS
  <2>2. [x \in S |-> v] \in [S -> V]
    OBVIOUS
  <2>3. \A x \in S : ~(rank[x] < 0)
    <3>1. \A x \in S : rank[x] \in Nat
      OBVIOUS
    <3> QED BY <3>1
  <2> QED BY <2>2, <2>3
<1>3. \A n \in Nat : Has_(n)
  <2> SUFFICES ASSUME T # {} PROVE FALSE
    BY DEF T
  <2>1. PICK n \in T : \A m \in T : n <= m
    <3>1. T \in SUBSET Nat
      OBVIOUS
    <3> HIDE DEF T
    <3> QED BY <3>1, LeastNatural
  <2>2. n \in Nat /\ n # 0
    BY <1>2, <2>1
  <2>3. n - 1 \in Nat /\ ~(n <= n - 1) /\ (n - 1) + 1 = n
    BY <2>2
  <2>4. n - 1 \notin T
    BY <2>1, <2>3
  <2>5. Has_(n - 1)
    BY <2>3, <2>4
  <2>6. Has_((n - 1) + 1)
    <3> HIDE DEF Has_
    <3> QED BY <1>1, <2>3, <2>5
  <2>7. Has_(n)
    <3> HIDE DEF Has_
    <3> QED BY <2>3, <2>6
  <2> QED BY <2>1, <2>7
(* Two that are their own steps so far agree so far.                       *)
<1>4. ASSUME NEW n \in Nat, NEW k \in Nat, NEW f \in [S -> V], NEW g \in [S -> V],
             Upto(n, f), Upto(k, g), NEW x \in S, rank[x] < n, rank[x] < k
      PROVE  f[x] = g[x]
  <2> DEFINE D == {rank[y] : y \in {z \in S : rank[z] < n /\ rank[z] < k /\ f[z] # g[z]}}
  <2> SUFFICES ASSUME f[x] # g[x] PROVE FALSE
    OBVIOUS
  <2>1. rank[x] \in D /\ D \in SUBSET Nat
    BY <1>4
  <2>2. PICK d \in D : \A e \in D : d <= e
    <3> HIDE DEF D
    <3> QED BY <2>1, LeastNatural
  <2>3. PICK y \in S : rank[y] = d /\ rank[y] < n /\ rank[y] < k /\ f[y] # g[y]
    BY <2>2
  <2>4. ASSUME NEW z \in S, rank[z] < rank[y] PROVE f[z] = g[z]
    <3>1. rank[z] \in Nat /\ rank[y] \in Nat /\ n \in Nat /\ k \in Nat
      OBVIOUS
    <3>2. rank[z] < n /\ rank[z] < k /\ ~(rank[y] <= rank[z])
      BY <2>3, <2>4, <3>1
    <3>3. rank[z] \notin D
      BY <2>2, <2>3, <3>2
    <3> QED BY <3>2, <3>3
  <2>5. step[f][y] = step[g][y]
    BY <2>4
  <2>6. step[f][y] = f[y] /\ step[g][y] = g[y]
    BY <1>4, <2>3
  <2> QED BY <2>3, <2>5, <2>6
<1> DEFINE part(n) == CHOOSE f \in [S -> V] : Upto(n, f)
           whole == [x \in S |-> part(rank[x] + 1)[x]]
<1>5. \A n \in Nat : part(n) \in [S -> V] /\ Upto(n, part(n))
  <2> HIDE DEF Upto
  <2> QED BY <1>3
<1>6. \A x \in S : rank[x] \in Nat /\ rank[x] + 1 \in Nat /\ rank[x] < rank[x] + 1
  <2>1. \A x \in S : rank[x] \in Nat
    OBVIOUS
  <2> QED BY <2>1
<1>7. whole \in [S -> V]
  <2> HIDE DEF part
  <2> QED BY <1>5, <1>6
<1>8. ASSUME NEW x \in S PROVE step[whole][x] = whole[x]
  <2> DEFINE f == part(rank[x] + 1)
  <2>1. f \in [S -> V] /\ Upto(rank[x] + 1, f)
    <3> HIDE DEF part, Upto
    <3> QED BY <1>5, <1>6
  <2>2. ASSUME NEW y \in S, rank[y] < rank[x] PROVE whole[y] = f[y]
    <3> DEFINE g == part(rank[y] + 1)
    <3>1. g \in [S -> V] /\ Upto(rank[y] + 1, g)
      <4> HIDE DEF part, Upto
      <4> QED BY <1>5, <1>6
    <3>2. rank[y] < rank[x] + 1
      <4>1. rank[y] \in Nat /\ rank[x] \in Nat
        BY <1>6
      <4> QED BY <2>2, <4>1
    <3>3. whole[y] = g[y]
      <4> HIDE DEF part
      <4> QED OBVIOUS
    <3> HIDE DEF f, g, Upto
    <3>4. f[y] = g[y]
      BY <1>4, <1>6, <2>1, <3>1, <3>2
    <3> QED BY <3>3, <3>4
  <2>3. step[whole][x] = step[f][x]
    <3> HIDE DEF whole, f
    <3> QED BY <1>7, <2>1, <2>2
  <2>4. step[f][x] = f[x]
    <3> HIDE DEF f
    <3> QED BY <1>6, <2>1
  <2>5. whole[x] = f[x]
    <3> HIDE DEF part
    <3> QED OBVIOUS
  <2> QED BY <2>3, <2>4, <2>5
<1>9. step[whole] = whole
  <2> HIDE DEF whole
  <2>1. step[whole] \in [S -> V]
    BY <1>7
  <2> QED BY <1>7, <1>8, <2>1
<1> QED BY <1>7, <1>9

(* What holds of an argument when it holds of all of lower rank, holds of  *)
(* all.                                                                    *)
LEMMA RankInduction ==
  ASSUME NEW S, NEW rank \in [S -> Nat], NEW G,
         \A x \in S : (\A y \in S : rank[y] < rank[x] => y \in G) => x \in G
  PROVE  S \subseteq G
<1> DEFINE D == {rank[x] : x \in S \ G}
<1> SUFFICES ASSUME D # {} PROVE FALSE
  OBVIOUS
<1>1. D \in SUBSET Nat
  OBVIOUS
<1>2. PICK d \in D : \A e \in D : d <= e
  <2> HIDE DEF D
  <2> QED BY <1>1, LeastNatural
<1>3. PICK x \in S \ G : rank[x] = d
  OBVIOUS
<1>4. ASSUME NEW y \in S, rank[y] < rank[x], y \notin G PROVE FALSE
  <2>1. rank[x] \in Nat /\ rank[y] \in Nat
    OBVIOUS
  <2>2. d <= rank[y]
    BY <1>2, <1>4
  <2> QED BY <1>3, <1>4, <2>1, <2>2
<1> QED BY <1>3, <1>4

(* Induction.                                                              *)
LEMMA Upward ==
  ASSUME NEW G, 0 \in G, \A n \in Nat : n \in G => n + 1 \in G
  PROVE  Nat \subseteq G
<1> DEFINE rank == [n \in Nat |-> n]
<1>1. rank \in [Nat -> Nat]
  OBVIOUS
<1>2. ASSUME NEW n \in Nat, \A m \in Nat : rank[m] < rank[n] => m \in G PROVE n \in G
  <2>1. n = 0 \/ (n - 1 \in Nat /\ n - 1 < n /\ (n - 1) + 1 = n)
    OBVIOUS
  <2>2. n # 0 => n - 1 \in G
    BY <1>2, <2>1
  <2> QED BY <2>1, <2>2
<1> QED BY <1>1, <1>2, RankInduction
=============================================================================
