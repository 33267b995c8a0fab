---------------------------- MODULE StoresProofs ----------------------------
(***************************************************************************)
(* What holds of the services on a store for any number of keys, calls,    *)
(* deliveries, requests and failures, any size of the store and any times  *)
(* to live.                                                                *)
(*                                                                         *)
(* All the services need of the store is what an operation does to a key:  *)
(* it stays live unless it is deleted or a lapse is counted, and becomes   *)
(* live only when it is set.  That is Effect; the first part shows it of   *)
(* the operations of the LRU list.                                         *)
(***************************************************************************)
EXTENDS Stores, ListsProofs

-----------------------------------------------------------------------------
(* The store.                                                              *)

Payload == {Pending(r) : r \in Request} \cup {Complete(r) : r \in Request}
             \cup {"delivered"} \cup Nat \cup Caller
Item == [key : Key, value : Payload, expires : Nat]

Items(s) == {s[i] : i \in DOMAIN s}
DistinctKeys(s) == \A i, j \in DOMAIN s : s[i].key = s[j].key => i = j
LiveIn(s, t, k) == \E e \in Items(s) : e.key = k /\ ~Expired(e, t)

StoreInv ==
  /\ now \in Nat /\ faults \in Nat
  /\ entries \in Seq(Item) /\ DistinctKeys(entries)
  /\ lapses \in [Key -> Nat]

(* What a step does to the keys, when it stores the items F and deletes    *)
(* the keys D.                                                             *)
Effect(F, D) ==
  /\ now' >= now
  /\ Items(entries') \subseteq Items(entries) \cup F
  /\ \A k \in Key :
       /\ lapses'[k] >= lapses[k]
       /\ k \notin D /\ LiveIn(entries, now, k) =>
            LiveIn(entries', now', k) \/ lapses'[k] >= lapses[k] + 1

(* With distinct keys the entry of a key is the one item that has it.      *)
LEMMA EntryIs ==
  ASSUME StoreInv, NEW e \in Items(entries)
  PROVE  Stored(e.key) /\ EntryOf(e.key) = e
<1>1. PICK i \in DOMAIN entries : e = entries[i]
  BY DEF Items
<1>2. \A j \in DOMAIN entries : entries[j].key = e.key => j = i
  BY <1>1 DEF StoreInv, DistinctKeys
<1>3. (CHOOSE j \in DOMAIN entries : entries[j].key = e.key) = i
  BY <1>1, <1>2
<1> QED BY <1>1, <1>3 DEF EntryOf, Stored, KeysOf

LEMMA LiveIs ==
  ASSUME StoreInv, NEW k
  PROVE  Live(k) <=> LiveIn(entries, now, k)
<1>1. ASSUME Live(k) PROVE LiveIn(entries, now, k)
  <2>1. PICK e \in Items(entries) : e.key = k
    BY <1>1 DEF Live, Stored, KeysOf, Items
  <2>2. EntryOf(k) = e
    BY <2>1, EntryIs
  <2> QED BY <1>1, <2>1, <2>2 DEF Live, LiveIn
<1>2. ASSUME LiveIn(entries, now, k) PROVE Live(k)
  <2>1. PICK e \in Items(entries) : e.key = k /\ ~Expired(e, now)
    BY <1>2 DEF LiveIn
  <2> QED BY <2>1, EntryIs DEF Live
<1> QED BY <1>1, <1>2

LEMMA ValueIs ==
  ASSUME StoreInv, NEW k, Live(k)
  PROVE  \E e \in Items(entries) : e.key = k /\ ~Expired(e, now) /\ e.value = Value(k)
<1>1. PICK e \in Items(entries) : e.key = k /\ ~Expired(e, now)
  BY LiveIs DEF LiveIn
<1> QED BY <1>1, EntryIs DEF Value

(* Lists of items.                                                         *)

LEMMA PickedItems ==
  ASSUME NEW s \in Seq(Item), DistinctKeys(s), NEW K \in SUBSET (DOMAIN s)
  PROVE  /\ Picked(s, K) \in Seq(Item) /\ DistinctKeys(Picked(s, K))
         /\ Items(Picked(s, K)) = {s[i] : i \in K}
<1> DEFINE p == Picked(s, K)
           c == Cardinality(K)
<1>1. /\ p \in Seq(Item) /\ DOMAIN p = 1..c
      /\ \A n \in 1..c : Nth(K, n) \in K /\ OrderIn(K, Nth(K, n)) = n /\ p[n] = s[Nth(K, n)]
      /\ \A i \in K : OrderIn(K, i) \in 1..c /\ p[OrderIn(K, i)] = s[i]
  BY PickedIs
<1> HIDE DEF p, c
<1>2. DistinctKeys(p)
  BY <1>1 DEF DistinctKeys
<1>3. Items(p) = {s[i] : i \in K}
  BY <1>1 DEF Items
<1> QED BY <1>1, <1>2, <1>3 DEF p

LEMMA WithoutIs ==
  ASSUME NEW s \in Seq(Item), DistinctKeys(s), NEW k
  PROVE  /\ Without(s, k) \in Seq(Item) /\ DistinctKeys(Without(s, k))
         /\ Items(Without(s, k)) = {e \in Items(s) : e.key # k}
<1> DEFINE K == {i \in DOMAIN s : s[i].key # k}
<1>1. /\ Without(s, k) \in Seq(Item) /\ DistinctKeys(Without(s, k))
      /\ Items(Without(s, k)) = {s[i] : i \in K}
  BY PickedItems DEF Without
<1>2. {s[i] : i \in K} = {e \in Items(s) : e.key # k}
  BY DEF Items
<1> QED BY <1>1, <1>2

LEMMA FirstIs ==
  ASSUME NEW s \in Seq(Item), DistinctKeys(s), NEW e \in Item,
         \A f \in Items(s) : f.key # e.key
  PROVE  /\ <<e>> \o s \in Seq(Item) /\ DistinctKeys(<<e>> \o s)
         /\ Items(<<e>> \o s) = {e} \cup Items(s)
         /\ Len(<<e>> \o s) = Len(s) + 1
<1> DEFINE t == <<e>> \o s
<1>1. PICK n \in Nat : n = Len(s) /\ DOMAIN s = 1..n
  OBVIOUS
<1>2. /\ t \in Seq(Item) /\ Len(t) = n + 1 /\ DOMAIN t = 1..(n + 1)
      /\ t[1] = e
  BY <1>1
<1>3. \A i \in 2..(n + 1) : t[i] = s[i - 1] /\ i - 1 \in DOMAIN s
  BY <1>1
<1>4. \A i \in DOMAIN s : t[i + 1] = s[i] /\ i + 1 \in DOMAIN t
  BY <1>1
<1> HIDE DEF t
<1>5. \A i \in 1..(n + 1) : i = 1 \/ i \in 2..(n + 1)
  OBVIOUS
<1>6. \A i \in DOMAIN s : s[i] \in Items(s)
  BY DEF Items
<1>7. DistinctKeys(t)
  <2> SUFFICES ASSUME NEW i \in 1..(n + 1), NEW j \in 1..(n + 1), t[i].key = t[j].key
               PROVE  i = j
    BY <1>2 DEF DistinctKeys
  <2>1. CASE i = 1 \/ j = 1
    BY <1>2, <1>3, <1>5, <1>6, <2>1
  <2>2. CASE i # 1 /\ j # 1
    <3>1. s[i - 1].key = s[j - 1].key /\ i - 1 \in DOMAIN s /\ j - 1 \in DOMAIN s
      BY <1>3, <1>5, <2>2
    <3>2. i - 1 = j - 1
      BY <3>1 DEF DistinctKeys
    <3> QED BY <3>2
  <2> QED BY <2>1, <2>2
<1>8. Items(t) = {e} \cup Items(s)
  <2>1. \A i \in DOMAIN t : t[i] \in {e} \cup Items(s)
    BY <1>2, <1>3, <1>5, <1>6
  <2>2. 1 \in DOMAIN t
    BY <1>2
  <2>3. \A i \in DOMAIN s : \E j \in DOMAIN t : t[j] = s[i]
    BY <1>4
  <2> QED BY <1>2, <2>1, <2>2, <2>3 DEF Items
<1> QED BY <1>1, <1>2, <1>7, <1>8 DEF t

LEMMA PrefixIs ==
  ASSUME NEW s \in Seq(Item), DistinctKeys(s), NEW n \in Nat, n <= Len(s)
  PROVE  /\ SubSeq(s, 1, n) \in Seq(Item) /\ DistinctKeys(SubSeq(s, 1, n))
         /\ Items(SubSeq(s, 1, n)) \subseteq Items(s)
         /\ n > 0 => s[1] \in Items(SubSeq(s, 1, n))
<1> DEFINE t == SubSeq(s, 1, n)
<1>1. /\ t \in Seq(Item) /\ DOMAIN t = 1..n
      /\ \A i \in 1..n : t[i] = s[i] /\ i \in DOMAIN s
  OBVIOUS
<1> HIDE DEF t
<1>2. DistinctKeys(t)
  BY <1>1 DEF DistinctKeys
<1>3. Items(t) \subseteq Items(s)
  BY <1>1 DEF Items
<1>4. n > 0 => s[1] \in Items(t)
  BY <1>1 DEF Items
<1> QED BY <1>1, <1>2, <1>3, <1>4 DEF t

(* The item that Put stores.                                               *)
Fresh(k, v, ttl) == [key |-> k, value |-> v, expires |-> Deadline(ttl)]

LEMMA FreshIs ==
  ASSUME now \in Nat, NEW k \in Key, NEW v \in Payload, NEW ttl \in Nat
  PROVE  /\ Fresh(k, v, ttl) \in Item /\ ~Expired(Fresh(k, v, ttl), now)
         /\ Fresh(k, v, ttl).key = k /\ Fresh(k, v, ttl).value = v
<1>1. Deadline(ttl) \in Nat /\ (Deadline(ttl) # Never => now < Deadline(ttl))
  BY DEF Deadline, Never
<1> QED BY <1>1 DEF Fresh, Item, Expired

LEMMA PutIs ==
  ASSUME NEW s \in Seq(Item), DistinctKeys(s), now \in Nat,
         NEW k \in Key, NEW v \in Payload, NEW ttl \in Nat
  PROVE  /\ Put(s, k, v, ttl) \in Seq(Item) /\ DistinctKeys(Put(s, k, v, ttl))
         /\ Items(Put(s, k, v, ttl)) \subseteq Items(s) \cup {Fresh(k, v, ttl)}
         /\ Fresh(k, v, ttl) \in Items(Put(s, k, v, ttl))
<1> DEFINE w == Without(s, k)
           e == Fresh(k, v, ttl)
           g == <<e>> \o w
           n == IF Len(g) > MaxEntries THEN MaxEntries ELSE Len(g)
<1>1. /\ w \in Seq(Item) /\ DistinctKeys(w)
      /\ Items(w) = {f \in Items(s) : f.key # k}
  BY WithoutIs
<1>2. e \in Item /\ e.key = k
  BY FreshIs
<1>3. Put(s, k, v, ttl) = SubSeq(g, 1, n)
  BY DEF Put, Fresh
<1> HIDE DEF w, e
<1>4. /\ g \in Seq(Item) /\ DistinctKeys(g) /\ Items(g) = {e} \cup Items(w)
      /\ Len(g) = Len(w) + 1
  BY <1>1, <1>2, FirstIs
<1>5. g[1] = e
  BY <1>1, <1>2
<1>6. n \in Nat /\ n <= Len(g) /\ n > 0
  BY <1>1, <1>4, StoreAssumption
<1> HIDE DEF g, n
<1>7. /\ SubSeq(g, 1, n) \in Seq(Item) /\ DistinctKeys(SubSeq(g, 1, n))
      /\ Items(SubSeq(g, 1, n)) \subseteq Items(g)
      /\ e \in Items(SubSeq(g, 1, n))
  BY <1>4, <1>5, <1>6, PrefixIs
<1> QED BY <1>1, <1>3, <1>4, <1>7 DEF e

LEMMA TouchedIs ==
  ASSUME StoreInv, NEW k
  PROVE  /\ Touched(entries, k) \in Seq(Item) /\ DistinctKeys(Touched(entries, k))
         /\ Items(Touched(entries, k)) \subseteq Items(entries)
<1>1. /\ entries \in Seq(Item) /\ DistinctKeys(entries)
      /\ Without(entries, k) \in Seq(Item) /\ DistinctKeys(Without(entries, k))
      /\ Items(Without(entries, k)) = {f \in Items(entries) : f.key # k}
  BY WithoutIs DEF StoreInv
<1>2. CASE ~Stored(k) \/ Expired(EntryOf(k), now)
  BY <1>1, <1>2 DEF Touched
<1>3. CASE Stored(k) /\ ~Expired(EntryOf(k), now)
  <2>1. PICK e \in Items(entries) : e.key = k
    BY <1>3 DEF Stored, KeysOf, Items
  <2>2. e = EntryOf(k) /\ e \in Item
    BY <1>1, <2>1, EntryIs DEF Items
  <2>3. Touched(entries, k) = <<e>> \o Without(entries, k)
    BY <1>3, <2>2 DEF Touched
  <2> QED BY <1>1, <2>1, <2>2, <2>3, FirstIs
<1> QED BY <1>2, <1>3

(* The store becomes s.                                                    *)
LEMMA ChangeEffect ==
  ASSUME StoreInv, NEW s \in Seq(Item), DistinctKeys(s), NEW D, Change(s, D),
         NEW F, \A f \in F : ~Expired(f, now), Items(s) \subseteq Items(entries) \cup F,
         now' = now, faults' \in Nat
  PROVE  StoreInv' /\ Effect(F, D)
<1>1. /\ entries' = s
      /\ lapses' = [k \in Key |-> IF Live(k) /\ k \notin KeysOf(s) \cup D
                                    THEN lapses[k] + 1 ELSE lapses[k]]
  BY DEF Change
<1>2. lapses' \in [Key -> Nat] /\ \A k \in Key : lapses'[k] >= lapses[k]
  BY <1>1 DEF StoreInv
<1>3. StoreInv'
  BY <1>1, <1>2 DEF StoreInv
<1>4. ASSUME NEW k \in Key, k \notin D, LiveIn(entries, now, k)
      PROVE  LiveIn(entries', now', k) \/ lapses'[k] >= lapses[k] + 1
  <2>1. CASE k \notin KeysOf(s)
    BY <1>1, <1>4, <2>1, LiveIs DEF StoreInv
  <2>2. CASE k \in KeysOf(s)
    <3>1. PICK e \in Items(s) : e.key = k
      BY <2>2 DEF KeysOf, Items
    <3>2. PICK f \in Items(entries) : f.key = k /\ ~Expired(f, now)
      BY <1>4 DEF LiveIn
    <3>3. e \in Items(entries) => e = f
      BY <3>1, <3>2, EntryIs
    <3>4. ~Expired(e, now)
      BY <3>1, <3>2, <3>3
    <3> QED BY <1>1, <3>1, <3>4 DEF LiveIn
  <2> QED BY <2>1, <2>2
<1>5. now' >= now
  BY DEF StoreInv
<1> QED BY <1>1, <1>2, <1>3, <1>4, <1>5 DEF Effect

(* What is not live becomes live only when it is stored.                   *)
LEMMA LiveLater ==
  ASSUME StoreInv, now' \in Nat, NEW F, NEW D, Effect(F, D), NEW k, LiveIn(entries', now', k)
  PROVE  LiveIn(entries, now, k) \/ \E f \in F : f.key = k
<1>1. PICK e \in Items(entries') : e.key = k /\ ~Expired(e, now')
  BY DEF LiveIn
<1>2. CASE e \in Items(entries)
  <2>1. e.expires \in Nat
    <3>1. \A i \in DOMAIN entries : entries[i] \in Item
      BY DEF StoreInv
    <3>2. e \in Item
      BY <1>2, <3>1 DEF Items
    <3> QED BY <3>2 DEF Item
  <2>2. ~Expired(e, now)
    BY <1>1, <2>1 DEF Expired, Effect, StoreInv, Never
  <2> QED BY <1>1, <1>2, <2>2 DEF LiveIn
<1>3. CASE e \in F
  BY <1>1, <1>3
<1> QED BY <1>2, <1>3 DEF Effect

LEMMA EndsTyped ==
  ASSUME faults \in Nat, NEW o, Ends(o)
  PROVE  faults' \in Nat
BY DEF Ends

LEMMA SameEntries ==
  ASSUME StoreInv, NEW D, Change(entries, D)
  PROVE  entries' = entries /\ lapses' = lapses
<1>1. \A k \in Key : Live(k) => k \in KeysOf(entries)
  BY DEF Live, Stored
<1> QED BY <1>1 DEF Change, StoreInv

LEMMA GetEffect ==
  ASSUME StoreInv, NEW k, NEW o, GetStep(k, o)
  PROVE  StoreInv' /\ Effect({}, {})
<1> DEFINE s == IF Ran(o) THEN Touched(entries, k) ELSE entries
<1>1. Change(s, {}) /\ now' = now /\ faults' \in Nat
  BY EndsTyped DEF GetStep, StoreInv
<1>2. s \in Seq(Item) /\ DistinctKeys(s) /\ Items(s) \subseteq Items(entries) \cup {}
  BY TouchedIs DEF StoreInv
<1> HIDE DEF s
<1> QED BY <1>1, <1>2, ChangeEffect

LEMMA StoredEffect ==
  ASSUME StoreInv, NEW k \in Key, NEW v \in Payload, NEW ttl \in Nat,
         Change(Put(entries, k, v, ttl), {}), now' = now, faults' \in Nat
  PROVE  /\ StoreInv' /\ Effect({Fresh(k, v, ttl)}, {})
         /\ LiveIn(entries', now', k)
<1> DEFINE s == Put(entries, k, v, ttl)
           f == Fresh(k, v, ttl)
<1>1. /\ s \in Seq(Item) /\ DistinctKeys(s) /\ Items(s) \subseteq Items(entries) \cup {f}
      /\ f \in Items(s)
  BY PutIs DEF StoreInv
<1>2. ~Expired(f, now) /\ f.key = k
  BY FreshIs DEF StoreInv
<1>3. Change(s, {}) /\ entries' = s
  BY DEF Change
<1> HIDE DEF s, f
<1>4. StoreInv' /\ Effect({f}, {})
  BY <1>1, <1>2, <1>3, ChangeEffect
<1>5. LiveIn(entries', now', k)
  BY <1>1, <1>2, <1>3 DEF LiveIn
<1> QED BY <1>4, <1>5 DEF f

LEMMA KeptEffect ==
  ASSUME StoreInv, NEW F, NEW D, Change(entries, D), now' = now, faults' \in Nat
  PROVE  StoreInv' /\ Effect(F, {})
<1>1. entries' = entries /\ lapses' = lapses
  BY SameEntries
<1>2. StoreInv'
  BY <1>1 DEF StoreInv
<1>3. now' >= now /\ \A k \in Key : lapses'[k] >= lapses[k]
  BY <1>1 DEF StoreInv
<1> QED BY <1>1, <1>2, <1>3 DEF Effect

LEMMA SetEffect ==
  ASSUME StoreInv, NEW k \in Key, NEW v \in Payload, NEW ttl \in Nat,
         NEW o, SetStep(k, v, ttl, o)
  PROVE  /\ StoreInv' /\ Effect({Fresh(k, v, ttl)}, {})
         /\ Ran(o) => LiveIn(entries', now', k)
<1>1. now' = now /\ faults' \in Nat
  BY EndsTyped DEF SetStep, StoreInv
<1>2. CASE Ran(o)
  <2>1. Change(Put(entries, k, v, ttl), {})
    BY <1>2 DEF SetStep
  <2> QED BY <1>1, <2>1, StoredEffect
<1>3. CASE ~Ran(o)
  <2>1. Change(entries, {})
    BY <1>3 DEF SetStep
  <2> QED BY <1>1, <1>3, <2>1, KeptEffect
<1> QED BY <1>2, <1>3

LEMMA AddEffect ==
  ASSUME StoreInv, NEW k \in Key, NEW v \in Payload, NEW ttl \in Nat,
         NEW o, AddStep(k, v, ttl, o)
  PROVE  /\ StoreInv' /\ Effect({Fresh(k, v, ttl)}, {})
         /\ Ran(o) /\ ~Live(k) => LiveIn(entries', now', k)
<1>1. now' = now /\ faults' \in Nat
  BY EndsTyped DEF AddStep, StoreInv
<1>2. CASE Ran(o) /\ ~Live(k)
  <2>1. Change(Put(entries, k, v, ttl), {})
    BY <1>2 DEF AddStep
  <2> QED BY <1>1, <2>1, StoredEffect
<1>3. CASE ~(Ran(o) /\ ~Live(k))
  <2>1. Change(entries, {})
    BY <1>3 DEF AddStep
  <2> QED BY <1>1, <1>3, <2>1, KeptEffect
<1> QED BY <1>2, <1>3

LEMMA DeleteEffect ==
  ASSUME StoreInv, NEW k, NEW o, DeleteStep(k, o)
  PROVE  /\ StoreInv' /\ Effect({}, {k})
         /\ IF Ran(o) THEN ~LiveIn(entries', now', k)
            ELSE entries' = entries /\ lapses' = lapses /\ now' = now
<1>1. now' = now /\ faults' \in Nat
  BY EndsTyped DEF DeleteStep, StoreInv
<1>2. CASE Ran(o)
  <2>1. Change(Without(entries, k), {k}) /\ entries' = Without(entries, k)
    BY <1>2 DEF DeleteStep, Change
  <2>2. /\ Without(entries, k) \in Seq(Item) /\ DistinctKeys(Without(entries, k))
        /\ Items(Without(entries, k)) = {e \in Items(entries) : e.key # k}
    BY WithoutIs DEF StoreInv
  <2>3. Items(Without(entries, k)) \subseteq Items(entries) \cup {}
    BY <2>2
  <2>4. StoreInv' /\ Effect({}, {k})
    BY <1>1, <2>1, <2>2, <2>3, ChangeEffect
  <2>5. ~LiveIn(entries', now', k)
    BY <2>1, <2>2 DEF LiveIn
  <2> QED BY <1>2, <2>4, <2>5
<1>3. CASE ~Ran(o)
  <2>1. Change(entries, {k})
    BY <1>3 DEF DeleteStep
  <2>2. StoreInv' /\ Effect({}, {})
    BY <1>1, <2>1, KeptEffect
  <2>3. Effect({}, {k})
    BY <2>2 DEF Effect
  <2> QED BY <1>1, <1>3, <2>1, <2>2, <2>3, SameEntries
<1> QED BY <1>2, <1>3

LEMMA TickEffect ==
  ASSUME StoreInv, Tick
  PROVE  StoreInv' /\ Effect({}, {})
<1>1. /\ now' = now + 1 /\ entries' = entries /\ faults' = faults
      /\ lapses' = [k \in Key |-> IF Live(k) /\ Expired(EntryOf(k), now + 1)
                                    THEN lapses[k] + 1 ELSE lapses[k]]
  BY DEF Tick
<1>2. StoreInv'
  BY <1>1 DEF StoreInv
<1>3. \A k \in Key : lapses'[k] >= lapses[k]
  BY <1>1 DEF StoreInv
<1>4. ASSUME NEW k \in Key, LiveIn(entries, now, k)
      PROVE  LiveIn(entries', now', k) \/ lapses'[k] >= lapses[k] + 1
  <2>1. PICK e \in Items(entries) : e.key = k /\ ~Expired(e, now)
    BY <1>4 DEF LiveIn
  <2>2. Live(k) /\ EntryOf(k) = e
    BY <1>4, <2>1, LiveIs, EntryIs
  <2>3. CASE Expired(e, now + 1)
    BY <1>1, <2>2, <2>3 DEF StoreInv
  <2>4. CASE ~Expired(e, now + 1)
    BY <1>1, <2>1, <2>4 DEF LiveIn
  <2> QED BY <2>3, <2>4
<1>5. now' >= now
  BY <1>1 DEF StoreInv
<1> QED BY <1>1, <1>2, <1>3, <1>4, <1>5 DEF Effect

LEMMA StoreNextEffect ==
  ASSUME StoreInv, StoreNext
  PROVE  StoreInv' /\ Effect({}, {})
<1>1. CASE Tick
  BY <1>1, TickEffect
<1>2. CASE Sweep
  <2> DEFINE s == Picked(entries, {i \in DOMAIN entries : ~Expired(entries[i], now)})
  <2>1. s \in Seq(Item) /\ DistinctKeys(s)
        /\ Items(s) = {entries[i] : i \in {i \in DOMAIN entries : ~Expired(entries[i], now)}}
    BY PickedItems DEF StoreInv
  <2>2. Items(s) \subseteq Items(entries) \cup {}
    BY <2>1 DEF Items
  <2>3. Change(s, {}) /\ now' = now /\ faults' \in Nat
    BY <1>2 DEF Sweep, StoreInv
  <2> HIDE DEF s
  <2> QED BY <2>1, <2>2, <2>3, ChangeEffect
<1>3. CASE Evict
  <2>1. entries # <<>> /\ Change(Front(entries), {}) /\ now' = now /\ faults' \in Nat
    BY <1>3 DEF Evict, StoreInv
  <2>2. PICK n \in Nat : n = Len(entries) - 1 /\ n <= Len(entries)
    <3>1. Len(entries) \in Nat /\ Len(entries) # 0
      BY <2>1 DEF StoreInv
    <3> QED BY <3>1
  <2>3. Front(entries) = SubSeq(entries, 1, n)
    BY <2>2 DEF Front
  <2>4. /\ Front(entries) \in Seq(Item) /\ DistinctKeys(Front(entries))
        /\ Items(Front(entries)) \subseteq Items(entries) \cup {}
    BY <2>2, <2>3, PrefixIs DEF StoreInv
  <2> QED BY <2>1, <2>4, ChangeEffect
<1> QED BY <1>1, <1>2, <1>3 DEF StoreNext

LEMMA StoreStarts ==
  ASSUME StoreInit
  PROVE  StoreInv /\ Items(entries) = {}
<1>1. entries = <<>> /\ DOMAIN <<>> = {} /\ <<>> \in Seq(Item)
  BY DEF StoreInit
<1> QED BY <1>1 DEF StoreInit, StoreInv, DistinctKeys, Items

-----------------------------------------------------------------------------
(* Rate limits.                                                            *)

(* The requests of S for k that count between a and b, and their bound.    *)
During(S, k, a, b) == {e \in S : HitKey[e.by] = k /\ e.timely /\ e.at \in a..b}
Counted(S, k, a, b, limit) ==
  LET n == Cardinality(During(S, k, a, b)) IN n = 0 \/ a + n * Interval <= limit

(* GCRA as a potential: what a key was let through since a, in intervals,  *)
(* has moved its arrival time that far beyond a, or the time was dropped   *)
(* by a reading that far beyond; and by the law a request never moves it   *)
(* more than a burst beyond its reading.                                   *)
LimitInv ==
  /\ tats \in [Key -> Nat] /\ forgotten \in [Key -> Nat]
  /\ read \in [Hit -> Nat] /\ \A h \in Hit : read[h] <= now
  /\ IsFiniteSet(admitted)
  /\ \A e \in admitted : e.by \in Hit /\ e.at \in Nat /\ e.at <= now /\ e.timely \in BOOLEAN
  /\ \A k \in Key : \A a \in Nat : Counted(admitted, k, a, now, Larger(forgotten[k], tats[k]))
  /\ \A k \in Key : \A a, b \in Nat :
       a <= b => Counted(admitted, k, a, b, b + Interval * Capacity)

LEMMA Times ==
  ASSUME NEW m \in Nat, NEW n \in Nat, NEW i \in Nat
  PROVE  /\ m * i \in Nat /\ (m <= n => m * i <= n * i)
         /\ (m <= n + 1 => m * i <= n * i + i)
         /\ 0 * i = 0 /\ i * n = n * i
<1>1. m * i \in Nat
  OBVIOUS
<1>2. ASSUME NEW d \in Nat, m + d = n PROVE m * i <= n * i
  <2>1. n * i = m * i + d * i /\ d * i \in Nat
    BY <1>2
  <2> QED BY <1>1, <2>1
<1>3. m <= n => m * i <= n * i
  <2>1. m <= n => n - m \in Nat /\ m + (n - m) = n
    OBVIOUS
  <2> QED BY <1>2, <2>1
<1>4. (n + 1) * i = n * i + i
  OBVIOUS
<1>5. m <= n + 1 => m <= n \/ m = n + 1
  OBVIOUS
<1>6. n * i \in Nat
  OBVIOUS
<1> QED BY <1>1, <1>3, <1>4, <1>5, <1>6

LEMMA Divides ==
  ASSUME NEW n \in Nat, NEW c \in Nat, NEW x \in Nat, NEW i \in Nat \ {0},
         n * i <= x + i * c
  PROVE  n <= c + x \div i
<1>1. ASSUME NEW q \in Nat, i * q <= x PROVE q <= x \div i
  BY <1>1
<1>2. x \div i \in Nat
  OBVIOUS
<1>3. CASE n >= c
  <2>1. PICK q \in Nat : n = c + q
    <3>1. n - c \in Nat /\ n = c + (n - c)
      BY <1>3
    <3> QED BY <3>1
  <2>2. n * i = i * c + i * q
    BY <2>1
  <2>3. i * q \in Nat /\ i * c \in Nat
    OBVIOUS
  <2>4. q <= x \div i
    BY <1>1, <2>2, <2>3
  <2> QED BY <1>2, <2>1, <2>4
<1> QED BY <1>2, <1>3

LEMMA DuringSize ==
  ASSUME NEW S, IsFiniteSet(S), NEW k, NEW a, NEW b
  PROVE  /\ IsFiniteSet(During(S, k, a, b)) /\ Cardinality(During(S, k, a, b)) \in Nat
         /\ During(S, k, a, b) = {} => Cardinality(During(S, k, a, b)) = 0
<1>1. IsFiniteSet(During(S, k, a, b))
  BY FS_Subset DEF During
<1> QED BY <1>1, FS_CardinalityType, FS_EmptySet

(* One more request counts at most once.                                   *)
LEMMA DuringMore ==
  ASSUME NEW S, IsFiniteSet(S), NEW e, NEW k, NEW a, NEW b
  PROVE  Cardinality(During(S \cup {e}, k, a, b)) <= Cardinality(During(S, k, a, b)) + 1
<1> DEFINE D == During(S, k, a, b)
<1>1. IsFiniteSet(D) /\ Cardinality(D) \in Nat
  BY DuringSize
<1>2. PICK E : E = During(S \cup {e}, k, a, b)
  OBVIOUS
<1>3. E = D \/ E = D \cup {e}
  BY <1>2 DEF During
<1> HIDE DEF D
<1>4. Cardinality(D \cup {e}) = Cardinality(D) \/ Cardinality(D \cup {e}) = Cardinality(D) + 1
  BY <1>1, FS_AddElement
<1>5. Cardinality(E) <= Cardinality(D) + 1
  <2>1. Cardinality(E) = Cardinality(D) \/ Cardinality(E) = Cardinality(D) + 1
    BY ONLY <1>3, <1>4
  <2> DEFINE n == Cardinality(D)
             h == Cardinality(E)
  <2>2. n \in Nat /\ (h = n \/ h = n + 1)
    BY ONLY <1>1, <2>1
  <2> HIDE DEF n, h
  <2>3. h <= n + 1
    BY ONLY <2>2
  <2> QED BY ONLY <2>3 DEF n, h
<1> QED BY <1>2, <1>5 DEF D

(* The counts are numbers, and a larger limit is kept as well.             *)
LEMMA CountedMore ==
  ASSUME NEW S, IsFiniteSet(S), NEW k, NEW a \in Nat, NEW b \in Nat,
         NEW x \in Nat, NEW y \in Nat, x <= y, Counted(S, k, a, b, x)
  PROVE  Counted(S, k, a, b, y)
<1>1. PICK n \in Nat : n = Cardinality(During(S, k, a, b))
  BY DuringSize
<1>2. Interval \in Nat /\ n * Interval \in Nat
  BY RateAssumption
<1>3. n = 0 \/ a + n * Interval <= x
  BY <1>1 DEF Counted
<1> QED BY <1>1, <1>2, <1>3 DEF Counted

LEMMA AdmitsOrNot ==
  ASSUME StoreInv, LimitInv, NEW h \in Hit, NEW t \in Nat, t <= now,
         NEW ts \in [Key -> Nat], \A k \in Key : ts[k] = tats[k] \/ (ts[k] = Nil /\ tats[k] <= t),
         Decide(h, t, ts), Forget(t), tats' \in [Key -> Nat],
         \A k \in Key : tats'[k] = AfterHit(h, t, ts)[k]
                        \/ (tats'[k] = Nil /\ AfterHit(h, t, ts)[k] < t),
         now' = now, UNCHANGED read
  PROVE  LimitInv'
<1> DEFINE key == HitKey[h]
           tat == NewTat(t, ts[key])
           e == [by |-> h, at |-> t, timely |-> t >= forgotten[key]]
           counts == Allowed(t, ts[key]) /\ t >= forgotten[key]
<1>1. /\ key \in Key /\ Interval \in Nat \ {0} /\ Capacity \in Nat \ {0} /\ now \in Nat
      /\ Interval * Capacity \in Nat
  BY RateAssumption DEF StoreInv
<1>2. /\ e.by = h /\ e.at = t /\ e.timely \in BOOLEAN /\ (e.timely <=> t >= forgotten[key])
      /\ IsFiniteSet(admitted)
      /\ \A f \in admitted : f.by \in Hit /\ f.at \in Nat /\ f.at <= now /\ f.timely \in BOOLEAN
      /\ tats \in [Key -> Nat] /\ forgotten \in [Key -> Nat]
  <2>1. e.by = h /\ e.at = t /\ e.timely \in BOOLEAN /\ (e.timely <=> t >= forgotten[key])
    <3> DEFINE T == t >= forgotten[key]
    <3>1. T \in BOOLEAN /\ (T <=> t >= forgotten[key])
      OBVIOUS
    <3>2. e = [by |-> h, at |-> t, timely |-> T]
      OBVIOUS
    <3> HIDE DEF T, e, key
    <3>3. e.by = h /\ e.at = t /\ e.timely = T
      BY <3>2
    <3> QED BY <3>1, <3>3
  <2> HIDE DEF e
  <2> QED BY <2>1 DEF LimitInv
<1>3. admitted' = IF Allowed(t, ts[key]) THEN admitted \cup {e} ELSE admitted
  BY DEF Decide
<1>4. IsFiniteSet(admitted') /\ \A f \in admitted' : f.by \in Hit /\ f.at \in Nat /\ f.at <= now
        /\ f.timely \in BOOLEAN
  <2>1. IsFiniteSet(admitted')
    <3>1. IsFiniteSet(admitted \cup {e})
      BY <1>2, FS_AddElement
    <3> QED BY <1>2, <1>3, <3>1
  <2>2. ASSUME NEW f \in admitted' PROVE f.by \in Hit /\ f.at \in Nat /\ f.at <= now
                                       /\ f.timely \in BOOLEAN
    <3>1. f \in admitted \/ f = e
      BY <1>3
    <3> HIDE DEF e
    <3> QED BY <1>1, <1>2, <3>1
  <2> QED BY <2>1, <2>2
<1>5. /\ forgotten' \in [Key -> Nat]
      /\ \A k \in Key : forgotten'[k] = IF tats'[k] < tats[k] THEN Larger(forgotten[k], t)
                                                               ELSE forgotten[k]
  BY <1>2 DEF Forget, Larger
(* The arrival time of the request's key only grows.                       *)
<1>6. /\ tat \in Nat /\ tat = Larger(t, ts[key]) + Interval /\ tat > t
      /\ Allowed(t, ts[key]) => tats'[key] = tat /\ tat <= t + Interval * Capacity
  <2>1. tat \in Nat /\ tat = Larger(t, ts[key]) + Interval /\ tat > t
    BY <1>1 DEF NewTat, Larger
  <2>2. ASSUME Allowed(t, ts[key]) PROVE AfterHit(h, t, ts)[key] = tat
    BY <1>1, <2>2 DEF AfterHit
  <2>3. Allowed(t, ts[key]) => tat <= t + Interval * Capacity
    BY <1>1, <2>1 DEF Allowed
  <2>4. ASSUME Allowed(t, ts[key]) PROVE tats'[key] = tat
    <3>1. tats'[key] = tat \/ tat < t
      BY <1>1, <2>2, <2>4
    <3> QED BY <2>1, <3>1
  <2> QED BY <2>1, <2>3, <2>4
(* A time that is dropped is not beyond the reading that dropped it.       *)
<1>7. \A k \in Key : Larger(forgotten'[k], tats'[k]) >= Larger(forgotten[k], tats[k])
  <2> SUFFICES ASSUME NEW k \in Key
               PROVE  Larger(forgotten'[k], tats'[k]) >= Larger(forgotten[k], tats[k])
    OBVIOUS
  <2>1. /\ ts[k] \in Nat /\ tats[k] \in Nat /\ tats'[k] \in Nat /\ forgotten[k] \in Nat
        /\ forgotten'[k] = IF tats'[k] < tats[k] THEN Larger(forgotten[k], t) ELSE forgotten[k]
    BY <1>2, <1>5
  <2>2. AfterHit(h, t, ts)[k] \in Nat /\ AfterHit(h, t, ts)[k] >= ts[k]
    BY <1>1, <1>6 DEF AfterHit, Larger
  <2>3. tats'[k] >= tats[k] \/ tats[k] <= t
    BY <2>1, <2>2
  <2> QED BY <2>1, <2>3 DEF Larger
(* A request that is not let through, or not counted, changes no count.    *)
<1>8. ASSUME NEW k \in Key, NEW a \in Nat, NEW b \in Nat, ~(counts /\ k = key /\ t \in a..b)
      PROVE  During(admitted', k, a, b) = During(admitted, k, a, b)
  <2>1. CASE ~Allowed(t, ts[key])
    BY <1>3, <2>1
  <2>2. CASE Allowed(t, ts[key])
    <3>1. ~(HitKey[e.by] = k /\ e.timely /\ e.at \in a..b)
      BY <1>2, <1>8, <2>2
    <3>2. admitted' = admitted \cup {e}
      BY <1>3, <2>2
    <3> HIDE DEF e
    <3> QED BY <3>1, <3>2 DEF During
  <2> QED BY <2>1, <2>2
(* One that is counted moves the arrival time by an interval.              *)
<1>9. ASSUME counts, NEW a \in Nat, a <= t, NEW b \in Nat, b <= now
      PROVE  Counted(admitted', key, a, b, tat)
  <2>1. /\ IsFiniteSet(During(admitted, key, a, now)) /\ IsFiniteSet(During(admitted', key, a, now))
        /\ Cardinality(During(admitted, key, a, now)) \in Nat
    BY <1>2, <1>4, DuringSize
  <2>2. PICK n \in Nat, m \in Nat : /\ n = Cardinality(During(admitted, key, a, now))
                                    /\ m = Cardinality(During(admitted', key, a, b))
    BY <1>2, <1>4, DuringSize
  <2>3. m <= n + 1
    <3>1. During(admitted', key, a, b) \subseteq During(admitted', key, a, now)
      BY <1>1, <1>9 DEF During
    <3>2. PICK l \in Nat : l = Cardinality(During(admitted', key, a, now))
      BY <1>4, DuringSize
    <3>3. m <= l
      BY <2>1, <2>2, <3>1, <3>2, FS_Subset
    <3>4. l <= n + 1
      BY <1>2, <1>3, <1>9, <2>2, <3>2, DuringMore
    <3> QED BY <3>3, <3>4
  <2>4. m * Interval <= n * Interval + Interval /\ m * Interval \in Nat /\ n * Interval \in Nat
    BY <1>1, <2>3, Times
  <2>5. n = 0 \/ a + n * Interval <= Larger(forgotten[key], tats[key])
    BY <1>1, <2>2 DEF LimitInv, Counted
  <2>6. Larger(forgotten[key], tats[key]) <= Larger(t, ts[key])
        /\ Larger(t, ts[key]) \in Nat /\ Larger(forgotten[key], tats[key]) \in Nat
        /\ t <= Larger(t, ts[key])
    BY <1>1, <1>2, <1>9 DEF Larger, Nil
  <2>7. n = 0 => n * Interval = 0
    BY <1>1
  <2>8. a + m * Interval <= tat
    BY <1>1, <1>6, <1>9, <2>4, <2>5, <2>6, <2>7
  <2> QED BY <2>2, <2>8 DEF Counted
<1>10. ASSUME NEW k \in Key, NEW a \in Nat
       PROVE  Counted(admitted', k, a, now, Larger(forgotten'[k], tats'[k]))
  <2>1. Larger(forgotten'[k], tats'[k]) \in Nat /\ Larger(forgotten[k], tats[k]) \in Nat
    BY <1>2, <1>5 DEF Larger
  <2>2. CASE counts /\ k = key /\ t \in a..now
    <3>1. Counted(admitted', key, a, now, tat) /\ tats'[key] = tat
      BY <1>1, <1>6, <1>9, <2>2
    <3>2. tat <= Larger(forgotten'[key], tats'[key])
      BY <1>1, <1>5, <1>6, <3>1 DEF Larger
    <3> QED BY <1>1, <1>4, <1>6, <2>1, <2>2, <3>1, <3>2, CountedMore
  <2>3. CASE ~(counts /\ k = key /\ t \in a..now)
    <3>1. Counted(admitted', k, a, now, Larger(forgotten[k], tats[k]))
      BY <1>1, <1>8, <2>3 DEF LimitInv, Counted
    <3> QED BY <1>1, <1>4, <1>7, <2>1, <3>1, CountedMore
  <2> QED BY <2>2, <2>3
<1>11. ASSUME NEW k \in Key, NEW a \in Nat, NEW b \in Nat, a <= b
       PROVE  Counted(admitted', k, a, b, b + Interval * Capacity)
  <2>1. CASE counts /\ k = key /\ t \in a..b
    <3>1. PICK c \in Nat : c = (IF b <= now THEN b ELSE now) /\ c <= b /\ c <= now
      BY <1>1
    <3>2. Counted(admitted', key, a, c, tat)
      BY <1>9, <2>1, <3>1
    <3>3. During(admitted', key, a, b) = During(admitted', key, a, c)
      BY <1>1, <1>4, <3>1 DEF During
    <3>4. Counted(admitted', key, a, b, tat)
      BY <3>2, <3>3 DEF Counted
    <3>5. tat <= b + Interval * Capacity /\ b + Interval * Capacity \in Nat
      BY <1>1, <1>6, <2>1
    <3> QED BY <1>4, <1>6, <2>1, <3>4, <3>5, CountedMore
  <2>2. CASE ~(counts /\ k = key /\ t \in a..b)
    <3>1. Counted(admitted, k, a, b, b + Interval * Capacity)
      BY <1>11 DEF LimitInv
    <3> QED BY <1>8, <2>2, <3>1 DEF Counted
  <2> QED BY <2>1, <2>2
<1> HIDE DEF e, tat, key, counts
<1>12. \A h1 \in Hit : read'[h1] <= now' /\ read' \in [Hit -> Nat]
  BY DEF LimitInv
<1>13. /\ \A k \in Key : \A a \in Nat :
            Counted(admitted', k, a, now', Larger(forgotten'[k], tats'[k]))
       /\ \A k \in Key : \A a, b \in Nat :
            a <= b => Counted(admitted', k, a, b, b + Interval * Capacity)
  BY <1>10, <1>11
<1> QED BY <1>4, <1>5, <1>12, <1>13 DEF LimitInv, Counted, During, Larger

(* Time passes, and whatever else the store does.                          *)
LEMMA LimitQuiet ==
  ASSUME StoreInv, LimitInv, now' \in Nat, now' >= now,
         UNCHANGED <<tats, forgotten, admitted>>,
         read' \in [Hit -> Nat], \A h \in Hit : read'[h] <= now'
  PROVE  LimitInv'
<1>1. now \in Nat
  BY DEF StoreInv
<1>2. \A e \in admitted : e.by \in Hit /\ e.at \in Nat /\ e.at <= now /\ e.timely \in BOOLEAN
  BY DEF LimitInv
<1>3. ASSUME NEW k \in Key, NEW a \in Nat
      PROVE  Counted(admitted, k, a, now', Larger(forgotten[k], tats[k]))
  <2>1. During(admitted, k, a, now') = During(admitted, k, a, now)
    BY <1>1, <1>2 DEF During
  <2>2. Counted(admitted, k, a, now, Larger(forgotten[k], tats[k]))
    BY DEF LimitInv
  <2> QED BY <2>1, <2>2 DEF Counted
<1>4. \A e \in admitted : e.at <= now'
  BY <1>1, <1>2
<1> QED BY <1>3, <1>4 DEF LimitInv, Counted, During, Larger

LEMMA HitTyped ==
  ASSUME NEW h \in Hit, NEW t \in Nat, NEW ts \in [Key -> Nat]
  PROVE  /\ AfterHit(h, t, ts) \in [Key -> Nat] /\ SweepTats(t, ts) \in [Key -> Nat]
         /\ \A k \in Key : AfterHit(h, t, ts)[k] >= ts[k]
<1>1. HitKey[h] \in Key /\ Interval \in Nat
  BY RateAssumption
<1>2. NewTat(t, ts[HitKey[h]]) \in Nat /\ NewTat(t, ts[HitKey[h]]) >= ts[HitKey[h]]
  BY <1>1 DEF NewTat, Larger
<1> QED BY <1>1, <1>2 DEF AfterHit, SweepTats, Nil

LEMMA LimitStep ==
  ASSUME StoreInv, LimitInv, LimitNext
  PROVE  StoreInv' /\ LimitInv'
<1>1. PICK h \in Hit :
        \/ ReadClock(h) \/ AllowRedis(h)
        \/ \E sweep \in BOOLEAN : AllowMemory(h, sweep)
        \/ \E o \in Outcome : LimiterFails(h, o)
  BY DEF LimitNext
<1>2. now \in Nat /\ tats \in [Key -> Nat] /\ read \in [Hit -> Nat] /\ read[h] <= now
  BY DEF StoreInv, LimitInv
<1>3. CASE ReadClock(h)
  <2>1. now' = now /\ UNCHANGED <<entries, faults, lapses, tats, forgotten, admitted>>
        /\ read' = [read EXCEPT ![h] = now]
    BY <1>3 DEF ReadClock, storeVars
  <2>2. read' \in [Hit -> Nat] /\ \A i \in Hit : read'[i] <= now'
    BY <1>2, <2>1 DEF LimitInv
  <2>3. StoreInv'
    BY <2>1 DEF StoreInv
  <2> QED BY <1>2, <2>1, <2>2, <2>3, LimitQuiet
<1>4. CASE AllowRedis(h)
  <2> DEFINE fresh == [k \in Key |-> IF now >= tats[k] THEN Nil ELSE tats[k]]
  <2>1. now' = now /\ UNCHANGED <<entries, faults, lapses, read>>
        /\ Decide(h, now, fresh) /\ tats' = AfterHit(h, now, fresh) /\ Forget(now)
    BY <1>4 DEF AllowRedis, storeVars
  <2>2. fresh \in [Key -> Nat]
        /\ \A k \in Key : fresh[k] = tats[k] \/ (fresh[k] = Nil /\ tats[k] <= now)
    BY <1>2 DEF Nil
  <2> HIDE DEF fresh
  <2>3. tats' \in [Key -> Nat]
    BY <1>2, <2>1, <2>2, HitTyped
  <2>4. \A k \in Key : tats'[k] = AfterHit(h, now, fresh)[k]
    BY <2>1
  <2>5. LimitInv'
    BY <1>2, <2>1, <2>2, <2>3, <2>4, AdmitsOrNot
  <2>6. StoreInv'
    BY <2>1 DEF StoreInv
  <2> QED BY <2>5, <2>6
<1>5. ASSUME NEW sweep \in BOOLEAN, AllowMemory(h, sweep)
      PROVE  StoreInv' /\ LimitInv'
  <2> DEFINE t == read[h]
             after == AfterHit(h, t, tats)
  <2>1. now' = now /\ UNCHANGED <<entries, faults, lapses, read>>
        /\ Decide(h, t, tats) /\ tats' \in {after, SweepTats(t, after)} /\ Forget(t)
    BY <1>5 DEF AllowMemory, storeVars
  <2>2. t \in Nat /\ t <= now
    BY <1>2
  <2> HIDE DEF t
  <2>3. after \in [Key -> Nat] /\ SweepTats(t, after) \in [Key -> Nat]
    BY <1>2, <2>2, HitTyped
  <2>4. tats' \in [Key -> Nat]
    BY <2>1, <2>3
  <2>5. \A k \in Key : tats'[k] = after[k] \/ (tats'[k] = Nil /\ after[k] < t)
    BY <2>1, <2>3 DEF SweepTats
  <2>6. \A k \in Key : tats[k] = tats[k] \/ (tats[k] = Nil /\ tats[k] <= t)
    OBVIOUS
  <2>7. LimitInv'
    BY <1>2, <2>1, <2>2, <2>4, <2>5, <2>6, AdmitsOrNot
  <2>8. StoreInv'
    BY <2>1 DEF StoreInv
  <2> QED BY <2>7, <2>8
<1>6. ASSUME NEW o \in Outcome, LimiterFails(h, o)
      PROVE  StoreInv' /\ LimitInv'
  <2>1. /\ UNCHANGED <<now, entries, lapses, read, admitted, forgotten>> /\ faults' \in Nat
        /\ tats' = IF Ran(o) THEN AfterHit(h, now, tats) ELSE tats
    BY <1>6, EndsTyped DEF LimiterFails, StoreInv
  <2>2. tats' \in [Key -> Nat] /\ \A k \in Key : tats'[k] >= tats[k]
    BY <1>2, <2>1, HitTyped
  <2>3. \A k \in Key : \A a \in Nat :
          Counted(admitted, k, a, now, Larger(forgotten[k], tats'[k]))
    <3> SUFFICES ASSUME NEW k \in Key, NEW a \in Nat
                 PROVE  Counted(admitted, k, a, now, Larger(forgotten[k], tats'[k]))
      OBVIOUS
    <3>1. Counted(admitted, k, a, now, Larger(forgotten[k], tats[k])) /\ IsFiniteSet(admitted)
      BY DEF LimitInv
    <3>2. /\ Larger(forgotten[k], tats[k]) \in Nat /\ Larger(forgotten[k], tats'[k]) \in Nat
          /\ Larger(forgotten[k], tats[k]) <= Larger(forgotten[k], tats'[k])
      BY <1>2, <2>2 DEF LimitInv, Larger
    <3> QED BY <1>2, <3>1, <3>2, CountedMore
  <2>4. LimitInv'
    BY <2>1, <2>2, <2>3 DEF LimitInv, Counted, During, Larger
  <2>5. StoreInv'
    BY <2>1 DEF StoreInv
  <2> QED BY <2>4, <2>5
<1> QED BY <1>1, <1>3, <1>4, <1>5, <1>6

(* The wait of Retry-After, rounded up to seconds, is long enough.         *)
LEMMA WaitIsEnough ==
  ASSUME NEW t \in Nat, NEW tat \in Nat, ~Allowed(t, tat)
  PROVE  Allowed(t + Wait(t, tat), tat)
<1>1. Interval \in Nat \ {0} /\ Capacity \in Nat \ {0} /\ Second \in Nat \ {0}
  BY RateAssumption
<1>2. PICK burst \in Nat : burst = Interval * Capacity /\ burst >= Interval
  <2>1. PICK c \in Nat : Capacity = c + 1
    <3>1. Capacity - 1 \in Nat /\ Capacity = (Capacity - 1) + 1
      BY <1>1
    <3> QED BY <3>1
  <2>2. Interval * Capacity = Interval * c + Interval /\ Interval * c \in Nat
    BY <1>1, <2>1
  <2> QED BY <1>1, <2>2
<1>3. tat > t
  BY <1>1, <1>2 DEF Allowed, NewTat, Larger
<1>4. PICK d \in Nat : d = RetryAfter(t, tat) /\ d = tat + Interval - burst - t
  <2>1. RetryAfter(t, tat) \in Nat /\ RetryAfter(t, tat) = tat + Interval - burst - t
    BY <1>1, <1>2, <1>3 DEF Allowed, RetryAfter, NewTat, Larger
  <2> QED BY <2>1
<1>5. PICK w \in Nat : w = Wait(t, tat) /\ w >= d
  <2>1. PICK x \in Nat : x = d + Second - 1
    BY <1>1
  <2>2. Second * (x \div Second) <= x /\ x < Second * (x \div Second) + Second
    BY <1>1
  <2>3. x \div Second \in Nat
    BY <1>1
  <2>4. PICK q \in Nat : q = x \div Second
    BY <2>3
  <2>5. q * Second = Second * q /\ q * Second \in Nat
    BY <1>1
  <2>6. CeilSeconds(d) = q * Second
    BY <2>1, <2>4 DEF CeilSeconds
  <2>7. CeilSeconds(d) \in Nat /\ CeilSeconds(d) >= d
    BY <1>1, <2>1, <2>2, <2>4, <2>5, <2>6
  <2>8. Wait(t, tat) \in Nat /\ Wait(t, tat) >= d
    BY <1>1, <1>4, <2>7 DEF Wait, Larger
  <2> QED BY <2>8
<1>6. t + w + burst >= Larger(t + w, tat) + Interval
  BY <1>1, <1>2, <1>3, <1>4, <1>5 DEF Larger
<1> QED BY <1>2, <1>5, <1>6 DEF Allowed, NewTat

LEMMA LimitBounds ==
  ASSUME StoreInv, LimitInv
  PROVE  RateBounded
<1>1. ASSUME NEW k \in Key, NEW a \in 0..MaxTime, NEW b \in a..MaxTime
      PROVE  Cardinality(Between(k, a, b)) <= Capacity + (b - a) \div Interval
  <2>1. a \in Nat /\ b \in Nat /\ a <= b /\ Interval \in Nat \ {0} /\ Capacity \in Nat
    BY StoreAssumption, RateAssumption
  <2>2. Between(k, a, b) = During(admitted, k, a, b)
    BY DEF Between, During
  <2>3. PICK n \in Nat : n = Cardinality(Between(k, a, b))
    BY <2>2, DuringSize DEF LimitInv
  <2>4. n = 0 \/ a + n * Interval <= b + Interval * Capacity
    BY <2>1, <2>2, <2>3 DEF LimitInv, Counted
  <2>5. PICK x \in Nat : x = b - a
    BY <2>1
  <2>6. n * Interval <= x + Interval * Capacity
    <3>1. n * Interval \in Nat /\ Interval * Capacity \in Nat
          /\ (n = 0 => n * Interval = 0)
      BY <2>1
    <3> QED BY <2>1, <2>4, <2>5, <3>1
  <2>7. n <= Capacity + x \div Interval
    BY <2>1, <2>6, Divides
  <2> QED BY <2>3, <2>5, <2>7
<1>2. \A k \in Key : ~Allowed(now, tats[k]) => Allowed(now + Wait(now, tats[k]), tats[k])
  BY WaitIsEnough DEF StoreInv, LimitInv
<1> QED BY <1>1, <1>2 DEF RateBounded

-----------------------------------------------------------------------------
(* Shared loads.                                                           *)

Flying == {"second", "load", "store", "land"}
FlightPlace == {"first", "do", "wait", "over"} \cup Flying
FlightResult == [value : Caller \cup {None}, err : {"unset", "panicked", "failed", "none"}]

FlightTyped ==
  /\ calling \in [Caller -> FlightPlace]
  /\ leads \in [Key -> Caller \cup {None}]
  /\ flight \in [Caller -> FlightResult]
  /\ joined \in [Caller -> Caller \cup {None}]
  /\ result \in [Caller -> FlightResult]
  /\ loads \in [Key -> Nat] /\ missed \in [Key -> Nat]

(* A result a call for k may return.                                       *)
GoodFor(k, r) ==
  \/ r.err \in {"failed", "panicked"}
  \/ r.err = "none" /\ r.value \in Caller /\ LoadKey[r.value] = k

(* The calls between "second" and "land" are the leaders of their keys; a  *)
(* flight that began has a good result, and so has what the store keeps.   *)
FlightSound ==
  /\ \A c \in Caller :
       /\ calling[c] \in Flying => leads[LoadKey[c]] = c /\ flight[c].err # "unset"
       /\ flight[c].err # "unset" => GoodFor(LoadKey[c], flight[c])
       /\ calling[c] = "wait" =>
            /\ joined[c] \in Caller /\ LoadKey[joined[c]] = LoadKey[c]
            /\ flight[joined[c]].err # "unset"
       /\ calling[c] = "over" => GoodFor(LoadKey[c], result[c])
  /\ \A k \in Key : leads[k] # None => LoadKey[leads[k]] = k /\ calling[leads[k]] \in Flying
  /\ \A e \in Items(entries) : e.value \in Caller /\ LoadKey[e.value] = e.key

(* The loads of k are paid for by lapses and failures, but for one: while  *)
(* its value is live, or its leader is about to store it.  A leader that   *)
(* found nothing live may load because there is none unpaid.               *)
Paid(k) == loads[k] <= lapses[k] + missed[k]

FlightDebt ==
  \A k \in Key :
    /\ loads[k] <= 1 + lapses[k] + missed[k]
    /\ Paid(k) \/ LiveIn(entries, now, k) \/ \E c \in Caller : calling[c] = "store" /\ LoadKey[c] = k
    /\ \A c \in Caller : calling[c] = "load" /\ LoadKey[c] = k => Paid(k)

FlightInv == FlightTyped /\ FlightSound /\ FlightDebt

(* Until the leader loads, its step leaves the debt as it is.              *)
LEMMA DebtKept ==
  ASSUME StoreInv, StoreInv', FlightTyped, FlightTyped', FlightDebt, NEW F, Effect(F, {}),
         loads' = loads, \A k \in Key : missed'[k] >= missed[k],
         \A c \in Caller : calling'[c] = "load" =>
           calling[c] = "load" \/ loads[LoadKey[c]] <= lapses'[LoadKey[c]] + missed'[LoadKey[c]],
         \A c \in Caller : calling[c] = "store" =>
           \/ calling'[c] = "store" \/ LiveIn(entries', now', LoadKey[c])
           \/ loads[LoadKey[c]] <= lapses'[LoadKey[c]] + missed'[LoadKey[c]]
  PROVE  FlightDebt'
<1> SUFFICES ASSUME NEW k \in Key
             PROVE  /\ loads'[k] <= 1 + lapses'[k] + missed'[k]
                    /\ \/ loads'[k] <= lapses'[k] + missed'[k] \/ LiveIn(entries', now', k)
                       \/ \E c \in Caller : calling'[c] = "store" /\ LoadKey[c] = k
                    /\ \A c \in Caller : calling'[c] = "load" /\ LoadKey[c] = k =>
                         loads'[k] <= lapses'[k] + missed'[k]
  BY DEF FlightDebt, Paid, LiveIn, Items, Expired
<1>1. /\ loads[k] \in Nat /\ lapses[k] \in Nat /\ lapses'[k] \in Nat
      /\ missed[k] \in Nat /\ missed'[k] \in Nat
  BY DEF FlightTyped, StoreInv
<1>2. lapses'[k] >= lapses[k] /\ missed'[k] >= missed[k]
  BY DEF Effect
<1>3. Paid(k) => loads[k] <= lapses'[k] + missed'[k]
  BY <1>1, <1>2 DEF Paid
<1>4. loads[k] <= 1 + lapses'[k] + missed'[k]
  BY <1>1, <1>2 DEF FlightDebt
<1>5. \/ loads[k] <= lapses'[k] + missed'[k] \/ LiveIn(entries', now', k)
      \/ \E c \in Caller : calling'[c] = "store" /\ LoadKey[c] = k
  <2>1. CASE Paid(k)
    BY <1>3, <2>1
  <2>2. CASE LiveIn(entries, now, k)
    <3>1. LiveIn(entries', now', k) \/ lapses'[k] >= lapses[k] + 1
      BY <2>2 DEF Effect
    <3>2. loads[k] <= 1 + lapses[k] + missed[k]
      BY DEF FlightDebt
    <3> QED BY <1>1, <1>2, <3>1, <3>2
  <2>3. CASE \E c \in Caller : calling[c] = "store" /\ LoadKey[c] = k
    BY <2>3
  <2> QED BY <2>1, <2>2, <2>3 DEF FlightDebt
<1>6. \A c \in Caller : calling'[c] = "load" /\ LoadKey[c] = k => loads[k] <= lapses'[k] + missed'[k]
  BY <1>3 DEF FlightDebt
<1> QED BY <1>4, <1>5, <1>6

LEMMA FlightQuiet ==
  ASSUME StoreInv, StoreInv', FlightInv, Effect({}, {}), UNCHANGED flightVars
  PROVE  FlightInv'
<1>1. FlightTyped'
  BY DEF FlightInv, FlightTyped, flightVars
<1>2. Items(entries') \subseteq Items(entries)
  BY DEF Effect
<1>3. FlightSound'
  BY <1>2 DEF FlightInv, FlightSound, flightVars, GoodFor, Items
<1>4. FlightDebt'
  <2>1. \A k \in Key : missed'[k] >= missed[k]
    BY DEF FlightInv, FlightTyped, flightVars
  <2> QED BY <1>1, <2>1, DebtKept DEF FlightInv, flightVars
<1> QED BY <1>1, <1>3, <1>4 DEF FlightInv

LEMMA MissesMore ==
  ASSUME FlightTyped, NEW k \in Key, NEW o, Misses(k, o)
  PROVE  /\ missed' \in [Key -> Nat]
         /\ \A i \in Key : missed'[i] >= missed[i]
         /\ o # "ok" => missed'[k] = missed[k] + 1
BY DEF FlightTyped, Misses

(* A live value of k is one that was loaded for k.                         *)
LEMMA LoadedValue ==
  ASSUME StoreInv, FlightSound, NEW k \in Key, Live(k)
  PROVE  /\ Result(Value(k), "none") \in FlightResult
         /\ GoodFor(k, Result(Value(k), "none"))
         /\ Result(Value(k), "none").err # "unset"
<1>1. Value(k) \in Caller /\ LoadKey[Value(k)] = k
  BY ValueIs DEF FlightSound
<1> QED BY <1>1 DEF Result, GoodFor, FlightResult

LEMMA FirstGetStep ==
  ASSUME StoreInv, FlightInv, NEW c \in Caller, NEW o \in Outcome, FirstGet(c, o)
  PROVE  StoreInv' /\ FlightInv'
<1>1. /\ GetStep(LoadKey[c], o) /\ Misses(LoadKey[c], o) /\ calling[c] = "first"
      /\ UNCHANGED <<leads, flight, joined, loads>>
      /\ IF o = "ok" /\ Live(LoadKey[c])
           THEN /\ result' = [result EXCEPT ![c] = Result(Value(LoadKey[c]), "none")]
                /\ calling' = [calling EXCEPT ![c] = "over"]
           ELSE calling' = [calling EXCEPT ![c] = "do"] /\ UNCHANGED result
  BY DEF FirstGet, Moves
<1>2. LoadKey[c] \in Key /\ FlightTyped /\ FlightSound /\ FlightDebt
  BY FlightAssumption DEF FlightInv
<1>3. StoreInv' /\ Effect({}, {})
  BY <1>1, GetEffect
<1>4. missed' \in [Key -> Nat] /\ \A k \in Key : missed'[k] >= missed[k]
  BY <1>1, <1>2, MissesMore
<1>5. o = "ok" /\ Live(LoadKey[c]) =>
        /\ Result(Value(LoadKey[c]), "none") \in FlightResult
        /\ GoodFor(LoadKey[c], Result(Value(LoadKey[c]), "none"))
  BY <1>2, LoadedValue
<1>6. /\ calling' \in [Caller -> FlightPlace]
      /\ calling'[c] \in {"over", "do"}
      /\ \A d \in Caller : d # c => calling'[d] = calling[d] /\ result'[d] = result[d]
      /\ calling'[c] = "over" => GoodFor(LoadKey[c], result'[c])
      /\ result' \in [Caller -> FlightResult]
  BY <1>1, <1>2, <1>5 DEF FlightTyped, FlightPlace
<1>7. FlightTyped'
  BY <1>1, <1>2, <1>4, <1>6 DEF FlightTyped
<1>8. FlightSound'
  <2>1. Items(entries') \subseteq Items(entries)
    BY <1>3 DEF Effect
  <2>2. \A k \in Key : leads[k] # None => leads[k] # c
    BY <1>1, <1>2 DEF FlightSound, Flying
  <2>3. \A k \in Key : leads[k] # None => LoadKey[leads[k]] = k /\ calling'[leads[k]] \in Flying
    BY <1>2, <1>6, <2>2 DEF FlightSound, FlightTyped
  <2>4. ASSUME NEW d \in Caller
        PROVE  /\ calling'[d] \in Flying => leads[LoadKey[d]] = d /\ flight[d].err # "unset"
               /\ calling'[d] = "wait" =>
                    /\ joined[d] \in Caller /\ LoadKey[joined[d]] = LoadKey[d]
                    /\ flight[joined[d]].err # "unset"
               /\ calling'[d] = "over" => GoodFor(LoadKey[d], result'[d])
    BY <1>2, <1>6 DEF FlightSound, Flying
  <2>5. \A e \in Items(entries') : e.value \in Caller /\ LoadKey[e.value] = e.key
    BY <1>2, <2>1 DEF FlightSound
  <2> QED BY <1>1, <1>2, <2>3, <2>4, <2>5 DEF FlightSound, GoodFor, Items
<1>9. FlightDebt'
  BY <1>1, <1>2, <1>3, <1>4, <1>6, <1>7, DebtKept
<1> QED BY <1>3, <1>7, <1>8, <1>9 DEF FlightInv

(* Steps that neither use the store nor load.                              *)
LEMMA FlightMoves ==
  ASSUME StoreInv, FlightInv, NEW c \in Caller, Join(c) \/ Lead(c) \/ Land(c) \/ Return(c)
  PROVE  StoreInv' /\ FlightInv'
<1>1. UNCHANGED <<now, entries, faults, lapses, loads, missed>>
  BY DEF Join, Lead, Land, Return, storeVars
<1>2. LoadKey[c] \in Key /\ FlightTyped /\ FlightSound /\ FlightDebt /\ None \notin Caller
  BY FlightAssumption DEF FlightInv
<1>3. StoreInv'
  BY <1>1 DEF StoreInv
<1>4. FlightTyped' /\ FlightSound'
  <2>1. CASE Join(c)
    <3>1. /\ calling[c] = "do" /\ leads[LoadKey[c]] # None
          /\ joined' = [joined EXCEPT ![c] = leads[LoadKey[c]]]
          /\ calling' = [calling EXCEPT ![c] = "wait"]
          /\ UNCHANGED <<leads, flight, result>>
      BY <2>1 DEF Join, Moves
    <3>2. /\ leads[LoadKey[c]] \in Caller /\ LoadKey[leads[LoadKey[c]]] = LoadKey[c]
          /\ flight[leads[LoadKey[c]]].err # "unset"
      BY <1>2, <3>1 DEF FlightSound, FlightTyped
    <3>3. FlightTyped'
      BY <1>1, <1>2, <3>1 DEF FlightTyped, FlightPlace
    <3>4. /\ calling'[c] = "wait" /\ joined'[c] = leads[LoadKey[c]]
          /\ \A d \in Caller : d # c => calling'[d] = calling[d] /\ joined'[d] = joined[d]
      BY <1>2, <3>1 DEF FlightTyped
    <3>5. \A k \in Key : leads[k] # None => calling'[leads[k]] \in Flying
      BY <1>2, <3>1, <3>4 DEF FlightSound, FlightTyped, Flying
    <3>6. FlightSound'
      BY <1>1, <1>2, <3>1, <3>2, <3>4, <3>5 DEF FlightSound, GoodFor, Flying, Items
    <3> QED BY <3>3, <3>6
  <2>2. CASE Lead(c)
    <3>1. /\ calling[c] = "do" /\ leads[LoadKey[c]] = None
          /\ leads' = [leads EXCEPT ![LoadKey[c]] = c]
          /\ flight' = [flight EXCEPT ![c] = Result(None, "panicked")]
          /\ calling' = [calling EXCEPT ![c] = "second"]
          /\ UNCHANGED <<joined, result>>
      BY <2>2 DEF Lead, Moves
    <3>2. Result(None, "panicked") \in FlightResult /\ Result(None, "panicked").err = "panicked"
      BY DEF Result, FlightResult
    <3>3. FlightTyped'
      BY <1>1, <1>2, <3>1, <3>2 DEF FlightTyped, FlightPlace, Flying
    <3>4. /\ calling'[c] = "second" /\ flight'[c].err = "panicked"
          /\ \A d \in Caller : d # c => calling'[d] = calling[d] /\ flight'[d] = flight[d]
          /\ leads'[LoadKey[c]] = c
          /\ \A k \in Key : k # LoadKey[c] => leads'[k] = leads[k]
      BY <1>2, <3>1, <3>2 DEF FlightTyped
    <3>5. \A d \in Caller : d # c /\ calling[d] \in Flying => LoadKey[d] # LoadKey[c]
      BY <1>2, <3>1 DEF FlightSound
    <3>6. \A d \in Caller : flight[d].err # "unset" => flight'[d].err # "unset"
      BY <3>4
    <3>7. \A k \in Key : leads'[k] # None => LoadKey[leads'[k]] = k /\ calling'[leads'[k]] \in Flying
      BY <1>2, <3>1, <3>4 DEF FlightSound, FlightTyped, Flying
    <3>8. ASSUME NEW d \in Caller
          PROVE  /\ calling'[d] \in Flying => leads'[LoadKey[d]] = d /\ flight'[d].err # "unset"
                 /\ flight'[d].err # "unset" => GoodFor(LoadKey[d], flight'[d])
                 /\ calling'[d] = "wait" =>
                      /\ joined[d] \in Caller /\ LoadKey[joined[d]] = LoadKey[d]
                      /\ flight'[joined[d]].err # "unset"
                 /\ calling'[d] = "over" => GoodFor(LoadKey[d], result[d])
      <4>1. CASE d = c
        BY <3>4, <4>1 DEF GoodFor
      <4>2. CASE d # c
        <5>1. LoadKey[d] \in Key
          BY FlightAssumption
        <5> QED BY <1>2, <3>4, <3>5, <3>6, <4>2, <5>1 DEF FlightSound
      <4> QED BY <4>1, <4>2
    <3>9. FlightSound'
      BY <1>1, <1>2, <3>1, <3>7, <3>8 DEF FlightSound, GoodFor, Items
    <3> QED BY <3>3, <3>9
  <2>3. CASE Land(c)
    <3>1. /\ calling[c] = "land"
          /\ leads' = [leads EXCEPT ![LoadKey[c]] = None]
          /\ result' = [result EXCEPT ![c] = flight[c]]
          /\ calling' = [calling EXCEPT ![c] = "over"]
          /\ UNCHANGED <<flight, joined>>
      BY <2>3 DEF Land, Moves
    <3>2. FlightTyped'
      BY <1>1, <1>2, <3>1 DEF FlightTyped, FlightPlace
    <3>3. leads[LoadKey[c]] = c /\ GoodFor(LoadKey[c], flight[c])
      BY <1>2, <3>1 DEF FlightSound, Flying
    <3>4. /\ calling'[c] = "over" /\ result'[c] = flight[c]
          /\ \A d \in Caller : d # c => calling'[d] = calling[d] /\ result'[d] = result[d]
          /\ leads'[LoadKey[c]] = None
          /\ \A k \in Key : k # LoadKey[c] => leads'[k] = leads[k]
      BY <1>2, <3>1 DEF FlightTyped
    <3>5. \A d \in Caller : d # c /\ calling[d] \in Flying => LoadKey[d] # LoadKey[c]
      BY <1>2, <3>3 DEF FlightSound
    <3>6. \A k \in Key : leads'[k] # None => LoadKey[leads'[k]] = k /\ calling'[leads'[k]] \in Flying
      <4> SUFFICES ASSUME NEW k \in Key, leads'[k] # None
                   PROVE  LoadKey[leads'[k]] = k /\ calling'[leads'[k]] \in Flying
        OBVIOUS
      <4>1. k # LoadKey[c] /\ leads'[k] = leads[k] /\ leads[k] \in Caller
        BY <1>2, <3>4 DEF FlightTyped
      <4>2. LoadKey[leads[k]] = k /\ calling[leads[k]] \in Flying
        BY <1>2, <4>1 DEF FlightSound
      <4> QED BY <3>4, <4>1, <4>2
    <3>7. ASSUME NEW d \in Caller
          PROVE  /\ calling'[d] \in Flying => leads'[LoadKey[d]] = d /\ flight[d].err # "unset"
                 /\ calling'[d] = "wait" =>
                      /\ joined[d] \in Caller /\ LoadKey[joined[d]] = LoadKey[d]
                      /\ flight[joined[d]].err # "unset"
                 /\ calling'[d] = "over" => GoodFor(LoadKey[d], result'[d])
      <4>1. CASE d = c
        BY <3>3, <3>4, <4>1 DEF Flying
      <4>2. CASE d # c
        <5>1. LoadKey[d] \in Key
          BY FlightAssumption
        <5> QED BY <1>2, <3>4, <3>5, <4>2, <5>1 DEF FlightSound
      <4> QED BY <4>1, <4>2
    <3>8. FlightSound'
      BY <1>1, <1>2, <3>1, <3>6, <3>7 DEF FlightSound, GoodFor, Items
    <3> QED BY <3>2, <3>8
  <2>4. CASE Return(c)
    <3>1. /\ calling[c] = "wait"
          /\ result' = [result EXCEPT ![c] = flight[joined[c]]]
          /\ calling' = [calling EXCEPT ![c] = "over"]
          /\ UNCHANGED <<leads, flight, joined>>
      BY <2>4 DEF Return, Moves
    <3>2. joined[c] \in Caller /\ GoodFor(LoadKey[c], flight[joined[c]])
      BY <1>2, <3>1 DEF FlightSound
    <3>3. FlightTyped'
      BY <1>1, <1>2, <3>1, <3>2 DEF FlightTyped, FlightPlace
    <3>4. /\ calling'[c] = "over" /\ result'[c] = flight[joined[c]]
          /\ \A d \in Caller : d # c => calling'[d] = calling[d] /\ result'[d] = result[d]
      BY <1>2, <3>1 DEF FlightTyped
    <3>5. \A k \in Key : leads[k] # None => calling'[leads[k]] \in Flying
      BY <1>2, <3>1, <3>4 DEF FlightSound, FlightTyped, Flying
    <3>6. FlightSound'
      BY <1>1, <1>2, <3>1, <3>2, <3>4, <3>5 DEF FlightSound, GoodFor, Flying, Items
    <3> QED BY <3>3, <3>6
  <2> QED BY <2>1, <2>2, <2>3, <2>4
<1>5. /\ \A d \in Caller : calling'[d] = "load" => calling[d] = "load"
      /\ \A d \in Caller : calling[d] = "store" => calling'[d] = "store"
  BY <1>2 DEF Join, Lead, Land, Return, Moves, FlightTyped
<1>6. Effect({}, {})
  BY <1>1 DEF Effect, StoreInv
<1>7. \A k \in Key : missed'[k] >= missed[k]
  BY <1>1, <1>2 DEF FlightTyped
<1>8. FlightDebt'
  BY <1>1, <1>2, <1>3, <1>4, <1>5, <1>6, <1>7, DebtKept
<1> QED BY <1>3, <1>4, <1>8 DEF FlightInv

LEMMA SecondGetStep ==
  ASSUME StoreInv, FlightInv, NEW c \in Caller, NEW o \in Outcome, SecondGet(c, o)
  PROVE  StoreInv' /\ FlightInv'
<1>1. /\ GetStep(LoadKey[c], o) /\ Misses(LoadKey[c], o) /\ calling[c] = "second"
      /\ UNCHANGED <<leads, joined, result, loads>>
      /\ IF o = "ok" /\ Live(LoadKey[c])
           THEN /\ flight' = [flight EXCEPT ![c] = Result(Value(LoadKey[c]), "none")]
                /\ calling' = [calling EXCEPT ![c] = "land"]
           ELSE calling' = [calling EXCEPT ![c] = "load"] /\ UNCHANGED flight
  BY DEF SecondGet, Moves
<1>2. LoadKey[c] \in Key /\ FlightTyped /\ FlightSound /\ FlightDebt
  BY FlightAssumption DEF FlightInv
<1>3. StoreInv' /\ Effect({}, {})
  BY <1>1, GetEffect
<1>4. /\ missed' \in [Key -> Nat] /\ \A k \in Key : missed'[k] >= missed[k]
      /\ o # "ok" => missed'[LoadKey[c]] = missed[LoadKey[c]] + 1
  BY <1>1, <1>2, MissesMore
<1>5. o = "ok" /\ Live(LoadKey[c]) =>
        /\ Result(Value(LoadKey[c]), "none") \in FlightResult
        /\ GoodFor(LoadKey[c], Result(Value(LoadKey[c]), "none"))
        /\ Result(Value(LoadKey[c]), "none").err # "unset"
  BY <1>2, LoadedValue
<1>6. flight[c].err # "unset" /\ GoodFor(LoadKey[c], flight[c])
  BY <1>1, <1>2 DEF FlightSound, Flying
<1>7. /\ calling' \in [Caller -> FlightPlace] /\ flight' \in [Caller -> FlightResult]
      /\ calling'[c] \in {"land", "load"}
      /\ calling'[c] = "load" => ~(o = "ok" /\ Live(LoadKey[c]))
      /\ flight'[c].err # "unset" /\ GoodFor(LoadKey[c], flight'[c])
      /\ \A d \in Caller : d # c => calling'[d] = calling[d] /\ flight'[d] = flight[d]
  BY <1>1, <1>2, <1>5, <1>6 DEF FlightTyped, FlightPlace, Flying
<1>8. FlightTyped'
  BY <1>1, <1>2, <1>4, <1>7 DEF FlightTyped
<1>9. FlightSound'
  <2>1. Items(entries') \subseteq Items(entries)
    BY <1>3 DEF Effect
  <2>2. \A k \in Key : leads[k] # None => LoadKey[leads[k]] = k /\ calling'[leads[k]] \in Flying
    BY <1>2, <1>7 DEF FlightSound, FlightTyped, Flying
  <2>3. ASSUME NEW d \in Caller
        PROVE  /\ calling'[d] \in Flying => leads[LoadKey[d]] = d /\ flight'[d].err # "unset"
               /\ flight'[d].err # "unset" => GoodFor(LoadKey[d], flight'[d])
               /\ calling'[d] = "wait" =>
                    /\ joined[d] \in Caller /\ LoadKey[joined[d]] = LoadKey[d]
                    /\ flight'[joined[d]].err # "unset"
               /\ calling'[d] = "over" => GoodFor(LoadKey[d], result[d])
    <3>1. calling[c] \in Flying
      BY <1>1 DEF Flying
    <3>2. CASE d = c
      BY <1>2, <1>7, <3>1, <3>2 DEF FlightSound
    <3>3. CASE d # c
      BY <1>2, <1>7, <3>3 DEF FlightSound
    <3> QED BY <3>2, <3>3
  <2>4. \A e \in Items(entries') : e.value \in Caller /\ LoadKey[e.value] = e.key
    BY <1>2, <2>1 DEF FlightSound
  <2> QED BY <1>1, <1>2, <2>2, <2>3, <2>4 DEF FlightSound, GoodFor, Items
<1>10. calling'[c] = "load" => loads[LoadKey[c]] <= lapses'[LoadKey[c]] + missed'[LoadKey[c]]
  <2> DEFINE k == LoadKey[c]
  <2>1. /\ loads[k] \in Nat /\ lapses[k] \in Nat /\ lapses'[k] \in Nat
        /\ missed[k] \in Nat /\ missed'[k] \in Nat
        /\ lapses'[k] >= lapses[k] /\ missed'[k] >= missed[k]
    BY <1>2, <1>3, <1>4 DEF FlightTyped, StoreInv, Effect
  <2>2. CASE o # "ok"
    <3>1. loads[k] <= 1 + lapses[k] + missed[k]
      BY <1>2 DEF FlightDebt
    <3>2. missed'[k] = missed[k] + 1
      BY <1>4, <2>2
    <3> QED BY <2>1, <3>1, <3>2
  <2>3. CASE ~Live(k)
    <3>1. ~LiveIn(entries, now, k)
      BY <2>3, LiveIs
    <3>2. ASSUME NEW d \in Caller, calling[d] = "store", LoadKey[d] = k PROVE FALSE
      BY <1>1, <1>2, <3>2 DEF FlightSound, Flying
    <3>3. Paid(k)
      BY <1>2, <3>1, <3>2 DEF FlightDebt
    <3> QED BY <2>1, <3>3 DEF Paid
  <2> QED BY <1>7, <2>2, <2>3
<1>11. /\ \A d \in Caller : calling'[d] = "load" =>
            calling[d] = "load" \/ loads[LoadKey[d]] <= lapses'[LoadKey[d]] + missed'[LoadKey[d]]
       /\ \A d \in Caller : calling[d] = "store" => calling'[d] = "store"
  BY <1>1, <1>7, <1>10
<1>12. FlightDebt'
  BY <1>1, <1>2, <1>3, <1>4, <1>8, <1>11, DebtKept
<1> QED BY <1>3, <1>8, <1>9, <1>12 DEF FlightInv

LEMMA LoadValueStep ==
  ASSUME StoreInv, FlightInv, NEW c \in Caller, NEW how \in {"value", "error", "panic"},
         LoadValue(c, how)
  PROVE  StoreInv' /\ FlightInv'
<1>1. /\ calling[c] = "load" /\ UNCHANGED <<now, entries, faults, lapses, leads, joined, result, missed>>
      /\ \/ /\ how = "value" /\ flight' = [flight EXCEPT ![c] = Result(c, "none")]
            /\ loads' = [loads EXCEPT ![LoadKey[c]] = @ + 1]
            /\ calling' = [calling EXCEPT ![c] = "store"]
         \/ /\ how = "error" /\ flight' = [flight EXCEPT ![c] = Result(None, "failed")]
            /\ calling' = [calling EXCEPT ![c] = "land"] /\ UNCHANGED loads
         \/ how = "panic" /\ calling' = [calling EXCEPT ![c] = "land"] /\ UNCHANGED <<flight, loads>>
  BY DEF LoadValue, Moves, storeVars
<1>2. LoadKey[c] \in Key /\ FlightTyped /\ FlightSound /\ FlightDebt
  BY FlightAssumption DEF FlightInv
<1>3. StoreInv' /\ Effect({}, {})
  BY <1>1 DEF StoreInv, Effect
<1>4. flight[c].err # "unset" /\ GoodFor(LoadKey[c], flight[c]) /\ leads[LoadKey[c]] = c
  BY <1>1, <1>2 DEF FlightSound, Flying
<1>5. /\ Result(c, "none") \in FlightResult /\ GoodFor(LoadKey[c], Result(c, "none"))
      /\ Result(None, "failed") \in FlightResult /\ GoodFor(LoadKey[c], Result(None, "failed"))
      /\ Result(c, "none").err # "unset" /\ Result(None, "failed").err # "unset"
  BY DEF Result, FlightResult, GoodFor
<1>6. /\ calling' \in [Caller -> FlightPlace] /\ flight' \in [Caller -> FlightResult]
      /\ loads' \in [Key -> Nat]
      /\ calling'[c] \in {"land", "store"}
      /\ flight'[c].err # "unset" /\ GoodFor(LoadKey[c], flight'[c])
      /\ \A d \in Caller : d # c => calling'[d] = calling[d] /\ flight'[d] = flight[d]
      /\ \A k \in Key : k # LoadKey[c] => loads'[k] = loads[k]
      /\ \/ loads'[LoadKey[c]] = loads[LoadKey[c]]
         \/ loads'[LoadKey[c]] = loads[LoadKey[c]] + 1 /\ calling'[c] = "store"
  BY <1>1, <1>2, <1>4, <1>5 DEF FlightTyped, FlightPlace, Flying
<1>7. FlightTyped'
  BY <1>1, <1>2, <1>6 DEF FlightTyped
<1>8. FlightSound'
  <2>1. \A k \in Key : leads[k] # None => LoadKey[leads[k]] = k /\ calling'[leads[k]] \in Flying
    BY <1>2, <1>6 DEF FlightSound, FlightTyped, Flying
  <2>2. ASSUME NEW d \in Caller
        PROVE  /\ calling'[d] \in Flying => leads[LoadKey[d]] = d /\ flight'[d].err # "unset"
               /\ flight'[d].err # "unset" => GoodFor(LoadKey[d], flight'[d])
               /\ calling'[d] = "wait" =>
                    /\ joined[d] \in Caller /\ LoadKey[joined[d]] = LoadKey[d]
                    /\ flight'[joined[d]].err # "unset"
               /\ calling'[d] = "over" => GoodFor(LoadKey[d], result[d])
    <3>1. CASE d = c
      BY <1>4, <1>6, <3>1
    <3>2. CASE d # c
      BY <1>2, <1>6, <3>2 DEF FlightSound
    <3> QED BY <3>1, <3>2
  <2> QED BY <1>1, <1>2, <2>1, <2>2 DEF FlightSound, GoodFor, Items
<1>9. FlightDebt'
  <2> SUFFICES ASSUME NEW k \in Key
               PROVE  /\ loads'[k] <= 1 + lapses[k] + missed[k]
                      /\ \/ loads'[k] <= lapses[k] + missed[k] \/ LiveIn(entries, now, k)
                         \/ \E d \in Caller : calling'[d] = "store" /\ LoadKey[d] = k
                      /\ \A d \in Caller : calling'[d] = "load" /\ LoadKey[d] = k =>
                           loads'[k] <= lapses[k] + missed[k]
    BY <1>1 DEF FlightDebt, Paid, LiveIn, Items, Expired
  <2>1. loads[k] \in Nat /\ lapses[k] \in Nat /\ missed[k] \in Nat
    BY <1>2 DEF FlightTyped, StoreInv
  <2>2. CASE k = LoadKey[c]
    <3>1. loads[k] <= lapses[k] + missed[k]
      BY <1>1, <1>2, <2>2 DEF FlightDebt, Paid
    <3>2. \A d \in Caller : calling'[d] = "load" => LoadKey[d] # k
      BY <1>2, <1>4, <1>6, <2>2 DEF FlightSound, Flying
    <3> QED BY <1>6, <2>1, <2>2, <3>1, <3>2
  <2>3. CASE k # LoadKey[c]
    <3>1. loads'[k] = loads[k]
      BY <1>6, <2>3
    <3>2. \A d \in Caller : LoadKey[d] = k => calling'[d] = calling[d]
      BY <1>6, <2>3
    <3> QED BY <1>2, <3>1, <3>2 DEF FlightDebt, Paid
  <2> QED BY <2>2, <2>3
<1> QED BY <1>3, <1>7, <1>8, <1>9 DEF FlightInv

LEMMA StoreLoadedStep ==
  ASSUME StoreInv, FlightInv, NEW c \in Caller, NEW o \in Outcome, StoreLoaded(c, o)
  PROVE  StoreInv' /\ FlightInv'
<1>1. /\ calling[c] = "store" /\ SetStep(LoadKey[c], c, LoadTTL, o) /\ Misses(LoadKey[c], o)
      /\ calling' = [calling EXCEPT ![c] = "land"]
      /\ UNCHANGED <<leads, flight, joined, result, loads>>
  BY DEF StoreLoaded, Moves
<1>2. LoadKey[c] \in Key /\ FlightTyped /\ FlightSound /\ FlightDebt
  BY FlightAssumption DEF FlightInv
<1> DEFINE f == Fresh(LoadKey[c], c, LoadTTL)
<1>3. c \in Payload /\ LoadTTL \in Nat
  BY FlightAssumption DEF Payload
<1>4. /\ StoreInv' /\ Effect({f}, {})
      /\ Ran(o) => LiveIn(entries', now', LoadKey[c])
  BY <1>1, <1>2, <1>3, SetEffect
<1>5. f.key = LoadKey[c] /\ f.value = c
  BY <1>2, <1>3, FreshIs DEF StoreInv
<1> HIDE DEF f
<1>6. /\ missed' \in [Key -> Nat] /\ \A k \in Key : missed'[k] >= missed[k]
      /\ o # "ok" => missed'[LoadKey[c]] = missed[LoadKey[c]] + 1
  BY <1>1, <1>2, MissesMore
<1>7. /\ calling' \in [Caller -> FlightPlace] /\ calling'[c] = "land"
      /\ \A d \in Caller : d # c => calling'[d] = calling[d]
  BY <1>1, <1>2 DEF FlightTyped, FlightPlace, Flying
<1>8. FlightTyped'
  BY <1>1, <1>2, <1>6, <1>7 DEF FlightTyped
<1>9. FlightSound'
  <2>1. \A k \in Key : leads[k] # None => LoadKey[leads[k]] = k /\ calling'[leads[k]] \in Flying
    BY <1>2, <1>7 DEF FlightSound, FlightTyped, Flying
  <2>2. ASSUME NEW d \in Caller
        PROVE  /\ calling'[d] \in Flying => leads[LoadKey[d]] = d /\ flight[d].err # "unset"
               /\ calling'[d] = "wait" =>
                    /\ joined[d] \in Caller /\ LoadKey[joined[d]] = LoadKey[d]
                    /\ flight[joined[d]].err # "unset"
               /\ calling'[d] = "over" => GoodFor(LoadKey[d], result[d])
    <3>1. calling[c] \in Flying
      BY <1>1 DEF Flying
    <3> QED BY <1>2, <1>7, <3>1 DEF FlightSound
  <2>3. \A e \in Items(entries') : e.value \in Caller /\ LoadKey[e.value] = e.key
    BY <1>2, <1>4, <1>5 DEF FlightSound, Effect
  <2> QED BY <1>1, <1>2, <2>1, <2>2, <2>3 DEF FlightSound, GoodFor, Items
<1>10. LiveIn(entries', now', LoadKey[c])
       \/ loads[LoadKey[c]] <= lapses'[LoadKey[c]] + missed'[LoadKey[c]]
  <2> DEFINE k == LoadKey[c]
  <2>1. CASE Ran(o)
    BY <1>4, <2>1
  <2>2. CASE ~Ran(o)
    <3>1. missed'[k] = missed[k] + 1 /\ lapses'[k] >= lapses[k]
      BY <1>2, <1>4, <1>6, <2>2 DEF Ran, Effect
    <3>2. loads[k] <= 1 + lapses[k] + missed[k]
      BY <1>2 DEF FlightDebt
    <3>3. loads[k] \in Nat /\ lapses[k] \in Nat /\ lapses'[k] \in Nat /\ missed[k] \in Nat
      BY <1>2, <1>4 DEF FlightTyped, StoreInv
    <3> QED BY <3>1, <3>2, <3>3
  <2> QED BY <2>1, <2>2
<1>11. /\ \A d \in Caller : calling'[d] = "load" => calling[d] = "load"
       /\ \A d \in Caller : calling[d] = "store" =>
            \/ calling'[d] = "store" \/ LiveIn(entries', now', LoadKey[d])
            \/ loads[LoadKey[d]] <= lapses'[LoadKey[d]] + missed'[LoadKey[d]]
  BY <1>1, <1>7, <1>10
<1>12. FlightDebt'
  BY <1>1, <1>2, <1>4, <1>6, <1>8, <1>11, DebtKept
<1> QED BY <1>4, <1>8, <1>9, <1>12 DEF FlightInv

LEMMA FlightStep ==
  ASSUME StoreInv, FlightInv, FlightNext
  PROVE  StoreInv' /\ FlightInv'
BY FirstGetStep, FlightMoves, SecondGetStep, LoadValueStep, StoreLoadedStep DEF FlightNext

LEMMA FlightStarts ==
  ASSUME StoreInit, FlightInit
  PROVE  FlightInv
<1>1. StoreInv /\ Items(entries) = {}
  BY StoreStarts
<1>2. Unset \in FlightResult /\ Unset.err = "unset"
  BY DEF Unset, Result, FlightResult
<1>3. FlightTyped
  BY <1>2 DEF FlightInit, FlightTyped, FlightPlace
<1>4. FlightSound
  BY <1>1, <1>2 DEF FlightInit, FlightSound, Flying
<1>5. FlightDebt
  BY <1>1 DEF FlightInit, FlightDebt, Paid, StoreInv
<1> QED BY <1>3, <1>4, <1>5 DEF FlightInv

LEMMA FlightBounds ==
  ASSUME FlightInv
  PROVE  LoadShared
<1>1. FlightSound /\ FlightDebt
  BY DEF FlightInv
<1>2. \A c, d \in Caller : c # d /\ calling[c] = "load" /\ calling[d] = "load" => LoadKey[c] # LoadKey[d]
  BY <1>1 DEF FlightSound, Flying
<1>3. \A c \in Caller : calling[c] = "over" => GoodFor(LoadKey[c], result[c])
  BY <1>1 DEF FlightSound
<1> QED BY <1>1, <1>2, <1>3 DEF LoadShared, FlightDebt, GoodFor

-----------------------------------------------------------------------------
(* Webhook deliveries.                                                     *)

HookPlace == {"sent", "check", "handle", "record", "over"}

(* The deliveries of k that were accepted or are with the handler, and     *)
(* whether one is past its check, by the places p and the accepted ones h. *)
ClaimsOf(k, h, p) == {d \in Delivery : EventKey(d) = k /\ (d \in h \/ p[d] = "handle")}
PastIn(k, p) == \E d \in Delivery : p[d] \in {"handle", "record"} /\ EventKey(d) = k
Claims(k) == Cardinality(ClaimsOf(k, handled, delivering))

HookTyped ==
  /\ delivering \in [Delivery -> HookPlace]
  /\ handled \subseteq Delivery
  /\ crossed \in [Key -> Nat]
  /\ \A d \in Delivery :
       /\ delivering[d] \in {"check", "handle", "record"} => EventKey(d) \in Key
       /\ d \in handled => delivering[d] \in {"record", "over"}
       /\ delivering[d] = "record" => d \in handled

(* The claims on an event are paid for by lapses and crossings, but for    *)
(* one: while its record is live, or a delivery is about to leave it.      *)
HookDebt ==
  \A k \in Key :
    /\ IsFiniteSet(ClaimsOf(k, handled, delivering))
    /\ Claims(k) <= 1 + lapses[k] + crossed[k]
    /\ \/ Claims(k) <= lapses[k] + crossed[k]
       \/ LiveIn(entries, now, k)
       \/ PastIn(k, delivering)

HookInv == HookTyped /\ HookDebt

(* A key whose claims do not grow stays paid for if what kept its last     *)
(* claim goes on, or is replaced.                                          *)
LEMMA ClaimsKept ==
  ASSUME StoreInv, StoreInv', HookTyped, HookTyped', HookDebt, NEW F, Effect(F, {}), NEW k \in Key,
         ClaimsOf(k, handled', delivering') \subseteq ClaimsOf(k, handled, delivering),
         crossed'[k] >= crossed[k],
         PastIn(k, delivering) =>
           \/ PastIn(k, delivering') \/ LiveIn(entries', now', k)
           \/ Claims(k) <= lapses'[k] + crossed'[k]
           \/ Cardinality(ClaimsOf(k, handled', delivering')) <= lapses'[k] + crossed'[k]
  PROVE  /\ IsFiniteSet(ClaimsOf(k, handled', delivering'))
         /\ Cardinality(ClaimsOf(k, handled', delivering')) <= 1 + lapses'[k] + crossed'[k]
         /\ \/ Cardinality(ClaimsOf(k, handled', delivering')) <= lapses'[k] + crossed'[k]
            \/ LiveIn(entries', now', k)
            \/ PastIn(k, delivering')
<1> DEFINE C == ClaimsOf(k, handled, delivering)
           D == ClaimsOf(k, handled', delivering')
<1>1. IsFiniteSet(C) /\ D \subseteq C
  BY DEF HookDebt
<1> HIDE DEF C, D
<1>2. IsFiniteSet(D) /\ Cardinality(D) <= Cardinality(C) /\ Cardinality(C) \in Nat
      /\ Cardinality(D) \in Nat
  BY <1>1, FS_Subset, FS_CardinalityType
<1>3. /\ lapses[k] \in Nat /\ lapses'[k] \in Nat /\ crossed[k] \in Nat /\ crossed'[k] \in Nat
      /\ lapses'[k] >= lapses[k] /\ crossed'[k] >= crossed[k]
  BY DEF StoreInv, HookTyped, Effect
<1>4. /\ Cardinality(C) <= 1 + lapses[k] + crossed[k]
      /\ \/ Cardinality(C) <= lapses[k] + crossed[k]
         \/ LiveIn(entries, now, k)
         \/ PastIn(k, delivering)
  BY DEF HookDebt, C, Claims
<1>5. LiveIn(entries, now, k) => LiveIn(entries', now', k) \/ lapses'[k] >= lapses[k] + 1
  BY DEF Effect
<1>6. PastIn(k, delivering) =>
        \/ PastIn(k, delivering') \/ LiveIn(entries', now', k)
        \/ Cardinality(C) <= lapses'[k] + crossed'[k]
        \/ Cardinality(D) <= lapses'[k] + crossed'[k]
  BY DEF C, D, Claims
<1>7. Cardinality(D) <= 1 + lapses'[k] + crossed'[k]
  BY <1>2, <1>3, <1>4
<1>8. \/ Cardinality(D) <= lapses'[k] + crossed'[k]
      \/ LiveIn(entries', now', k) \/ PastIn(k, delivering')
  BY <1>2, <1>3, <1>4, <1>5, <1>6
<1> QED BY <1>2, <1>7, <1>8 DEF D

LEMMA DebtPrimed ==
  ASSUME \A k \in Key :
           /\ IsFiniteSet(ClaimsOf(k, handled', delivering'))
           /\ Cardinality(ClaimsOf(k, handled', delivering')) <= 1 + lapses'[k] + crossed'[k]
           /\ \/ Cardinality(ClaimsOf(k, handled', delivering')) <= lapses'[k] + crossed'[k]
              \/ LiveIn(entries', now', k)
              \/ PastIn(k, delivering')
  PROVE  HookDebt'
BY DEF HookDebt, Claims, ClaimsOf, PastIn, LiveIn, Items, Expired

LEMMA HookQuiet ==
  ASSUME StoreInv, StoreInv', HookInv, Effect({}, {}), UNCHANGED hookVars
  PROVE  HookInv'
<1>1. HookTyped'
  BY DEF HookInv, HookTyped, hookVars
<1>2. HookTyped /\ HookDebt /\ UNCHANGED <<delivering, handled, crossed>>
  BY DEF HookInv, hookVars
<1>3. \A k \in Key : crossed'[k] >= crossed[k]
  BY <1>2 DEF HookTyped
<1>4. HookDebt'
  BY <1>1, <1>2, <1>3, ClaimsKept, DebtPrimed
<1> QED BY <1>1, <1>4 DEF HookInv

(* Only a delivery with an accepted signature is verified.                 *)
LEMMA VerifiedIsJudged ==
  ASSUME NEW d \in Delivery, NEW t, Verify(Content[d], t) = "accepted"
  PROVE  EventKey(d) \in Key
<1> DEFINE c == Content[d]
<1>1. c.scheme \in {"github", "hmac", "stripe", "standard"}
  BY WebhookAssumption
<1> HIDE DEF c
<1>2. Verify(c, t) = "accepted" => Judged(c) = "accepted"
  <2>1. CASE c.scheme = "github"
    BY <2>1 DEF Verify, VerifyHMAC
  <2>2. CASE c.scheme = "hmac"
    BY <2>2 DEF Verify, VerifyHMAC
  <2>3. CASE c.scheme = "stripe"
    BY <2>3 DEF Verify, VerifyStripe
  <2>4. CASE c.scheme = "standard"
    BY <2>4 DEF Verify, VerifyStandard
  <2> QED BY <1>1, <2>1, <2>2, <2>3, <2>4
<1> QED BY <1>2, WebhookAssumption DEF c

LEMMA ArriveStep ==
  ASSUME StoreInv, HookInv, NEW d \in Delivery, Arrive(d)
  PROVE  StoreInv' /\ HookInv'
<1>1. /\ delivering[d] = "sent" /\ UNCHANGED <<now, entries, faults, lapses, handled, crossed>>
      /\ \/ /\ Verify(Content[d], now) = "accepted"
            /\ delivering' = [delivering EXCEPT ![d] = "check"]
         \/ delivering' = [delivering EXCEPT ![d] = "over"]
  BY DEF Arrive, Reply, storeVars
<1>2. HookTyped /\ HookDebt
  BY DEF HookInv
<1>3. StoreInv' /\ Effect({}, {})
  BY <1>1 DEF StoreInv, Effect
<1>4. /\ delivering' \in [Delivery -> HookPlace] /\ delivering'[d] \in {"check", "over"}
      /\ delivering'[d] = "check" => EventKey(d) \in Key
      /\ \A e \in Delivery : e # d => delivering'[e] = delivering[e]
  BY <1>1, <1>2, VerifiedIsJudged DEF HookTyped, HookPlace
<1>5. HookTyped'
  BY <1>1, <1>2, <1>4 DEF HookTyped
<1>6. \A k \in Key : /\ ClaimsOf(k, handled', delivering') \subseteq ClaimsOf(k, handled, delivering)
                     /\ PastIn(k, delivering) => PastIn(k, delivering')
  BY <1>1, <1>4 DEF ClaimsOf, PastIn
<1>7. \A k \in Key : crossed'[k] >= crossed[k]
  BY <1>1, <1>2 DEF HookTyped
<1>8. HookDebt'
  BY <1>2, <1>3, <1>5, <1>6, <1>7, ClaimsKept, DebtPrimed
<1> QED BY <1>3, <1>5, <1>8 DEF HookInv

LEMMA HandleStep ==
  ASSUME StoreInv, HookInv, NEW d \in Delivery, NEW ok \in BOOLEAN, HandleEvent(d, ok)
  PROVE  StoreInv' /\ HookInv'
<1>1. /\ delivering[d] = "handle" /\ UNCHANGED <<now, entries, faults, lapses, crossed>>
      /\ \/ /\ delivering' = [delivering EXCEPT ![d] = "record"]
            /\ handled' = handled \cup {d}
         \/ delivering' = [delivering EXCEPT ![d] = "over"] /\ handled' = handled
  BY DEF HandleEvent, Reply, storeVars
<1>2. HookTyped /\ HookDebt /\ d \notin handled /\ EventKey(d) \in Key
  BY <1>1 DEF HookInv, HookTyped
<1>3. StoreInv' /\ Effect({}, {})
  BY <1>1 DEF StoreInv, Effect
<1>4. /\ delivering' \in [Delivery -> HookPlace]
      /\ \A e \in Delivery : e # d => delivering'[e] = delivering[e]
      /\ \/ delivering'[d] = "record" /\ handled' = handled \cup {d}
         \/ delivering'[d] = "over" /\ handled' = handled
  BY <1>1, <1>2 DEF HookTyped, HookPlace
<1>5. HookTyped'
  BY <1>1, <1>2, <1>4 DEF HookTyped
<1>6. \A k \in Key : ClaimsOf(k, handled', delivering') \subseteq ClaimsOf(k, handled, delivering)
  BY <1>1, <1>4 DEF ClaimsOf
<1>7. \A k \in Key : crossed'[k] >= crossed[k]
  BY <1>1, <1>2 DEF HookTyped
<1>8. ASSUME NEW k \in Key, PastIn(k, delivering)
      PROVE  \/ PastIn(k, delivering')
             \/ Cardinality(ClaimsOf(k, handled', delivering')) <= lapses'[k] + crossed'[k]
  <2>1. CASE k = EventKey(d) /\ delivering'[d] = "over"
    <3> DEFINE C == ClaimsOf(k, handled, delivering)
    <3>1. d \in C /\ IsFiniteSet(C)
      BY <1>1, <1>2, <2>1 DEF ClaimsOf, HookDebt
    <3>2. ClaimsOf(k, handled', delivering') = C \ {d}
      BY <1>2, <1>4, <2>1 DEF ClaimsOf
    <3>3. Cardinality(C) <= 1 + lapses[k] + crossed[k]
      BY <1>2 DEF HookDebt, Claims
    <3> HIDE DEF C
    <3>4. Cardinality(C \ {d}) = Cardinality(C) - 1 /\ Cardinality(C) \in Nat
      BY <3>1, FS_RemoveElement, FS_CardinalityType
    <3>5. lapses'[k] = lapses[k] /\ crossed'[k] = crossed[k] /\ lapses[k] \in Nat /\ crossed[k] \in Nat
      BY <1>1, <1>2 DEF StoreInv, HookTyped
    <3> QED BY <3>2, <3>3, <3>4, <3>5
  <2>2. CASE k # EventKey(d) \/ delivering'[d] # "over"
    <3>1. PICK e \in Delivery : delivering[e] \in {"handle", "record"} /\ EventKey(e) = k
      BY <1>8 DEF PastIn
    <3>2. delivering'[e] \in {"handle", "record"}
      BY <1>4, <2>2, <3>1
    <3> QED BY <3>1, <3>2 DEF PastIn
  <2> QED BY <2>1, <2>2
<1>9. HookDebt'
  BY <1>2, <1>3, <1>5, <1>6, <1>7, <1>8, ClaimsKept, DebtPrimed
<1> QED BY <1>3, <1>5, <1>9 DEF HookInv

LEMMA CheckStep ==
  ASSUME StoreInv, HookInv, NEW d \in Delivery, NEW o \in Outcome, CheckReplay(d, o)
  PROVE  StoreInv' /\ HookInv'
<1> DEFINE key == EventKey(d)
           crosses == o # "ok" \/ \E e \in Delivery : Past(e) /\ EventKey(e) = key
<1>1. /\ delivering[d] = "check" /\ GetStep(key, o) /\ handled' = handled
      /\ \/ /\ delivering' = [delivering EXCEPT ![d] = "over"] /\ crossed' = crossed
         \/ /\ ~(o = "ok" /\ Live(key)) /\ delivering' = [delivering EXCEPT ![d] = "handle"]
            /\ crossed' = IF crosses THEN [crossed EXCEPT ![key] = @ + 1] ELSE crossed
  BY DEF CheckReplay, Reply
<1>2. HookTyped /\ HookDebt /\ key \in Key /\ d \notin handled
  BY <1>1 DEF HookInv, HookTyped
<1>3. StoreInv' /\ Effect({}, {})
  BY <1>1, GetEffect
<1> HIDE DEF crosses
<1>4. /\ delivering' \in [Delivery -> HookPlace] /\ crossed' \in [Key -> Nat]
      /\ \A e \in Delivery : e # d => delivering'[e] = delivering[e]
      /\ \A k \in Key : crossed'[k] >= crossed[k]
      /\ \/ delivering'[d] = "over"
         \/ /\ delivering'[d] = "handle" /\ ~(o = "ok" /\ Live(key))
            /\ crosses => crossed'[key] = crossed[key] + 1
  BY <1>1, <1>2 DEF HookTyped, HookPlace
<1>5. HookTyped'
  BY <1>1, <1>2, <1>4 DEF HookTyped
<1>6. \A k \in Key : PastIn(k, delivering) => PastIn(k, delivering')
  BY <1>1, <1>4 DEF PastIn
<1>7. ASSUME NEW k \in Key
      PROVE  /\ IsFiniteSet(ClaimsOf(k, handled', delivering'))
             /\ Cardinality(ClaimsOf(k, handled', delivering')) <= 1 + lapses'[k] + crossed'[k]
             /\ \/ Cardinality(ClaimsOf(k, handled', delivering')) <= lapses'[k] + crossed'[k]
                \/ LiveIn(entries', now', k)
                \/ PastIn(k, delivering')
  <2>1. CASE k # key \/ delivering'[d] = "over"
    <3>1. ClaimsOf(k, handled', delivering') \subseteq ClaimsOf(k, handled, delivering)
      BY <1>1, <1>4, <2>1 DEF ClaimsOf
    <3> QED BY <1>2, <1>3, <1>4, <1>5, <1>6, <3>1, ClaimsKept
  <2>2. CASE k = key /\ delivering'[d] = "handle"
    <3> DEFINE C == ClaimsOf(k, handled, delivering)
    <3>1. IsFiniteSet(C) /\ Cardinality(C) <= 1 + lapses[k] + crossed[k]
      BY <1>2 DEF HookDebt, Claims
    <3>2. ClaimsOf(k, handled', delivering') = C \cup {d}
      BY <1>1, <1>2, <1>4, <2>2 DEF ClaimsOf
    <3>3. PastIn(k, delivering')
      BY <2>2 DEF PastIn
    <3>4. \/ crossed'[k] = crossed[k] + 1
          \/ Cardinality(C) <= lapses[k] + crossed[k]
      <4>1. CASE crosses
        BY <1>4, <2>2, <4>1
      <4>2. CASE ~crosses
        <5>1. o = "ok" /\ ~PastIn(k, delivering)
          BY <2>2, <4>2 DEF crosses, Past, PastIn
        <5>2. ~LiveIn(entries, now, k)
          BY <1>4, <2>2, <5>1, LiveIs
        <5> QED BY <1>2, <5>1, <5>2 DEF HookDebt, Claims
      <4> QED BY <4>1, <4>2
    <3> HIDE DEF C
    <3>5. /\ IsFiniteSet(C \cup {d}) /\ Cardinality(C \cup {d}) <= Cardinality(C) + 1
          /\ Cardinality(C) \in Nat /\ Cardinality(C \cup {d}) \in Nat
      <4>1. Cardinality(C) \in Nat /\ IsFiniteSet(C \cup {d})
        BY <3>1, FS_AddElement, FS_CardinalityType
      <4>2. Cardinality(C \cup {d}) = Cardinality(C) \/ Cardinality(C \cup {d}) = Cardinality(C) + 1
        BY <3>1, FS_AddElement
      <4> QED BY <4>1, <4>2
    <3>6. /\ lapses[k] \in Nat /\ lapses'[k] \in Nat /\ crossed[k] \in Nat /\ crossed'[k] \in Nat
          /\ lapses'[k] >= lapses[k] /\ crossed'[k] >= crossed[k]
      BY <1>2, <1>3, <1>4 DEF StoreInv, HookTyped, Effect
    <3>7. Cardinality(C \cup {d}) <= 1 + lapses'[k] + crossed'[k]
      BY <3>1, <3>4, <3>5, <3>6
    <3> QED BY <3>2, <3>3, <3>5, <3>7
  <2> QED BY <1>4, <2>1, <2>2
<1>8. HookDebt'
  BY <1>7, DebtPrimed
<1> QED BY <1>3, <1>5, <1>8 DEF HookInv

LEMMA RecordStep ==
  ASSUME StoreInv, HookInv, NEW d \in Delivery, NEW o \in Outcome, RecordDelivery(d, o)
  PROVE  StoreInv' /\ HookInv'
<1> DEFINE key == EventKey(d)
<1>1. /\ delivering[d] = "record" /\ SetStep(key, "delivered", ReplayTTL, o) /\ handled' = handled
      /\ delivering' = [delivering EXCEPT ![d] = "over"]
      /\ crossed' = IF Ran(o) THEN crossed ELSE [crossed EXCEPT ![key] = @ + 1]
  BY DEF RecordDelivery
<1>2. HookTyped /\ HookDebt /\ key \in Key /\ d \in handled
  BY <1>1 DEF HookInv, HookTyped
<1>3. "delivered" \in Payload /\ ReplayTTL \in Nat
  BY WebhookAssumption DEF Payload
<1>4. PICK F : StoreInv' /\ Effect(F, {}) /\ (Ran(o) => LiveIn(entries', now', key))
  BY <1>1, <1>2, <1>3, SetEffect
<1>5. /\ delivering' \in [Delivery -> HookPlace] /\ crossed' \in [Key -> Nat]
      /\ delivering'[d] = "over"
      /\ \A e \in Delivery : e # d => delivering'[e] = delivering[e]
      /\ \A k \in Key : crossed'[k] >= crossed[k]
      /\ ~Ran(o) => crossed'[key] = crossed[key] + 1
  BY <1>1, <1>2 DEF HookTyped, HookPlace
<1>6. HookTyped'
  BY <1>1, <1>2, <1>5 DEF HookTyped
<1>7. \A k \in Key : ClaimsOf(k, handled', delivering') \subseteq ClaimsOf(k, handled, delivering)
  BY <1>1, <1>5 DEF ClaimsOf
<1>8. ASSUME NEW k \in Key, PastIn(k, delivering)
      PROVE  \/ PastIn(k, delivering') \/ LiveIn(entries', now', k)
             \/ Claims(k) <= lapses'[k] + crossed'[k]
  <2>1. CASE k # key
    BY <1>5, <1>8, <2>1 DEF PastIn
  <2>2. CASE k = key /\ Ran(o)
    BY <1>4, <2>2
  <2>3. CASE k = key /\ ~Ran(o)
    <3>1. PICK n \in Nat : n = Claims(k)
      <4>1. IsFiniteSet(ClaimsOf(k, handled, delivering))
        BY <1>2 DEF HookDebt
      <4> QED BY <4>1, FS_CardinalityType DEF Claims
    <3>2. n <= 1 + lapses[k] + crossed[k] /\ crossed'[k] = crossed[k] + 1 /\ lapses'[k] >= lapses[k]
      BY <1>2, <1>4, <1>5, <2>3, <3>1 DEF HookDebt, Effect
    <3>3. lapses[k] \in Nat /\ lapses'[k] \in Nat /\ crossed[k] \in Nat
      BY <1>2, <1>4 DEF StoreInv, HookTyped
    <3> QED BY <3>1, <3>2, <3>3
  <2> QED BY <2>1, <2>2, <2>3
<1>9. HookDebt'
  BY <1>2, <1>4, <1>5, <1>6, <1>7, <1>8, ClaimsKept, DebtPrimed
<1> QED BY <1>4, <1>6, <1>9 DEF HookInv

LEMMA HookStep ==
  ASSUME StoreInv, HookInv, HookNext
  PROVE  StoreInv' /\ HookInv'
BY ArriveStep, HandleStep, CheckStep, RecordStep DEF HookNext

LEMMA HookStarts ==
  ASSUME StoreInit, HookInit
  PROVE  HookInv
<1>1. StoreInv
  BY StoreStarts
<1>2. \A k \in Key : ClaimsOf(k, handled, delivering) = {}
  BY DEF HookInit, ClaimsOf
<1>3. \A k \in Key : Claims(k) = 0 /\ IsFiniteSet(ClaimsOf(k, handled, delivering))
  BY <1>2, FS_EmptySet DEF Claims
<1>4. HookTyped
  BY DEF HookInit, HookTyped, HookPlace
<1>5. HookDebt
  BY <1>1, <1>3, <1>4 DEF HookDebt, StoreInv, HookTyped
<1> QED BY <1>4, <1>5 DEF HookInv

LEMMA HookBounds ==
  ASSUME StoreInv, HookInv
  PROVE  EventOnce
<1> SUFFICES ASSUME NEW k \in Key
             PROVE  Cardinality({d \in handled : EventKey(d) = k}) <= 1 + lapses[k] + crossed[k]
  BY DEF EventOnce
<1> DEFINE E == {d \in handled : EventKey(d) = k}
           C == ClaimsOf(k, handled, delivering)
<1>1. E \subseteq C /\ IsFiniteSet(C) /\ Cardinality(C) <= 1 + lapses[k] + crossed[k]
  BY DEF HookInv, HookTyped, HookDebt, Claims, ClaimsOf
<1>2. lapses[k] \in Nat /\ crossed[k] \in Nat
  BY DEF HookInv, HookTyped, StoreInv
<1> HIDE DEF E, C
<1>3. Cardinality(E) <= Cardinality(C) /\ Cardinality(E) \in Nat /\ Cardinality(C) \in Nat
  BY <1>1, FS_Subset, FS_CardinalityType
<1> QED BY <1>1, <1>2, <1>3 DEF E

-----------------------------------------------------------------------------
(* Idempotent calls.                                                       *)

IdemPlace == {"none", "reserve", "look", "run", "complete", "release", "over"}
Status == {"none", "ok", "unavailable", "reused", "in progress", "failed", "panicked",
           "no answer", "gave up"}
AnswerRec == [status : Status, by : Request \cup {None}]

IdemTyped ==
  /\ calls \subseteq Call
  /\ serving \in [Request -> IdemPlace]
  /\ attempt \in [Call -> Nat] /\ \A c \in Call : attempt[c] <= Attempts[c]
  /\ answer \in [Request -> AnswerRec] /\ got \in [Call -> AnswerRec]
  /\ ran \subseteq Request /\ spoilt \in [Key -> Nat]

(* Where a request can be, and that a call without a key is sent once.     *)
IdemPlaces ==
  /\ \A r \in Request :
       /\ serving[r] \in {"reserve", "look", "complete", "release"} => KeyFor(r) # None
       /\ r \in ran => serving[r] \in {"complete", "release", "over"}
       /\ serving[r] = "complete" => r \in ran
       /\ serving[r] # "none" => r[2] <= attempt[r[1]]
  /\ \A c \in Call : KeyOf[c] = None => attempt[c] <= 1

(* A success is that of a request that ran, for the same key and print.    *)
GoodAnswer(c, a, rn) ==
  a.status = "ok" =>
    a.by \in rn /\ KeyFor(a.by) = KeyOf[c] /\ Fingerprint[a.by[1]] = Fingerprint[c]
GoodRecord(e, rn) ==
  \/ \E r \in Request : e.value = Pending(r)
  \/ \E r \in rn : e.value = Complete(r) /\ KeyFor(r) = e.key

IdemAnswers ==
  /\ \A r \in Request : GoodAnswer(r[1], answer[r], ran)
  /\ \A c \in Call : GoodAnswer(c, got[c], ran)
  /\ \A e \in Items(entries) : GoodRecord(e, ran)

(* The requests of k that have succeeded, may, or are about to release it. *)
TakersOf(k, rn, sv) == {r \in Request : KeyFor(r) = k /\ (r \in rn \/ sv[r] \in {"run", "release"})}
Takers(k) == Cardinality(TakersOf(k, ran, serving))

(* They are paid for by lapses and spoilt results, but for one while the   *)
(* record is live.                                                         *)
IdemDebt ==
  \A k \in Key :
    /\ IsFiniteSet(TakersOf(k, ran, serving))
    /\ Takers(k) <= 1 + lapses[k] + spoilt[k]
    /\ Takers(k) <= lapses[k] + spoilt[k] \/ LiveIn(entries, now, k)

IdemInv == IdemTyped /\ IdemPlaces /\ IdemAnswers /\ IdemDebt

LEMMA RequestIs ==
  /\ \A r \in Request : /\ r[1] \in Call /\ r[2] \in Nat \ {0} /\ r = <<r[1], r[2]>>
                        /\ KeyFor(r) \in Key \cup {None}
  /\ \A c \in Call : \A n \in Nat : 0 < n /\ n <= Attempts[c] =>
       <<c, n>> \in Request /\ KeyFor(<<c, n>>) = KeyOf[c]
<1>1. \A c \in Call : Attempts[c] \in Nat \ {0} /\ KeyOf[c] \in Key \cup {None}
  BY IdempotencyAssumption
<1>2. ASSUME NEW r \in Request
      PROVE  /\ r[1] \in Call /\ r[2] \in Nat \ {0} /\ r = <<r[1], r[2]>>
             /\ KeyFor(r) \in Key \cup {None}
  <2>1. PICK c \in Call : r \in {c} \X (1..Attempts[c])
    BY DEF Request
  <2>2. r[1] = c /\ r[2] \in 1..Attempts[c] /\ r = <<r[1], r[2]>>
    BY <2>1
  <2> QED BY <1>1, <2>2 DEF KeyFor
<1>3. ASSUME NEW c \in Call, NEW n \in Nat, 0 < n, n <= Attempts[c]
      PROVE  <<c, n>> \in Request /\ KeyFor(<<c, n>>) = KeyOf[c]
  <2>1. <<c, n>> \in {c} \X (1..Attempts[c])
    BY <1>1, <1>3
  <2> QED BY <2>1 DEF Request, KeyFor
<1> QED BY <1>2, <1>3

LEMMA AnswersNext ==
  ASSUME IdemAnswers, ran \subseteq ran', NEW F, NEW D, Effect(F, D),
         \A f \in F : GoodRecord(f, ran'),
         \A r \in Request : answer'[r] = answer[r] \/ GoodAnswer(r[1], answer'[r], ran'),
         \A c \in Call : got'[c] = got[c] \/ GoodAnswer(c, got'[c], ran')
  PROVE  IdemAnswers'
<1>1. \A r \in Request : GoodAnswer(r[1], answer'[r], ran')
  BY DEF IdemAnswers, GoodAnswer
<1>2. \A c \in Call : GoodAnswer(c, got'[c], ran')
  BY DEF IdemAnswers, GoodAnswer
<1>3. \A e \in Items(entries') : GoodRecord(e, ran')
  <2> SUFFICES ASSUME NEW e \in Items(entries') PROVE GoodRecord(e, ran')
    OBVIOUS
  <2>1. e \in Items(entries) \/ e \in F
    BY DEF Effect
  <2>2. e \in Items(entries) => GoodRecord(e, ran)
    BY DEF IdemAnswers
  <2>3. GoodRecord(e, ran) => GoodRecord(e, ran')
    BY DEF GoodRecord
  <2> QED BY <2>1, <2>2, <2>3
<1> QED BY <1>1, <1>2, <1>3 DEF IdemAnswers, GoodAnswer, GoodRecord, Items, KeyFor, Pending, Complete

LEMMA TakersKept ==
  ASSUME StoreInv, StoreInv', IdemTyped, IdemTyped', IdemDebt, NEW F, NEW D, Effect(F, D),
         NEW k \in Key, k \notin D,
         TakersOf(k, ran', serving') \subseteq TakersOf(k, ran, serving),
         spoilt'[k] >= spoilt[k]
  PROVE  /\ IsFiniteSet(TakersOf(k, ran', serving'))
         /\ Cardinality(TakersOf(k, ran', serving')) <= 1 + lapses'[k] + spoilt'[k]
         /\ \/ Cardinality(TakersOf(k, ran', serving')) <= lapses'[k] + spoilt'[k]
            \/ LiveIn(entries', now', k)
<1> DEFINE S == TakersOf(k, ran, serving)
           T == TakersOf(k, ran', serving')
<1>1. /\ IsFiniteSet(S) /\ T \subseteq S
      /\ Cardinality(S) <= 1 + lapses[k] + spoilt[k]
      /\ Cardinality(S) <= lapses[k] + spoilt[k] \/ LiveIn(entries, now, k)
  BY DEF IdemDebt, Takers
<1> HIDE DEF S, T
<1>2. IsFiniteSet(T) /\ Cardinality(T) <= Cardinality(S) /\ Cardinality(S) \in Nat
      /\ Cardinality(T) \in Nat
  BY <1>1, FS_Subset, FS_CardinalityType
<1>3. /\ lapses[k] \in Nat /\ lapses'[k] \in Nat /\ spoilt[k] \in Nat /\ spoilt'[k] \in Nat
      /\ lapses'[k] >= lapses[k]
  BY DEF StoreInv, IdemTyped, Effect
<1>4. LiveIn(entries, now, k) => LiveIn(entries', now', k) \/ lapses'[k] >= lapses[k] + 1
  BY DEF Effect
<1>5. Cardinality(T) <= 1 + lapses'[k] + spoilt'[k]
  BY <1>1, <1>2, <1>3
<1>6. Cardinality(T) <= lapses'[k] + spoilt'[k] \/ LiveIn(entries', now', k)
  BY <1>1, <1>2, <1>3, <1>4
<1> QED BY <1>2, <1>5, <1>6 DEF T

LEMMA IdemDebtPrimed ==
  ASSUME \A k \in Key :
           /\ IsFiniteSet(TakersOf(k, ran', serving'))
           /\ Cardinality(TakersOf(k, ran', serving')) <= 1 + lapses'[k] + spoilt'[k]
           /\ \/ Cardinality(TakersOf(k, ran', serving')) <= lapses'[k] + spoilt'[k]
              \/ LiveIn(entries', now', k)
  PROVE  IdemDebt'
BY DEF IdemDebt, Takers, TakersOf, KeyFor, LiveIn, Items, Expired

LEMMA IdemQuiet ==
  ASSUME StoreInv, StoreInv', IdemInv, Effect({}, {}), UNCHANGED idemVars
  PROVE  IdemInv'
<1>1. IdemTyped /\ IdemPlaces /\ IdemAnswers /\ IdemDebt
      /\ UNCHANGED <<calls, serving, answer, attempt, got, ran, spoilt>>
  BY DEF IdemInv, idemVars
<1>2. IdemTyped'
  BY <1>1 DEF IdemTyped
<1>3. IdemPlaces'
  BY <1>1 DEF IdemPlaces, KeyFor
<1>4. IdemAnswers'
  BY <1>1, AnswersNext
<1>5. \A k \in Key : spoilt'[k] >= spoilt[k]
  BY <1>1 DEF IdemTyped
<1>6. IdemDebt'
  BY <1>1, <1>2, <1>5, TakersKept, IdemDebtPrimed
<1> QED BY <1>2, <1>3, <1>4, <1>6 DEF IdemInv

(* A step of one request in the middleware.                                *)
LEMMA ServedPlaces ==
  ASSUME IdemTyped, IdemPlaces, NEW r \in Request, NEW p \in IdemPlace \ {"none"},
         serving[r] # "none", serving' = [serving EXCEPT ![r] = p],
         ran' = ran \/ ran' = ran \cup {r},
         p \in {"reserve", "look", "complete", "release"} => KeyFor(r) # None,
         r \in ran' => p \in {"complete", "release", "over"},
         p = "complete" => r \in ran',
         UNCHANGED attempt
  PROVE  IdemPlaces' /\ serving' \in [Request -> IdemPlace] /\ ran' \subseteq Request
         /\ ran \subseteq ran' /\ serving'[r] = p
         /\ \A q \in Request : q # r => serving'[q] = serving[q] /\ (q \in ran' <=> q \in ran)
<1>1. /\ serving' \in [Request -> IdemPlace] /\ serving'[r] = p
      /\ \A q \in Request : q # r => serving'[q] = serving[q]
  BY DEF IdemTyped
<1>2. ran' \subseteq Request /\ ran \subseteq ran' /\ \A q \in Request : q # r => (q \in ran' <=> q \in ran)
  BY DEF IdemTyped
<1>3. ASSUME NEW q \in Request
      PROVE  /\ serving'[q] \in {"reserve", "look", "complete", "release"} => KeyFor(q) # None
             /\ q \in ran' => serving'[q] \in {"complete", "release", "over"}
             /\ serving'[q] = "complete" => q \in ran'
             /\ serving'[q] # "none" => q[2] <= attempt[q[1]]
  <2>1. CASE q = r
    <3>1. q[2] <= attempt[q[1]]
      BY <2>1 DEF IdemPlaces
    <3> QED BY <1>1, <2>1, <3>1
  <2>2. CASE q # r
    BY <1>1, <1>2, <2>2 DEF IdemPlaces
  <2> QED BY <2>1, <2>2
<1>4. \A c \in Call : KeyOf[c] = None => attempt[c] <= 1
  BY DEF IdemPlaces
<1>5. IdemPlaces'
  BY <1>3, <1>4 DEF IdemPlaces, KeyFor
<1> QED BY <1>1, <1>2, <1>5

LEMMA AnswerTyped ==
  ASSUME NEW s \in Status, NEW b \in Request \cup {None}
  PROVE  /\ Answer(s, b) \in AnswerRec /\ Answer(s, b).status = s /\ Answer(s, b).by = b
         /\ NoAnswer \in AnswerRec /\ NoAnswer.status = "none"
BY DEF Answer, AnswerRec, NoAnswer, Status

LEMMA NamedAnswers ==
  /\ Answer("unavailable", None) \in AnswerRec /\ Answer("unavailable", None).status = "unavailable"
  /\ Answer("reused", None) \in AnswerRec /\ Answer("reused", None).status = "reused"
  /\ Answer("in progress", None) \in AnswerRec /\ Answer("in progress", None).status = "in progress"
  /\ \A q \in Request : Answer("ok", q) \in AnswerRec /\ Answer("ok", q).by = q
<1>1. Answer("unavailable", None) \in AnswerRec /\ Answer("unavailable", None).status = "unavailable"
  BY DEF Answer, AnswerRec, Status
<1>2. Answer("reused", None) \in AnswerRec /\ Answer("reused", None).status = "reused"
  BY DEF Answer, AnswerRec, Status
<1>3. Answer("in progress", None) \in AnswerRec /\ Answer("in progress", None).status = "in progress"
  BY DEF Answer, AnswerRec, Status
<1>4. ASSUME NEW q \in Request PROVE Answer("ok", q) \in AnswerRec /\ Answer("ok", q).by = q
  BY DEF Answer, AnswerRec, Status
<1> QED BY <1>1, <1>2, <1>3, <1>4

LEMMA RunStep ==
  ASSUME StoreInv, IdemInv, NEW r \in Request, NEW how \in Ending, Run(r, how), UNCHANGED calls
  PROVE  StoreInv' /\ IdemInv'
<1> DEFINE p == IF KeyFor(r) = None \/ how = "panicked" THEN "over"
                ELSE IF how = "good" THEN "complete" ELSE "release"
           a == IF Succeeds(how) THEN Answer("ok", r) ELSE Answer(how, None)
<1>1. /\ serving[r] = "run" /\ ran' = (IF Succeeds(how) THEN ran \cup {r} ELSE ran)
      /\ answer' = [answer EXCEPT ![r] = a]
      /\ serving' = [serving EXCEPT ![r] = p]
      /\ UNCHANGED <<now, entries, faults, lapses, attempt, got, spoilt>>
  BY DEF Run, At, GoTo, storeVars
<1>2. IdemTyped /\ IdemPlaces /\ IdemAnswers /\ IdemDebt /\ r \notin ran
  BY <1>1 DEF IdemInv, IdemPlaces
<1>3. StoreInv' /\ Effect({}, {})
  BY <1>1 DEF StoreInv, Effect
<1>4. /\ p \in {"complete", "release", "over"}
      /\ p # "over" => KeyFor(r) # None
      /\ p = "complete" => r \in ran'
      /\ p = "over" => KeyFor(r) = None \/ r \notin ran'
  BY <1>1, <1>2 DEF Succeeds, Ending
<1>5. /\ a \in AnswerRec /\ (a.status = "ok" => a.by = r /\ r \in ran')
  <2>1. CASE Succeeds(how)
    <3>1. Answer("ok", r) \in AnswerRec /\ Answer("ok", r).by = r
      BY NamedAnswers
    <3>2. a = Answer("ok", r) /\ r \in ran'
      BY <1>1, <2>1
    <3> QED BY <3>1, <3>2
  <2>2. CASE ~Succeeds(how)
    <3>1. how \in Status /\ how # "ok"
      BY <2>2 DEF Succeeds, Ending, Status
    <3> QED BY <2>2, <3>1, AnswerTyped
  <2> QED BY <2>1, <2>2
<1> HIDE DEF p, a
<1>6. /\ IdemPlaces' /\ serving' \in [Request -> IdemPlace] /\ ran' \subseteq Request
      /\ ran \subseteq ran' /\ serving'[r] = p
      /\ \A q \in Request : q # r => serving'[q] = serving[q] /\ (q \in ran' <=> q \in ran)
  <2>1. ran' = ran \/ ran' = ran \cup {r}
    BY <1>1
  <2>2. p \in IdemPlace \ {"none"}
    BY <1>4 DEF IdemPlace
  <2> QED BY <1>1, <1>2, <1>4, <2>1, <2>2, ServedPlaces
<1>7. /\ answer' \in [Request -> AnswerRec] /\ answer'[r] = a
      /\ \A q \in Request : q # r => answer'[q] = answer[q]
  BY <1>1, <1>2, <1>5 DEF IdemTyped
<1>8. IdemTyped'
  BY <1>1, <1>2, <1>6, <1>7 DEF IdemTyped
<1>9. IdemAnswers'
  <2>1. GoodAnswer(r[1], a, ran')
    BY <1>5 DEF GoodAnswer, KeyFor
  <2> QED BY <1>1, <1>2, <1>3, <1>6, <1>7, <2>1, AnswersNext
<1>10. \A k \in Key : TakersOf(k, ran', serving') \subseteq TakersOf(k, ran, serving)
  BY <1>1, <1>6 DEF TakersOf
<1>11. \A k \in Key : spoilt'[k] >= spoilt[k]
  BY <1>1, <1>2 DEF IdemTyped
<1>12. IdemDebt'
  BY <1>2, <1>3, <1>8, <1>10, <1>11, TakersKept, IdemDebtPrimed
<1> QED BY <1>3, <1>6, <1>8, <1>9, <1>12 DEF IdemInv

LEMMA ReserveStep ==
  ASSUME StoreInv, IdemInv, NEW r \in Request, NEW o \in Outcome, Reserve(r, o), UNCHANGED calls
  PROVE  StoreInv' /\ IdemInv'
<1> DEFINE key == KeyFor(r)
<1>1. /\ serving[r] = "reserve" /\ AddStep(key, Pending(r), LockTTL, o)
      /\ \/ o # "ok" /\ serving' = [serving EXCEPT ![r] = "over"]
            /\ answer' = [answer EXCEPT ![r] = Answer("unavailable", None)]
         \/ o = "ok" /\ serving' = [serving EXCEPT ![r] = "look"] /\ answer' = answer
         \/ o = "ok" /\ ~Live(key) /\ serving' = [serving EXCEPT ![r] = "run"] /\ answer' = answer
      /\ UNCHANGED <<attempt, got, ran, spoilt>>
  BY DEF Reserve, At, GoTo, Respond
<1>2. IdemTyped /\ IdemPlaces /\ IdemAnswers /\ IdemDebt /\ r \notin ran /\ key # None /\ key \in Key
  BY <1>1, RequestIs DEF IdemInv, IdemPlaces
<1> DEFINE f == Fresh(key, Pending(r), LockTTL)
<1>3. Pending(r) \in Payload /\ LockTTL \in Nat
  BY IdempotencyAssumption DEF Payload
<1>4. /\ StoreInv' /\ Effect({f}, {})
      /\ Ran(o) /\ ~Live(key) => LiveIn(entries', now', key)
  BY <1>1, <1>2, <1>3, AddEffect
<1>5. f.value = Pending(r)
  BY <1>2, <1>3, FreshIs DEF StoreInv
<1> HIDE DEF f
<1>6. PICK p : /\ p \in {"over", "look", "run"} /\ serving' = [serving EXCEPT ![r] = p]
               /\ p = "run" => o = "ok" /\ ~Live(key)
  BY <1>1
<1>7. /\ IdemPlaces' /\ serving' \in [Request -> IdemPlace] /\ serving'[r] = p
      /\ \A q \in Request : q # r => serving'[q] = serving[q]
  <2>1. p \in IdemPlace \ {"none"}
    BY <1>6 DEF IdemPlace
  <2> QED BY <1>1, <1>2, <1>6, <2>1, ServedPlaces
<1>8. /\ answer' \in [Request -> AnswerRec]
      /\ \A q \in Request : answer'[q] = answer[q] \/ GoodAnswer(q[1], answer'[q], ran')
  <2>1. /\ Answer("unavailable", None) \in AnswerRec
        /\ Answer("unavailable", None).status = "unavailable"
    BY NamedAnswers
  <2>2. \A c : GoodAnswer(c, Answer("unavailable", None), ran')
    BY <2>1 DEF GoodAnswer
  <2> QED BY <1>1, <1>2, <2>1, <2>2 DEF IdemTyped
<1>9. IdemTyped'
  BY <1>1, <1>2, <1>7, <1>8 DEF IdemTyped
<1>10. IdemAnswers'
  <2>1. \A g \in {f} : GoodRecord(g, ran')
    BY <1>5 DEF GoodRecord
  <2> QED BY <1>1, <1>2, <1>4, <1>8, <2>1, AnswersNext
<1>11. ASSUME NEW k \in Key
       PROVE  /\ IsFiniteSet(TakersOf(k, ran', serving'))
              /\ Cardinality(TakersOf(k, ran', serving')) <= 1 + lapses'[k] + spoilt'[k]
              /\ \/ Cardinality(TakersOf(k, ran', serving')) <= lapses'[k] + spoilt'[k]
                 \/ LiveIn(entries', now', k)
  <2>1. CASE k # key \/ p # "run"
    <3>1. TakersOf(k, ran', serving') \subseteq TakersOf(k, ran, serving)
      BY <1>1, <1>6, <1>7, <2>1 DEF TakersOf
    <3>2. spoilt'[k] >= spoilt[k]
      BY <1>1, <1>2 DEF IdemTyped
    <3> QED BY <1>2, <1>4, <1>9, <3>1, <3>2, TakersKept
  <2>2. CASE k = key /\ p = "run"
    <3> DEFINE S == TakersOf(k, ran, serving)
    <3>1. ~LiveIn(entries, now, k) /\ LiveIn(entries', now', k)
      BY <1>4, <1>6, <2>2, LiveIs DEF Ran
    <3>2. IsFiniteSet(S) /\ Cardinality(S) <= lapses[k] + spoilt[k]
      BY <1>2, <3>1 DEF IdemDebt, Takers
    <3>3. TakersOf(k, ran', serving') = S \cup {r}
      BY <1>1, <1>2, <1>7, <2>2 DEF TakersOf
    <3> HIDE DEF S
    <3>4. IsFiniteSet(S \cup {r}) /\ Cardinality(S \cup {r}) <= Cardinality(S) + 1
          /\ Cardinality(S \cup {r}) \in Nat /\ Cardinality(S) \in Nat
      <4>1. Cardinality(S) \in Nat /\ IsFiniteSet(S \cup {r})
        BY <3>2, FS_AddElement, FS_CardinalityType
      <4>2. Cardinality(S \cup {r}) = Cardinality(S) \/ Cardinality(S \cup {r}) = Cardinality(S) + 1
        BY <3>2, FS_AddElement
      <4> QED BY <4>1, <4>2
    <3>5. /\ lapses[k] \in Nat /\ lapses'[k] \in Nat /\ spoilt[k] \in Nat /\ spoilt'[k] = spoilt[k]
          /\ lapses'[k] >= lapses[k]
      BY <1>1, <1>2, <1>4 DEF StoreInv, IdemTyped, Effect
    <3>6. Cardinality(S \cup {r}) <= 1 + lapses'[k] + spoilt'[k]
      BY <3>2, <3>4, <3>5
    <3> QED BY <3>1, <3>3, <3>4, <3>6
  <2> QED BY <2>1, <2>2
<1>12. IdemDebt'
  BY <1>11, IdemDebtPrimed
<1> QED BY <1>4, <1>7, <1>9, <1>10, <1>12 DEF IdemInv

LEMMA LookStep ==
  ASSUME StoreInv, IdemInv, NEW r \in Request, NEW o \in Outcome, Look(r, o), UNCHANGED calls
  PROVE  StoreInv' /\ IdemInv'
<1> DEFINE key == KeyFor(r)
           a == About(r, Value(key))
<1>1. /\ serving[r] = "look" /\ GetStep(key, o)
      /\ \/ /\ serving' = [serving EXCEPT ![r] = "over"]
            /\ answer' = [answer EXCEPT ![r] = Answer("unavailable", None)]
         \/ /\ Live(key) /\ serving' = [serving EXCEPT ![r] = "over"]
            /\ answer' = [answer EXCEPT ![r] = Answer(a.status, a.by)]
         \/ serving' = [serving EXCEPT ![r] = "reserve"] /\ answer' = answer
      /\ UNCHANGED <<attempt, got, ran, spoilt>>
  BY DEF Look, At, GoTo, Respond
<1>2. IdemTyped /\ IdemPlaces /\ IdemAnswers /\ IdemDebt /\ r \notin ran /\ key # None
  BY <1>1 DEF IdemInv, IdemPlaces
<1>3. StoreInv' /\ Effect({}, {})
  BY <1>1, GetEffect
<1>4. ASSUME Live(key)
      PROVE  Answer(a.status, a.by) \in AnswerRec /\ GoodAnswer(r[1], Answer(a.status, a.by), ran)
  <2>1. PICK e \in Items(entries) : e.key = key /\ e.value = Value(key)
    BY <1>4, ValueIs
  <2>2. PICK q \in Request : \/ e.value = Pending(q)
                             \/ q \in ran /\ e.value = Complete(q) /\ KeyFor(q) = key
    BY <1>2, <2>1 DEF IdemAnswers, GoodRecord, IdemTyped
  <2>3. \/ a = Answer("reused", None) \/ a = Answer("in progress", None)
        \/ a = Answer("ok", q) /\ q \in ran /\ KeyFor(q) = key /\ Fingerprint[q[1]] = Fingerprint[r[1]]
    <3> DEFINE rec == Value(key)
    <3>1. a = IF rec.print # Fingerprint[r[1]] THEN Answer("reused", None)
              ELSE IF ~rec.done THEN Answer("in progress", None)
              ELSE Answer("ok", rec.by)
      BY DEF About
    <3>2. CASE rec = Pending(q)
      <4>1. rec.done = FALSE
        BY <3>2 DEF Pending
      <4> QED BY <3>1, <4>1
    <3>3. CASE q \in ran /\ rec = Complete(q) /\ KeyFor(q) = key
      <4>1. rec.done = TRUE /\ rec.print = Fingerprint[q[1]] /\ rec.by = q
        BY <3>3 DEF Complete
      <4> HIDE DEF rec
      <4> QED BY <3>1, <3>3, <4>1
    <3> QED BY <2>1, <2>2, <3>2, <3>3
  <2>4. Answer(a.status, a.by) = a
    BY <2>3 DEF Answer
  <2>5. /\ Answer("reused", None) \in AnswerRec /\ Answer("reused", None).status = "reused"
        /\ Answer("in progress", None) \in AnswerRec
        /\ Answer("in progress", None).status = "in progress"
        /\ Answer("ok", q) \in AnswerRec /\ Answer("ok", q).by = q
    BY NamedAnswers
  <2> HIDE DEF a
  <2>6. a \in AnswerRec
    BY <2>3, <2>5
  <2>7. GoodAnswer(r[1], a, ran)
    BY <2>3, <2>5 DEF GoodAnswer, KeyFor
  <2> QED BY <2>4, <2>6, <2>7
<1>5. PICK p : p \in {"over", "reserve"} /\ serving' = [serving EXCEPT ![r] = p]
  BY <1>1
<1>6. /\ IdemPlaces' /\ serving' \in [Request -> IdemPlace] /\ serving'[r] = p
      /\ \A q \in Request : q # r => serving'[q] = serving[q]
  <2>1. p \in IdemPlace \ {"none"}
    BY <1>5 DEF IdemPlace
  <2> QED BY <1>1, <1>2, <1>5, <2>1, ServedPlaces
<1>7. /\ answer' \in [Request -> AnswerRec]
      /\ \A q \in Request : answer'[q] = answer[q] \/ GoodAnswer(q[1], answer'[q], ran')
  <2>1. /\ Answer("unavailable", None) \in AnswerRec
        /\ Answer("unavailable", None).status = "unavailable"
    BY NamedAnswers
  <2>2. \A c : GoodAnswer(c, Answer("unavailable", None), ran')
    BY <2>1 DEF GoodAnswer
  <2>3. PICK b : b = Answer(a.status, a.by)
    OBVIOUS
  <2>4. Live(key) => b \in AnswerRec /\ GoodAnswer(r[1], b, ran')
    BY <1>1, <1>4, <2>3
  <2> QED BY <1>1, <1>2, <2>1, <2>2, <2>3, <2>4 DEF IdemTyped
<1>8. IdemTyped'
  BY <1>1, <1>2, <1>6, <1>7 DEF IdemTyped
<1>9. IdemAnswers'
  BY <1>1, <1>2, <1>3, <1>7, AnswersNext
<1>10. \A k \in Key : TakersOf(k, ran', serving') \subseteq TakersOf(k, ran, serving)
  BY <1>1, <1>5, <1>6 DEF TakersOf
<1>11. \A k \in Key : spoilt'[k] >= spoilt[k]
  BY <1>1, <1>2 DEF IdemTyped
<1>12. IdemDebt'
  BY <1>2, <1>3, <1>8, <1>10, <1>11, TakersKept, IdemDebtPrimed
<1> QED BY <1>3, <1>6, <1>8, <1>9, <1>12 DEF IdemInv

LEMMA FinishStep ==
  ASSUME StoreInv, IdemInv, NEW r \in Request, NEW o \in Outcome, Finish(r, o), UNCHANGED calls
  PROVE  StoreInv' /\ IdemInv'
<1> DEFINE key == KeyFor(r)
<1>1. /\ serving[r] = "complete" /\ SetStep(key, Complete(r), TTL, o)
      /\ serving' = [serving EXCEPT ![r] = "over"]
      /\ UNCHANGED <<answer, attempt, got, ran, spoilt>>
  BY DEF Finish, At, GoTo
<1>2. IdemTyped /\ IdemPlaces /\ IdemAnswers /\ IdemDebt /\ r \in ran /\ key # None /\ key \in Key
  BY <1>1, RequestIs DEF IdemInv, IdemPlaces
<1> DEFINE f == Fresh(key, Complete(r), TTL)
<1>3. Complete(r) \in Payload /\ TTL \in Nat
  BY IdempotencyAssumption DEF Payload
<1>4. StoreInv' /\ Effect({f}, {})
  BY <1>1, <1>2, <1>3, SetEffect
<1>5. f.value = Complete(r) /\ f.key = key
  BY <1>2, <1>3, FreshIs DEF StoreInv
<1> HIDE DEF f
<1>6. /\ IdemPlaces' /\ serving' \in [Request -> IdemPlace] /\ serving'[r] = "over"
      /\ \A q \in Request : q # r => serving'[q] = serving[q]
  <2>1. "over" \in IdemPlace \ {"none"}
    BY DEF IdemPlace
  <2> QED BY <1>1, <1>2, <2>1, ServedPlaces
<1>7. IdemTyped'
  BY <1>1, <1>2, <1>6 DEF IdemTyped
<1>8. IdemAnswers'
  <2>1. \A g \in {f} : GoodRecord(g, ran')
    BY <1>1, <1>2, <1>5 DEF GoodRecord
  <2> QED BY <1>1, <1>2, <1>4, <2>1, AnswersNext
<1>9. \A k \in Key : TakersOf(k, ran', serving') \subseteq TakersOf(k, ran, serving)
  BY <1>1, <1>6 DEF TakersOf
<1>10. \A k \in Key : spoilt'[k] >= spoilt[k]
  BY <1>1, <1>2 DEF IdemTyped
<1>11. IdemDebt'
  BY <1>2, <1>4, <1>7, <1>9, <1>10, TakersKept, IdemDebtPrimed
<1> QED BY <1>4, <1>6, <1>7, <1>8, <1>11 DEF IdemInv

LEMMA ReleaseStep ==
  ASSUME StoreInv, IdemInv, NEW r \in Request, NEW o \in Outcome, Release(r, o), UNCHANGED calls
  PROVE  StoreInv' /\ IdemInv'
<1> DEFINE key == KeyFor(r)
<1>1. /\ serving[r] = "release" /\ DeleteStep(key, o)
      /\ serving' = [serving EXCEPT ![r] = "over"]
      /\ spoilt' = IF r \in ran /\ Ran(o) /\ Live(key)
                     THEN [spoilt EXCEPT ![key] = @ + 1] ELSE spoilt
      /\ UNCHANGED <<answer, attempt, got, ran>>
  BY DEF Release, At, GoTo
<1>2. IdemTyped /\ IdemPlaces /\ IdemAnswers /\ IdemDebt /\ key # None /\ key \in Key
  BY <1>1, RequestIs DEF IdemInv, IdemPlaces
<1>3. /\ StoreInv' /\ Effect({}, {key})
      /\ ~Ran(o) => entries' = entries /\ lapses' = lapses /\ now' = now
  BY <1>1, DeleteEffect
<1>4. /\ IdemPlaces' /\ serving' \in [Request -> IdemPlace] /\ serving'[r] = "over"
      /\ \A q \in Request : q # r => serving'[q] = serving[q]
  <2>1. "over" \in IdemPlace \ {"none"}
    BY DEF IdemPlace
  <2> QED BY <1>1, <1>2, <2>1, ServedPlaces
<1>5. /\ spoilt' \in [Key -> Nat] /\ \A k \in Key : spoilt'[k] >= spoilt[k]
      /\ r \in ran /\ Ran(o) /\ Live(key) => spoilt'[key] = spoilt[key] + 1
  BY <1>1, <1>2 DEF IdemTyped
<1>6. IdemTyped'
  BY <1>1, <1>2, <1>4, <1>5 DEF IdemTyped
<1>7. IdemAnswers'
  BY <1>1, <1>2, <1>3, AnswersNext
<1>8. \A k \in Key : TakersOf(k, ran', serving') \subseteq TakersOf(k, ran, serving)
  BY <1>1, <1>4 DEF TakersOf
<1>9. ASSUME NEW k \in Key
      PROVE  /\ IsFiniteSet(TakersOf(k, ran', serving'))
             /\ Cardinality(TakersOf(k, ran', serving')) <= 1 + lapses'[k] + spoilt'[k]
             /\ \/ Cardinality(TakersOf(k, ran', serving')) <= lapses'[k] + spoilt'[k]
                \/ LiveIn(entries', now', k)
  <2>1. CASE k # key
    BY <1>2, <1>3, <1>5, <1>6, <1>8, <2>1, TakersKept
  <2>2. CASE k = key
    <3> DEFINE S == TakersOf(k, ran, serving)
               T == TakersOf(k, ran', serving')
    <3>1. /\ IsFiniteSet(S) /\ T \subseteq S
          /\ Cardinality(S) <= 1 + lapses[k] + spoilt[k]
          /\ Cardinality(S) <= lapses[k] + spoilt[k] \/ LiveIn(entries, now, k)
      BY <1>2, <1>8 DEF IdemDebt, Takers
    <3>2. r \notin ran => r \in S /\ T = S \ {r}
      BY <1>1, <1>4, <2>2 DEF TakersOf
    <3> HIDE DEF S, T
    <3>3. IsFiniteSet(T) /\ Cardinality(T) <= Cardinality(S) /\ Cardinality(S) \in Nat
          /\ Cardinality(T) \in Nat
      BY <3>1, FS_Subset, FS_CardinalityType
    <3>4. r \notin ran => Cardinality(T) = Cardinality(S) - 1
      BY <3>1, <3>2, FS_RemoveElement
    <3>5. /\ lapses[k] \in Nat /\ lapses'[k] \in Nat /\ spoilt[k] \in Nat /\ spoilt'[k] \in Nat
          /\ lapses'[k] >= lapses[k] /\ spoilt'[k] >= spoilt[k]
      BY <1>2, <1>3, <1>5 DEF StoreInv, IdemTyped, Effect
    <3>6. Cardinality(T) <= 1 + lapses'[k] + spoilt'[k]
      BY <3>1, <3>3, <3>5
    <3>7. CASE ~Ran(o)
      <4>1. LiveIn(entries, now, k) => LiveIn(entries', now', k)
        BY <1>3, <3>7
      <4>2. Cardinality(T) <= lapses'[k] + spoilt'[k] \/ LiveIn(entries', now', k)
        BY <3>1, <3>3, <3>5, <4>1
      <4> QED BY <3>3, <3>6, <4>2 DEF T
    <3>8. CASE Ran(o)
      <4>1. Live(key) <=> LiveIn(entries, now, k)
        BY <2>2, LiveIs
      <4>2. CASE r \in ran /\ LiveIn(entries, now, k)
        <5>1. spoilt'[k] = spoilt[k] + 1
          BY <1>5, <2>2, <3>8, <4>1, <4>2
        <5>2. Cardinality(T) <= lapses'[k] + spoilt'[k]
          BY <3>1, <3>3, <3>5, <5>1
        <5> QED BY <3>3, <3>6, <5>2 DEF T
      <4>3. CASE r \notin ran \/ ~LiveIn(entries, now, k)
        <5>1. Cardinality(T) <= lapses'[k] + spoilt'[k]
          BY <3>1, <3>3, <3>4, <3>5, <4>3
        <5> QED BY <3>3, <3>6, <5>1 DEF T
      <4> QED BY <4>2, <4>3
    <3> QED BY <3>7, <3>8
  <2> QED BY <2>1, <2>2
<1>10. IdemDebt'
  BY <1>9, IdemDebtPrimed
<1> QED BY <1>3, <1>4, <1>6, <1>7, <1>10 DEF IdemInv

(* The client's steps leave the store as it is.                            *)
LEMMA StoreStays ==
  ASSUME StoreInv, UNCHANGED <<now, entries, lapses>>, faults' \in Nat
  PROVE  StoreInv' /\ Effect({}, {})
<1>1. StoreInv'
  BY DEF StoreInv
<1>2. now' >= now /\ \A k \in Key : lapses'[k] >= lapses[k]
  BY DEF StoreInv
<1> QED BY <1>1, <1>2 DEF Effect

(* An attempt is sent that has not been sent before.                       *)
LEMMA SendStep ==
  ASSUME StoreInv, StoreInv', Effect({}, {}), IdemInv, NEW c \in Call, NEW n \in Nat,
         n = attempt[c] + 1, n <= Attempts[c], KeyOf[c] = None => n = 1,
         Send(c, n), UNCHANGED <<calls, answer, got, ran, spoilt>>
  PROVE  IdemInv'
<1> DEFINE r == <<c, n>>
<1>1. IdemTyped /\ IdemPlaces /\ IdemAnswers /\ IdemDebt
  BY DEF IdemInv
<1>2. r \in Request /\ KeyFor(r) = KeyOf[c] /\ r[1] = c /\ r[2] = n /\ attempt[c] \in Nat
  BY <1>1, RequestIs DEF IdemTyped
<1>3. serving[r] = "none" /\ r \notin ran
  <2>1. ~(n <= attempt[c])
    BY <1>2
  <2> QED BY <1>1, <1>2, <2>1 DEF IdemPlaces
<1> HIDE DEF r
<1>4. PICK p : p = Entry(r) /\ serving' = [serving EXCEPT ![r] = p]
  BY DEF Send, GoTo, r
<1>5. /\ p \in {"run", "reserve"}
      /\ p = "run" => KeyOf[c] = None
      /\ p = "reserve" => KeyFor(r) # None
  BY <1>2, <1>4 DEF Entry
<1>6. /\ serving' \in [Request -> IdemPlace] /\ serving'[r] = p
      /\ \A q \in Request : q # r => serving'[q] = serving[q]
  <2>1. p \in IdemPlace /\ serving \in [Request -> IdemPlace]
    BY <1>1, <1>5 DEF IdemTyped, IdemPlace
  <2> QED BY <1>2, <1>4, <2>1
<1>7. /\ attempt' \in [Call -> Nat] /\ attempt'[c] = n
      /\ \A d \in Call : d # c => attempt'[d] = attempt[d]
  BY <1>1 DEF IdemTyped, Send
<1>8. IdemTyped'
  BY <1>1, <1>6, <1>7 DEF IdemTyped
<1>9. IdemPlaces'
  <2>1. ASSUME NEW q \in Request
        PROVE  /\ serving'[q] \in {"reserve", "look", "complete", "release"} => KeyFor(q) # None
               /\ q \in ran' => serving'[q] \in {"complete", "release", "over"}
               /\ serving'[q] = "complete" => q \in ran'
               /\ serving'[q] # "none" => q[2] <= attempt'[q[1]]
    <3>1. CASE q = r
      <4>1. serving'[q] \in {"run", "reserve"} /\ q \notin ran'
        BY <1>3, <1>5, <1>6, <3>1
      <4>2. serving'[q] = "reserve" => KeyFor(q) # None
        BY <1>5, <1>6, <3>1
      <4>3. q[2] <= attempt'[q[1]]
        BY <1>2, <1>7, <3>1
      <4> QED BY <4>1, <4>2, <4>3
    <3>2. CASE q # r
      <4>1. q[1] \in Call /\ q[2] \in Nat
        BY RequestIs
      <4>2. serving'[q] = serving[q]
        BY <1>6, <3>2
      <4>3. serving'[q] # "none" => q[2] <= attempt[q[1]]
        BY <1>1, <4>2 DEF IdemPlaces
      <4>4. attempt'[q[1]] \in Nat /\ attempt[q[1]] \in Nat /\ attempt[q[1]] <= attempt'[q[1]]
        BY <1>1, <1>2, <1>7, <4>1 DEF IdemTyped
      <4>5. serving'[q] # "none" => q[2] <= attempt'[q[1]]
        BY <4>1, <4>3, <4>4
      <4> QED BY <1>1, <4>2, <4>5 DEF IdemPlaces
    <3> QED BY <3>1, <3>2
  <2>2. \A d \in Call : KeyOf[d] = None => attempt'[d] <= 1
    BY <1>1, <1>7 DEF IdemPlaces
  <2> QED BY <2>1, <2>2 DEF IdemPlaces, KeyFor
<1>10. IdemAnswers'
  BY <1>1, AnswersNext
<1>11. \A k \in Key : TakersOf(k, ran', serving') \subseteq TakersOf(k, ran, serving)
  <2>1. \A k \in Key : k # None
    BY StoreAssumption
  <2>2. SUFFICES ASSUME NEW k \in Key, NEW q \in TakersOf(k, ran', serving')
                 PROVE  q \in TakersOf(k, ran, serving)
    OBVIOUS
  <2>3. q \in Request /\ KeyFor(q) = k /\ (q \in ran' \/ serving'[q] \in {"run", "release"})
    BY <2>2 DEF TakersOf
  <2>4. q # r
    <3>1. ASSUME q = r PROVE FALSE
      <4>1. q \notin ran'
        BY <1>3, <3>1
      <4>2. serving'[q] = "run"
        BY <1>5, <1>6, <2>3, <3>1, <4>1
      <4> QED BY <1>2, <1>5, <1>6, <2>1, <2>3, <3>1, <4>2
    <3> QED BY <3>1
  <2>5. serving'[q] = serving[q] /\ ran' = ran
    BY <1>6, <2>3, <2>4
  <2> QED BY <2>3, <2>5 DEF TakersOf
<1>12. \A k \in Key : spoilt'[k] >= spoilt[k]
  BY <1>1 DEF IdemTyped
<1>13. IdemDebt'
  BY <1>1, <1>8, <1>11, <1>12, TakersKept, IdemDebtPrimed
<1> QED BY <1>8, <1>9, <1>10, <1>13 DEF IdemInv

(* A call returns what it may.                                             *)
LEMMA ReturnStep ==
  ASSUME StoreInv, StoreInv', Effect({}, {}), IdemInv, NEW c \in Call,
         NEW a \in AnswerRec, GoodAnswer(c, a, ran), got' = [got EXCEPT ![c] = a],
         UNCHANGED <<calls, serving, attempt, answer, ran, spoilt>>
  PROVE  IdemInv'
<1>1. IdemTyped /\ IdemPlaces /\ IdemAnswers /\ IdemDebt
  BY DEF IdemInv
<1>2. /\ got' \in [Call -> AnswerRec] /\ got'[c] = a
      /\ \A d \in Call : d # c => got'[d] = got[d]
  BY <1>1 DEF IdemTyped
<1>3. IdemTyped'
  BY <1>1, <1>2 DEF IdemTyped
<1>4. IdemPlaces'
  BY <1>1 DEF IdemPlaces, KeyFor
<1>5. IdemAnswers'
  <2>1. \A d \in Call : got'[d] = got[d] \/ GoodAnswer(d, got'[d], ran')
    <3> SUFFICES ASSUME NEW d \in Call PROVE got'[d] = got[d] \/ GoodAnswer(d, got'[d], ran')
      OBVIOUS
    <3>1. CASE d = c
      BY <1>2, <3>1
    <3>2. CASE d # c
      BY <1>2, <3>2
    <3> QED BY <3>1, <3>2
  <2> QED BY <1>1, <2>1, AnswersNext
<1>6. \A k \in Key : spoilt'[k] >= spoilt[k]
  BY <1>1 DEF IdemTyped
<1>7. IdemDebt'
  BY <1>1, <1>3, <1>6, TakersKept, IdemDebtPrimed
<1> QED BY <1>3, <1>4, <1>5, <1>7 DEF IdemInv

(* What RoundTrip goes on with: only a call with a key is sent again.      *)
LEMMA TookStep ==
  ASSUME StoreInv, StoreInv', Effect({}, {}), IdemInv, NEW c \in Call,
         NEW a \in AnswerRec, GoodAnswer(c, a, ran), Took(c, a),
         UNCHANGED <<calls, answer, ran, spoilt>>
  PROVE  IdemInv'
<1>1. CASE CanRetry(c) /\ attempt[c] < Attempts[c] /\ ShouldRetry(a.status)
  <2>1. attempt[c] \in Nat /\ Attempts[c] \in Nat
    BY IdempotencyAssumption DEF IdemInv, IdemTyped
  <2>2. Send(c, attempt[c] + 1) /\ UNCHANGED got /\ KeyOf[c] # None
    BY <1>1 DEF Took, CanRetry
  <2>3. attempt[c] + 1 \in Nat /\ attempt[c] + 1 <= Attempts[c]
    BY <1>1, <2>1
  <2> QED BY <2>2, <2>3, SendStep
<1>2. CASE ~(CanRetry(c) /\ attempt[c] < Attempts[c] /\ ShouldRetry(a.status))
  <2>1. got' = [got EXCEPT ![c] = a] /\ UNCHANGED <<serving, attempt>>
    BY <1>2 DEF Took
  <2> QED BY <2>1, ReturnStep
<1> QED BY <1>1, <1>2

LEMMA CallStep ==
  ASSUME StoreInv, IdemInv, NEW c \in calls,
         Start(c) \/ Receive(c) \/ LoseAnswer(c) \/ GiveUp(c), UNCHANGED calls
  PROVE  StoreInv' /\ IdemInv'
<1>1. /\ c \in Call /\ attempt[c] \in Nat /\ Attempts[c] \in Nat \ {0}
      /\ faults \in Nat /\ StoreInv
  BY IdempotencyAssumption DEF IdemInv, IdemTyped, StoreInv
<1>2. CASE Start(c)
  <2>1. Send(c, 1) /\ attempt[c] = 0 /\ UNCHANGED <<now, entries, faults, lapses, answer, got, ran, spoilt>>
    BY <1>2 DEF Start, storeVars
  <2>2. StoreInv' /\ Effect({}, {})
    BY <1>1, <2>1, StoreStays
  <2>3. 1 \in Nat /\ 1 = attempt[c] + 1 /\ 1 <= Attempts[c]
    BY <1>1, <2>1
  <2> QED BY <1>1, <2>1, <2>2, <2>3, SendStep
<1>3. CASE Receive(c)
  <2> DEFINE r == Current(c)
  <2>1. /\ Took(c, answer[r]) /\ attempt[c] > 0
        /\ UNCHANGED <<now, entries, faults, lapses, answer, ran, spoilt>>
    BY <1>3 DEF Receive, Waiting, storeVars
  <2>2. StoreInv' /\ Effect({}, {})
    BY <1>1, <2>1, StoreStays
  <2>3. r \in Request /\ r[1] = c
    <3>1. attempt[c] <= Attempts[c]
      BY <1>1 DEF IdemInv, IdemTyped
    <3> QED BY <1>1, <2>1, <3>1, RequestIs DEF Current
  <2>4. answer[r] \in AnswerRec /\ GoodAnswer(c, answer[r], ran)
    <3>1. GoodAnswer(r[1], answer[r], ran)
      BY <2>3 DEF IdemInv, IdemAnswers
    <3> QED BY <2>3, <3>1 DEF IdemInv, IdemTyped
  <2> HIDE DEF r
  <2> QED BY <1>1, <2>1, <2>2, <2>4, TookStep
<1>4. CASE LoseAnswer(c)
  <2> DEFINE a == Answer("no answer", None)
  <2>1. a \in AnswerRec /\ a.status = "no answer"
    BY AnswerTyped DEF Status
  <2>2. Took(c, a) /\ UNCHANGED <<now, entries, lapses, answer, ran, spoilt>> /\ faults' = faults + 1
    BY <1>4 DEF LoseAnswer
  <2> HIDE DEF a
  <2>3. GoodAnswer(c, a, ran)
    BY <2>1 DEF GoodAnswer
  <2>4. StoreInv' /\ Effect({}, {})
    BY <1>1, <2>2, StoreStays
  <2> QED BY <1>1, <2>1, <2>2, <2>3, <2>4, TookStep
<1>5. CASE GiveUp(c)
  <2> DEFINE a == Answer("gave up", None)
  <2>1. a \in AnswerRec /\ a.status = "gave up"
    BY AnswerTyped DEF Status
  <2>2. /\ got' = [got EXCEPT ![c] = a] /\ faults' = faults + 1
        /\ UNCHANGED <<now, entries, lapses, serving, answer, attempt, ran, spoilt>>
    BY <1>5 DEF GiveUp
  <2> HIDE DEF a
  <2>3. GoodAnswer(c, a, ran)
    BY <2>1 DEF GoodAnswer
  <2>4. StoreInv' /\ Effect({}, {})
    BY <1>1, <2>2, StoreStays
  <2> QED BY <1>1, <2>1, <2>2, <2>3, <2>4, ReturnStep
<1> QED BY <1>2, <1>3, <1>4, <1>5

LEMMA IdemStep ==
  ASSUME StoreInv, IdemInv, ServeNext \/ CallNext, UNCHANGED calls
  PROVE  StoreInv' /\ IdemInv'
<1>1. CASE ServeNext
  <2>1. PICK r \in Request :
          \/ \E how \in Ending : Run(r, how)
          \/ \E o \in Outcome : Reserve(r, o) \/ Look(r, o) \/ Finish(r, o) \/ Release(r, o)
    BY <1>1 DEF ServeNext
  <2> QED BY <2>1, RunStep, ReserveStep, LookStep, FinishStep, ReleaseStep
<1>2. CASE CallNext
  BY <1>2, CallStep DEF CallNext
<1> QED BY <1>1, <1>2

LEMMA IdemStarts ==
  ASSUME StoreInit, IdemInit
  PROVE  IdemInv
<1>1. StoreInv /\ Items(entries) = {}
  BY StoreStarts
<1>2. NoAnswer \in AnswerRec /\ NoAnswer.status = "none"
  BY AnswerTyped DEF Status
<1>3. IdemTyped
  BY <1>2, IdempotencyAssumption DEF IdemInit, IdemTyped, IdemPlace
<1>4. IdemPlaces
  BY DEF IdemInit, IdemPlaces
<1>5. IdemAnswers
  BY <1>1, <1>2 DEF IdemInit, IdemAnswers, GoodAnswer
<1>6. \A k \in Key : TakersOf(k, ran, serving) = {}
  BY DEF IdemInit, TakersOf
<1>7. \A k \in Key : Takers(k) = 0 /\ IsFiniteSet(TakersOf(k, ran, serving))
  BY <1>6, FS_EmptySet DEF Takers
<1>8. IdemDebt
  BY <1>1, <1>3, <1>7 DEF IdemDebt, StoreInv, IdemTyped
<1> QED BY <1>3, <1>4, <1>5, <1>8 DEF IdemInv

LEMMA IdemBounds ==
  ASSUME StoreInv, IdemInv
  PROVE  EffectOnce
<1>1. IdemTyped /\ IdemPlaces /\ IdemAnswers /\ IdemDebt
  BY DEF IdemInv
<1>2. ASSUME NEW k \in Key
      PROVE  Cardinality(Effects(k)) <= 1 + lapses[k] + spoilt[k]
  <2> DEFINE T == TakersOf(k, ran, serving)
  <2>1. Effects(k) \subseteq T /\ IsFiniteSet(T) /\ Cardinality(T) <= 1 + lapses[k] + spoilt[k]
    BY <1>1 DEF IdemTyped, IdemDebt, Takers, TakersOf, Effects
  <2>2. lapses[k] \in Nat /\ spoilt[k] \in Nat
    BY <1>1 DEF IdemTyped, StoreInv
  <2> HIDE DEF T
  <2>3. Cardinality(Effects(k)) <= Cardinality(T) /\ Cardinality(Effects(k)) \in Nat
        /\ Cardinality(T) \in Nat
    BY <2>1, FS_Subset, FS_CardinalityType
  <2> QED BY <2>1, <2>2, <2>3
<1>3. ASSUME NEW c \in Call, KeyOf[c] = None
      PROVE  Cardinality({r \in ran : r[1] = c}) <= 1
  <2> DEFINE S == {r \in ran : r[1] = c}
  <2>1. \A r \in S : r = <<c, 1>>
    <3> SUFFICES ASSUME NEW r \in S PROVE r = <<c, 1>>
      OBVIOUS
    <3>1. r \in Request /\ r[1] = c
      BY <1>1 DEF IdemTyped
    <3>2. r[2] \in Nat \ {0} /\ r = <<r[1], r[2]>>
      BY <3>1, RequestIs
    <3>3. serving[r] # "none"
      BY <1>1, <3>1 DEF IdemPlaces
    <3>4. r[2] <= attempt[c] /\ attempt[c] <= 1 /\ attempt[c] \in Nat
      BY <1>1, <1>3, <3>1, <3>3 DEF IdemPlaces, IdemTyped
    <3>5. r[2] = 1
      BY <3>2, <3>4
    <3> QED BY <3>1, <3>2, <3>5
  <2>2. S \subseteq {<<c, 1>>}
    BY <2>1
  <2> HIDE DEF S
  <2>3. IsFiniteSet({<<c, 1>>}) /\ Cardinality({<<c, 1>>}) = 1
    BY FS_Singleton
  <2>4. Cardinality(S) <= 1
    BY <2>2, <2>3, FS_Subset
  <2> QED BY <2>4 DEF S
<1>4. \A c \in Call : GoodAnswer(c, got[c], ran)
  BY <1>1 DEF IdemAnswers
<1> QED BY <1>2, <1>3, <1>4 DEF EffectOnce, GoodAnswer

-----------------------------------------------------------------------------
(* Sessions.                                                               *)

VisitPlace == {"none", "load", "handler", "destroy", "destroy old", "drop", "save", "over"}
SessionRec == [id : Key \cup {None}, old : Key \cup {None}, expires : Payload,
               modified : BOOLEAN, destroyed : BOOLEAN]

Overs(vv) == {v \in Visit : vv[v] = "over"}

(* Every ID a request deals with was issued, and until it is over its      *)
(* session is the one it loaded, under id or, regenerated, under old.      *)
ShapeOf(p, s, ck, cm, is) ==
  /\ s.id \in is \cup {None} /\ s.old \in is \cup {None}
  /\ ck \in is \cup {None} /\ cm \in is \cup {None}
  /\ p = "load" => ck # None
  /\ p \in {"none", "load"} => cm = None
  /\ p # "over" => \/ s.id = cm /\ s.old = None
                   \/ s.id = None /\ s.old = cm

(* Each request issues one ID at most.                                     *)
SessionTyped ==
  /\ visiting \in [Visit -> VisitPlace] /\ session \in [Visit -> SessionRec]
  /\ cookie \in [Visit -> Key \cup {None}] /\ came \in [Visit -> Key \cup {None}]
  /\ issued \subseteq Key /\ gone \subseteq issued
  /\ IsFiniteSet(issued) /\ Cardinality(issued) <= Cardinality(Overs(visiting))
  /\ \A v \in Visit : ShapeOf(visiting[v], session[v], cookie[v], came[v], issued)

(* An ID is removed when it is not live and no request but those of W has  *)
(* it and could still store it.                                            *)
HoldersIn(id, ss, vv) == {w \in Visit : ss[w].id = id /\ vv[w] # "over"}
RemovedIn(id, W, un, es, t, ss, vv) ==
  id \notin un => ~LiveIn(es, t, id) /\ HoldersIn(id, ss, vv) \subseteq W
Removed(id, W) == RemovedIn(id, W, undone, entries, now, session, visiting)

SessionSound ==
  /\ \A id \in gone : Removed(id, {})
  /\ \A v \in Visit :
       /\ visiting[v] = "destroy old" /\ session[v].id # None => Removed(session[v].id, {v})
       /\ visiting[v] = "save" /\ session[v].old # None => Removed(session[v].old, {v})

SessionInv == SessionTyped /\ SessionSound

LEMMA OversGrow ==
  ASSUME visiting \in [Visit -> VisitPlace], NEW v \in Visit, visiting[v] # "over",
         NEW p \in VisitPlace, visiting' = [visiting EXCEPT ![v] = p]
  PROVE  /\ IsFiniteSet(Overs(visiting)) /\ Cardinality(Overs(visiting)) \in Nat
         /\ Cardinality(Overs(visiting')) \in Nat
         /\ Cardinality(Overs(visiting')) >= Cardinality(Overs(visiting))
         /\ p = "over" => Cardinality(Overs(visiting')) = Cardinality(Overs(visiting)) + 1
<1> DEFINE S == Overs(visiting)
           T == Overs(visiting')
<1>1. IsFiniteSet(Visit) /\ S \subseteq Visit /\ T \subseteq Visit /\ v \notin S
  BY SessionAssumption DEF Overs
<1>2. \A w \in Visit : w # v => visiting'[w] = visiting[w]
  OBVIOUS
<1>3. visiting'[v] = p
  OBVIOUS
<1>4. S \subseteq T /\ (p = "over" => T = S \cup {v})
  BY <1>2, <1>3 DEF Overs
<1> HIDE DEF S, T
<1>5. IsFiniteSet(S) /\ IsFiniteSet(T) /\ Cardinality(S) \in Nat /\ Cardinality(T) \in Nat
  BY <1>1, FS_Subset, FS_CardinalityType
<1>6. Cardinality(S) <= Cardinality(T)
  BY <1>4, <1>5, FS_Subset
<1>7. p = "over" => Cardinality(T) = Cardinality(S) + 1
  BY <1>1, <1>4, <1>5, FS_AddElement
<1> QED BY <1>5, <1>6, <1>7 DEF S, T

(* A step of one request, which ends with at most one new ID.              *)
LEMMA VisitStep ==
  ASSUME SessionTyped, NEW v \in Visit, visiting[v] # "over",
         NEW p \in VisitPlace, NEW s \in SessionRec,
         NEW ck \in Key \cup {None}, NEW cm \in Key \cup {None},
         visiting' = [visiting EXCEPT ![v] = p], session' = [session EXCEPT ![v] = s],
         cookie' = [cookie EXCEPT ![v] = ck], came' = [came EXCEPT ![v] = cm],
         NEW N \in SUBSET Key, issued' = issued \cup N, N = {} \/ (p = "over" /\ \E id : N = {id}),
         gone' \subseteq issued', ShapeOf(p, s, ck, cm, issued')
  PROVE  /\ SessionTyped' /\ visiting'[v] = p /\ session'[v] = s
         /\ \A w \in Visit : w # v => visiting'[w] = visiting[w] /\ session'[w] = session[w]
<1>1. /\ visiting' \in [Visit -> VisitPlace] /\ visiting'[v] = p
      /\ \A w \in Visit : w # v => visiting'[w] = visiting[w]
  BY DEF SessionTyped
<1>2. /\ session' \in [Visit -> SessionRec] /\ session'[v] = s
      /\ \A w \in Visit : w # v => session'[w] = session[w]
  BY DEF SessionTyped
<1>3. /\ cookie' \in [Visit -> Key \cup {None}] /\ cookie'[v] = ck
      /\ \A w \in Visit : w # v => cookie'[w] = cookie[w]
  BY DEF SessionTyped
<1>4. /\ came' \in [Visit -> Key \cup {None}] /\ came'[v] = cm
      /\ \A w \in Visit : w # v => came'[w] = came[w]
  BY DEF SessionTyped
<1>5. issued \subseteq issued' /\ issued' \subseteq Key
  BY DEF SessionTyped
<1>6. IsFiniteSet(issued') /\ Cardinality(issued') <= Cardinality(Overs(visiting'))
  <2>1. IsFiniteSet(issued) /\ Cardinality(issued) \in Nat
        /\ Cardinality(issued) <= Cardinality(Overs(visiting))
    BY FS_CardinalityType DEF SessionTyped
  <2>2. /\ Cardinality(Overs(visiting)) \in Nat /\ Cardinality(Overs(visiting')) \in Nat
        /\ Cardinality(Overs(visiting')) >= Cardinality(Overs(visiting))
        /\ p = "over" => Cardinality(Overs(visiting')) = Cardinality(Overs(visiting)) + 1
    BY OversGrow DEF SessionTyped
  <2>3. CASE N = {}
    BY <2>1, <2>2, <2>3
  <2>4. CASE N # {}
    <3> PICK id : N = {id} /\ p = "over"
      BY <2>4
    <3>1. IsFiniteSet(issued')
      BY <2>1, FS_AddElement
    <3>2. Cardinality(issued') = Cardinality(issued) \/ Cardinality(issued') = Cardinality(issued) + 1
      BY <2>1, FS_AddElement
    <3> QED BY <2>1, <2>2, <3>1, <3>2
  <2> QED BY <2>3, <2>4
<1>7. ASSUME NEW w \in Visit
      PROVE  ShapeOf(visiting'[w], session'[w], cookie'[w], came'[w], issued')
  <2>1. CASE w = v
    BY <1>1, <1>2, <1>3, <1>4, <2>1
  <2>2. CASE w # v
    <3>1. ShapeOf(visiting[w], session[w], cookie[w], came[w], issued)
      BY DEF SessionTyped
    <3>2. ShapeOf(visiting[w], session[w], cookie[w], came[w], issued')
      BY <1>5, <3>1 DEF ShapeOf
    <3> QED BY <1>1, <1>2, <1>3, <1>4, <2>2, <3>2
  <2> QED BY <2>1, <2>2
<1>8. SessionTyped'
  BY <1>1, <1>2, <1>3, <1>4, <1>5, <1>6, <1>7 DEF SessionTyped, ShapeOf, Overs
<1> QED BY <1>1, <1>2, <1>8

(* It leaves the IDs removed that it does not have to do with.             *)
LEMMA SoundNext ==
  ASSUME StoreInv, StoreInv', SessionTyped, SessionSound, NEW F, NEW D, Effect(F, D),
         NEW v \in Visit, visiting[v] # "over", undone \subseteq undone',
         \A w \in Visit : w # v => visiting'[w] = visiting[w] /\ session'[w] = session[w],
         \A f \in F : f.key \notin issued \/ f.key = session[v].id,
         \/ visiting'[v] = "over" \/ session'[v].id \in {session[v].id, None}
         \/ LiveIn(entries, now, session'[v].id),
         \A id \in gone' \ gone : RemovedIn(id, {}, undone', entries', now', session', visiting'),
         visiting'[v] = "destroy old" /\ session'[v].id # None =>
           RemovedIn(session'[v].id, {v}, undone', entries', now', session', visiting'),
         visiting'[v] = "save" /\ session'[v].old # None =>
           RemovedIn(session'[v].old, {v}, undone', entries', now', session', visiting')
  PROVE  SessionSound'
<1>1. ASSUME NEW id \in issued, NEW W \in SUBSET Visit, v \notin W, Removed(id, W)
      PROVE  RemovedIn(id, W, undone', entries', now', session', visiting')
  <2> SUFFICES ASSUME id \notin undone'
               PROVE  ~LiveIn(entries', now', id) /\ HoldersIn(id, session', visiting') \subseteq W
    BY DEF RemovedIn
  <2>1. ~LiveIn(entries, now, id) /\ HoldersIn(id, session, visiting) \subseteq W
    BY <1>1 DEF Removed, RemovedIn
  <2>2. session[v].id # id
    BY <1>1, <2>1 DEF HoldersIn
  <2>3. ~LiveIn(entries', now', id)
    <3>1. \A f \in F : f.key # id
      BY <2>2
    <3> QED BY <2>1, <3>1, LiveLater DEF StoreInv
  <2>4. id # None
    BY StoreAssumption DEF SessionTyped
  <2>5. HoldersIn(id, session', visiting') \subseteq HoldersIn(id, session, visiting)
    <3> SUFFICES ASSUME NEW w \in Visit, session'[w].id = id, visiting'[w] # "over"
                 PROVE  session[w].id = id /\ visiting[w] # "over"
      BY DEF HoldersIn
    <3>1. w # v
      BY <2>1, <2>2, <2>4
    <3> QED BY <3>1
  <2> QED BY <2>1, <2>3, <2>5
<1>2. ASSUME NEW id \in gone'
      PROVE  RemovedIn(id, {}, undone', entries', now', session', visiting')
  <2>1. CASE id \in gone
    <3>1. id \in issued /\ Removed(id, {})
      BY <2>1 DEF SessionTyped, SessionSound
    <3> QED BY <1>1, <3>1
  <2> QED BY <2>1
<1>3. ASSUME NEW w \in Visit
      PROVE  /\ visiting'[w] = "destroy old" /\ session'[w].id # None =>
                  RemovedIn(session'[w].id, {w}, undone', entries', now', session', visiting')
             /\ visiting'[w] = "save" /\ session'[w].old # None =>
                  RemovedIn(session'[w].old, {w}, undone', entries', now', session', visiting')
  <2>1. CASE w # v
    <3>1. visiting'[w] = visiting[w] /\ session'[w] = session[w]
      BY <2>1
    <3>2. session[w].id \in issued \cup {None} /\ session[w].old \in issued \cup {None}
      BY DEF SessionTyped, ShapeOf
    <3>3. {w} \in SUBSET Visit /\ v \notin {w}
      BY <2>1
    <3> QED BY <1>1, <3>1, <3>2, <3>3 DEF SessionSound
  <2> QED BY <2>1
<1> QED BY <1>2, <1>3 DEF SessionSound, Removed

(* That is all there is to show of a step that removes nothing.            *)
LEMMA SoundQuiet ==
  ASSUME StoreInv, StoreInv', SessionTyped, SessionSound, NEW D, Effect({}, D),
         NEW v \in Visit, visiting[v] # "over", undone \subseteq undone',
         \A w \in Visit : w # v => visiting'[w] = visiting[w] /\ session'[w] = session[w],
         \/ visiting'[v] = "over" \/ session'[v].id \in {session[v].id, None}
         \/ LiveIn(entries, now, session'[v].id),
         gone' = gone, visiting'[v] \notin {"destroy old", "save"}
  PROVE  SessionSound'
<1>1. PICK F : F = {}
  OBVIOUS
<1>2. /\ \A f \in F : f.key \notin issued \/ f.key = session[v].id
      /\ Effect(F, D)
  BY <1>1
<1>3. /\ \A id \in gone' \ gone : RemovedIn(id, {}, undone', entries', now', session', visiting')
  OBVIOUS
<1>4. /\ visiting'[v] = "destroy old" /\ session'[v].id # None =>
           RemovedIn(session'[v].id, {v}, undone', entries', now', session', visiting')
      /\ visiting'[v] = "save" /\ session'[v].old # None =>
           RemovedIn(session'[v].old, {v}, undone', entries', now', session', visiting')
  OBVIOUS
<1>5. \/ visiting'[v] = "over" \/ session'[v].id \in {session[v].id, None}
      \/ LiveIn(entries, now, session'[v].id)
  OBVIOUS
<1> QED BY <1>2, <1>4, <1>5, <1>3, SoundNext

LEMMA RemovesEffect ==
  ASSUME StoreInv, SessionTyped, NEW id \in Key \cup {None}, NEW v \in Visit, NEW o,
         Removes(id, v, o)
  PROVE  /\ StoreInv' /\ Effect({}, {id}) /\ undone \subseteq undone'
         /\ id # None /\ id \notin undone' =>
              ~LiveIn(entries', now', id) /\ HoldersIn(id, session, visiting) \subseteq {v}
<1>1. CASE id = None
  <2>1. UNCHANGED <<now, entries, faults, lapses, undone>>
    BY <1>1 DEF Removes, storeVars
  <2>2. faults' \in Nat
    BY <2>1 DEF StoreInv
  <2>3. StoreInv' /\ Effect({}, {})
    BY <2>1, <2>2, StoreStays
  <2>4. Effect({}, {id})
    BY <2>3 DEF Effect
  <2> QED BY <1>1, <2>1, <2>3, <2>4
<1>2. CASE id # None
  <2>1. /\ DeleteStep(id, o)
        /\ undone' = IF ~Ran(o) \/ Holders(id, v) # {} THEN undone \cup {id} ELSE undone
    BY <1>2 DEF Removes
  <2>2. StoreInv' /\ Effect({}, {id}) /\ (Ran(o) => ~LiveIn(entries', now', id))
    BY <2>1, DeleteEffect
  <2>3. HoldersIn(id, session, visiting) \subseteq Holders(id, v) \cup {v}
    <3> SUFFICES ASSUME NEW w \in Visit, session[w].id = id, visiting[w] # "over", w # v
                 PROVE  w \in Holders(id, v)
      BY DEF HoldersIn
    <3>1. ShapeOf(visiting[w], session[w], cookie[w], came[w], issued)
      BY DEF SessionTyped
    <3>2. visiting[w] # "none"
      BY <1>2, <3>1 DEF ShapeOf
    <3> QED BY <3>2 DEF Holders
  <2>4. id \notin undone' => Ran(o) /\ Holders(id, v) = {}
    BY <2>1
  <2> QED BY <1>2, <2>1, <2>2, <2>3, <2>4
<1> QED BY <1>1, <1>2

(* Steps that leave the store as it is: a request enters, its handler      *)
(* returns.                                                                *)
LEMMA EntersStep ==
  ASSUME StoreInv, SessionInv, NEW v \in Visit, Enters(v)
  PROVE  StoreInv' /\ SessionInv'
<1>1. SessionTyped /\ SessionSound
  BY DEF SessionInv
<1>2. PICK ck \in issued \cup {None} :
        /\ cookie' = [cookie EXCEPT ![v] = ck]
        /\ visiting' = [visiting EXCEPT ![v] = IF ck = None THEN "handler" ELSE "load"]
  BY DEF Enters, To
<1>3. /\ visiting[v] = "none"
      /\ UNCHANGED <<now, entries, faults, lapses, session, issued, came, gone, undone>>
  BY DEF Enters, storeVars
<1>4. StoreInv' /\ Effect({}, {})
  <2>1. faults' \in Nat
    BY <1>3 DEF StoreInv
  <2> QED BY <1>3, <2>1, StoreStays
<1>5. PICK p \in VisitPlace : /\ p = IF ck = None THEN "handler" ELSE "load"
                              /\ visiting' = [visiting EXCEPT ![v] = p]
  BY <1>2 DEF VisitPlace
<1>6. /\ session' = [session EXCEPT ![v] = session[v]] /\ session[v] \in SessionRec
      /\ came' = [came EXCEPT ![v] = came[v]] /\ came[v] \in Key \cup {None}
      /\ ck \in Key \cup {None} /\ gone' \subseteq issued'
      /\ ShapeOf(visiting[v], session[v], cookie[v], came[v], issued)
  BY <1>1, <1>2, <1>3 DEF SessionTyped
<1>7. ShapeOf(p, session[v], ck, came[v], issued')
  BY <1>2, <1>3, <1>5, <1>6 DEF ShapeOf
<1>8. /\ SessionTyped' /\ visiting'[v] = p
      /\ \A w \in Visit : w # v => visiting'[w] = visiting[w] /\ session'[w] = session[w]
  <2>1. {} \in SUBSET Key /\ issued' = issued \cup {}
    BY <1>3
  <2> QED BY <1>1, <1>2, <1>3, <1>5, <1>6, <1>7, <2>1, VisitStep
<1>9. SessionSound'
  <2>1. p \notin {"destroy old", "save"}
    BY <1>5
  <2> QED BY <1>1, <1>3, <1>4, <1>6, <1>8, <2>1, SoundQuiet
<1> QED BY <1>4, <1>8, <1>9 DEF SessionInv

LEMMA LoadStep ==
  ASSUME StoreInv, SessionInv, NEW v \in Visit, NEW o, Load(v, o)
  PROVE  StoreInv' /\ SessionInv'
<1> DEFINE k == cookie[v]
<1>1. SessionTyped /\ SessionSound
  BY DEF SessionInv
<1>2. /\ visiting[v] = "load" /\ GetStep(k, o)
      /\ visiting' = [visiting EXCEPT ![v] = "handler"]
      /\ UNCHANGED <<cookie, issued, gone, undone>>
  BY DEF Load, To
<1>3. StoreInv' /\ Effect({}, {})
  BY <1>2, GetEffect
<1>4. /\ session[v] \in SessionRec /\ k \in Key /\ k \in issued
      /\ session[v].id = None /\ session[v].old = None /\ came[v] = None
      /\ ShapeOf(visiting[v], session[v], k, came[v], issued)
  <2>1. ShapeOf(visiting[v], session[v], k, came[v], issued) /\ session[v] \in SessionRec
    BY <1>1 DEF SessionTyped
  <2> QED BY <1>1, <1>2, <2>1 DEF ShapeOf, SessionTyped
<1>5. PICK s \in SessionRec, cm \in Key \cup {None} :
        /\ session' = [session EXCEPT ![v] = s] /\ came' = [came EXCEPT ![v] = cm]
        /\ s.old = None /\ s.id = cm /\ (cm = None \/ (cm = k /\ Live(k)))
  <2>1. CASE o = "ok" /\ Live(k)
    <3> DEFINE s == [session[v] EXCEPT !.id = k, !.expires = Value(k)]
    <3>1. /\ session' = [session EXCEPT ![v].id = k, ![v].expires = Value(k)]
          /\ came' = [came EXCEPT ![v] = k]
      BY <2>1 DEF Load
    <3>2. session' = [session EXCEPT ![v] = s]
      BY <1>1, <1>4, <3>1 DEF SessionTyped
    <3>3. Value(k) \in Payload
      <4>1. PICK e \in Items(entries) : e.value = Value(k)
        BY <2>1, ValueIs
      <4>2. \A i \in DOMAIN entries : entries[i] \in Item
        BY DEF StoreInv
      <4>3. e \in Item
        BY <4>1, <4>2 DEF Items
      <4> QED BY <4>1, <4>3 DEF Item
    <3>4. s \in SessionRec /\ s.id = k /\ s.old = None
      BY <1>4, <3>3 DEF SessionRec
    <3> HIDE DEF s
    <3> QED BY <1>4, <2>1, <3>1, <3>2, <3>4
  <2>2. CASE ~(o = "ok" /\ Live(k))
    <3>1. session' = session /\ came' = came
      BY <2>2 DEF Load
    <3>2. session' = [session EXCEPT ![v] = session[v]] /\ came' = [came EXCEPT ![v] = came[v]]
      BY <1>1, <3>1 DEF SessionTyped
    <3>3. came[v] \in Key \cup {None} /\ session[v].id = came[v]
      BY <1>4
    <3> QED BY <1>4, <3>2, <3>3
  <2> QED BY <2>1, <2>2
<1>6. /\ cookie' = [cookie EXCEPT ![v] = k] /\ k \in Key \cup {None} /\ gone' \subseteq issued'
      /\ "handler" \in VisitPlace
      /\ {} \in SUBSET Key /\ issued' = issued \cup {}
  BY <1>1, <1>2 DEF SessionTyped, VisitPlace
<1>7. ShapeOf("handler", s, k, cm, issued')
  BY <1>2, <1>4, <1>5 DEF ShapeOf
<1> HIDE DEF k
<1>8. /\ SessionTyped' /\ visiting'[v] = "handler" /\ session'[v] = s
      /\ \A w \in Visit : w # v => visiting'[w] = visiting[w] /\ session'[w] = session[w]
  BY <1>1, <1>2, <1>5, <1>6, <1>7, VisitStep
<1>9. s.id = None \/ LiveIn(entries, now, s.id)
  BY <1>4, <1>5, LiveIs
<1>10. SessionSound'
  <2>1. visiting[v] # "over" /\ undone \subseteq undone' /\ gone' = gone
    BY <1>2
  <2>2. session'[v].id \in {session[v].id, None} \/ LiveIn(entries, now, session'[v].id)
    BY <1>8, <1>9
  <2>3. visiting'[v] \notin {"destroy old", "save"}
    BY <1>8
  <2> QED BY <1>1, <1>3, <1>8, <2>1, <2>2, <2>3, SoundQuiet
<1> QED BY <1>3, <1>8, <1>10 DEF SessionInv

LEMMA HandledIs ==
  ASSUME NEW s \in SessionRec, NEW cm, (s.id = cm /\ s.old = None) \/ (s.id = None /\ s.old = cm),
         NEW t \in Handled(s)
  PROVE  /\ t \in SessionRec /\ t.id \in {s.id, None}
         /\ (t.id = cm /\ t.old = None) \/ (t.id = None /\ t.old = cm)
BY DEF Handled, Modified, Regenerated, Destroyed, SessionRec

LEMMA LeaveStep ==
  ASSUME StoreInv, SessionInv, NEW v \in Visit, Leave(v)
  PROVE  StoreInv' /\ SessionInv'
<1>1. SessionTyped /\ SessionSound
  BY DEF SessionInv
<1>2. PICK s \in Handled(session[v]), p \in {"destroy", "drop", "over"} :
        /\ session' = [session EXCEPT ![v] = s]
        /\ visiting' = [visiting EXCEPT ![v] = p]
  BY DEF Leave, To
<1>3. /\ visiting[v] = "handler"
      /\ UNCHANGED <<now, entries, faults, lapses, cookie, issued, came, gone, undone>>
  BY DEF Leave, storeVars
<1>4. StoreInv' /\ Effect({}, {})
  <2>1. faults' \in Nat
    BY <1>3 DEF StoreInv
  <2> QED BY <1>3, <2>1, StoreStays
<1>5. /\ session[v] \in SessionRec /\ ShapeOf(visiting[v], session[v], cookie[v], came[v], issued)
      /\ cookie[v] \in Key \cup {None} /\ came[v] \in Key \cup {None}
      /\ cookie' = [cookie EXCEPT ![v] = cookie[v]] /\ came' = [came EXCEPT ![v] = came[v]]
      /\ gone' \subseteq issued' /\ {} \in SUBSET Key /\ issued' = issued \cup {}
  BY <1>1, <1>3 DEF SessionTyped
<1>6. \/ session[v].id = came[v] /\ session[v].old = None
      \/ session[v].id = None /\ session[v].old = came[v]
  BY <1>3, <1>5 DEF ShapeOf
<1>7. /\ s \in SessionRec /\ s.id \in {session[v].id, None}
      /\ (s.id = came[v] /\ s.old = None) \/ (s.id = None /\ s.old = came[v])
  BY <1>2, <1>5, <1>6, HandledIs
<1>8. ShapeOf(p, s, cookie[v], came[v], issued') /\ p \in VisitPlace
  BY <1>2, <1>3, <1>5, <1>7 DEF ShapeOf, VisitPlace
<1>9. /\ SessionTyped' /\ visiting'[v] = p /\ session'[v] = s
      /\ \A w \in Visit : w # v => visiting'[w] = visiting[w] /\ session'[w] = session[w]
  BY <1>1, <1>2, <1>3, <1>5, <1>7, <1>8, VisitStep
<1>10. SessionSound'
  <2>1. visiting[v] # "over" /\ undone \subseteq undone' /\ gone' = gone
    BY <1>3
  <2>2. session'[v].id \in {session[v].id, None}
    BY <1>7, <1>9
  <2>3. visiting'[v] \notin {"destroy old", "save"}
    BY <1>2, <1>9
  <2> QED BY <1>1, <1>4, <1>9, <2>1, <2>2, <2>3, SoundQuiet
<1> QED BY <1>4, <1>9, <1>10 DEF SessionInv

(* The steps of commit.  A request's own removals reach the IDs that it    *)
(* then says are gone.                                                     *)
LEMMA OnlyPlaceMoves ==
  ASSUME SessionTyped, NEW v \in Visit, NEW p \in VisitPlace,
         visiting' = [visiting EXCEPT ![v] = p], UNCHANGED session, NEW id
  PROVE  HoldersIn(id, session', visiting') \subseteq HoldersIn(id, session, visiting) \cup {v}
BY DEF HoldersIn, SessionTyped

LEMMA DestroyingStep ==
  ASSUME StoreInv, SessionInv, NEW v \in Visit, NEW o, Destroying(v, o)
  PROVE  StoreInv' /\ SessionInv'
<1> DEFINE id == session[v].id
<1>1. SessionTyped /\ SessionSound
  BY DEF SessionInv
<1>2. /\ visiting[v] = "destroy" /\ Removes(id, v, o)
      /\ visiting' = [visiting EXCEPT ![v] = "destroy old"]
      /\ UNCHANGED <<session, cookie, issued, came, gone>>
  BY DEF Destroying, To
<1>3. /\ session[v] \in SessionRec /\ cookie[v] \in Key \cup {None} /\ came[v] \in Key \cup {None}
      /\ ShapeOf(visiting[v], session[v], cookie[v], came[v], issued)
      /\ session' = [session EXCEPT ![v] = session[v]] /\ came' = [came EXCEPT ![v] = came[v]]
      /\ cookie' = [cookie EXCEPT ![v] = cookie[v]] /\ gone' \subseteq issued'
      /\ {} \in SUBSET Key /\ issued' = issued \cup {} /\ "destroy old" \in VisitPlace
  BY <1>1, <1>2 DEF SessionTyped, VisitPlace
<1>4. id \in Key \cup {None}
  BY <1>3 DEF SessionRec
<1>5. /\ StoreInv' /\ Effect({}, {id}) /\ undone \subseteq undone'
      /\ id # None /\ id \notin undone' =>
           ~LiveIn(entries', now', id) /\ HoldersIn(id, session, visiting) \subseteq {v}
  BY <1>1, <1>2, <1>4, RemovesEffect
<1>6. ShapeOf("destroy old", session[v], cookie[v], came[v], issued')
  BY <1>2, <1>3 DEF ShapeOf
<1>7. /\ SessionTyped' /\ visiting'[v] = "destroy old" /\ session'[v] = session[v]
      /\ \A w \in Visit : w # v => visiting'[w] = visiting[w] /\ session'[w] = session[w]
  BY <1>1, <1>2, <1>3, <1>6, VisitStep
<1> HIDE DEF id
<1>8. id # None => RemovedIn(id, {v}, undone', entries', now', session', visiting')
  <2>1. HoldersIn(id, session', visiting') \subseteq HoldersIn(id, session, visiting) \cup {v}
    BY <1>1, <1>2, <1>3, OnlyPlaceMoves
  <2> QED BY <1>5, <2>1 DEF RemovedIn
<1>9. SessionSound'
  <2>1. PICK F : F = {}
    OBVIOUS
  <2>2. (\A f \in F : f.key \notin issued \/ f.key = session[v].id) /\ Effect(F, {id})
    BY <1>5, <2>1
  <2>3. \A i \in gone' \ gone : RemovedIn(i, {}, undone', entries', now', session', visiting')
    BY <1>2
  <2>4. /\ visiting'[v] = "destroy old" /\ session'[v].id # None =>
             RemovedIn(session'[v].id, {v}, undone', entries', now', session', visiting')
        /\ visiting'[v] = "save" /\ session'[v].old # None =>
             RemovedIn(session'[v].old, {v}, undone', entries', now', session', visiting')
        /\ session'[v].id \in {session[v].id, None} /\ visiting[v] # "over"
    BY <1>2, <1>7, <1>8 DEF id
  <2> QED BY <1>1, <1>5, <1>7, <2>2, <2>3, <2>4, SoundNext
<1> QED BY <1>5, <1>7, <1>9 DEF SessionInv

LEMMA DropOldStep ==
  ASSUME StoreInv, SessionInv, NEW v \in Visit, NEW o, DropOld(v, o)
  PROVE  StoreInv' /\ SessionInv'
<1> DEFINE id == session[v].old
<1>1. SessionTyped /\ SessionSound
  BY DEF SessionInv
<1>2. /\ visiting[v] = "drop" /\ Removes(id, v, o)
      /\ visiting' = [visiting EXCEPT ![v] = "save"]
      /\ UNCHANGED <<session, cookie, issued, came, gone>>
  BY DEF DropOld, To
<1>3. /\ session[v] \in SessionRec /\ cookie[v] \in Key \cup {None} /\ came[v] \in Key \cup {None}
      /\ ShapeOf(visiting[v], session[v], cookie[v], came[v], issued)
      /\ session' = [session EXCEPT ![v] = session[v]] /\ came' = [came EXCEPT ![v] = came[v]]
      /\ cookie' = [cookie EXCEPT ![v] = cookie[v]] /\ gone' \subseteq issued'
      /\ {} \in SUBSET Key /\ issued' = issued \cup {} /\ "save" \in VisitPlace
  BY <1>1, <1>2 DEF SessionTyped, VisitPlace
<1>4. id \in Key \cup {None}
  BY <1>3 DEF SessionRec
<1>5. /\ StoreInv' /\ Effect({}, {id}) /\ undone \subseteq undone'
      /\ id # None /\ id \notin undone' =>
           ~LiveIn(entries', now', id) /\ HoldersIn(id, session, visiting) \subseteq {v}
  BY <1>1, <1>2, <1>4, RemovesEffect
<1>6. ShapeOf("save", session[v], cookie[v], came[v], issued')
  BY <1>2, <1>3 DEF ShapeOf
<1>7. /\ SessionTyped' /\ visiting'[v] = "save" /\ session'[v] = session[v]
      /\ \A w \in Visit : w # v => visiting'[w] = visiting[w] /\ session'[w] = session[w]
  BY <1>1, <1>2, <1>3, <1>6, VisitStep
<1> HIDE DEF id
<1>8. id # None => RemovedIn(id, {v}, undone', entries', now', session', visiting')
  <2>1. HoldersIn(id, session', visiting') \subseteq HoldersIn(id, session, visiting) \cup {v}
    BY <1>1, <1>2, <1>3, OnlyPlaceMoves
  <2> QED BY <1>5, <2>1 DEF RemovedIn
<1>9. SessionSound'
  <2>1. PICK F : F = {}
    OBVIOUS
  <2>2. (\A f \in F : f.key \notin issued \/ f.key = session[v].id) /\ Effect(F, {id})
    BY <1>5, <2>1
  <2>3. \A i \in gone' \ gone : RemovedIn(i, {}, undone', entries', now', session', visiting')
    BY <1>2
  <2>4. /\ visiting'[v] = "destroy old" /\ session'[v].id # None =>
             RemovedIn(session'[v].id, {v}, undone', entries', now', session', visiting')
        /\ visiting'[v] = "save" /\ session'[v].old # None =>
             RemovedIn(session'[v].old, {v}, undone', entries', now', session', visiting')
        /\ session'[v].id \in {session[v].id, None} /\ visiting[v] # "over"
    BY <1>2, <1>7, <1>8 DEF id
  <2> QED BY <1>1, <1>5, <1>7, <2>2, <2>3, <2>4, SoundNext
<1> QED BY <1>5, <1>7, <1>9 DEF SessionInv

LEMMA DestroyingOldStep ==
  ASSUME StoreInv, SessionInv, NEW v \in Visit, NEW o, DestroyingOld(v, o)
  PROVE  StoreInv' /\ SessionInv'
<1> DEFINE id == session[v].old
<1>1. SessionTyped /\ SessionSound
  BY DEF SessionInv
<1>2. /\ visiting[v] = "destroy old" /\ Removes(id, v, o)
      /\ cookie' = [cookie EXCEPT ![v] = None]
      /\ gone' = gone \cup ({came[v]} \ {None})
      /\ visiting' = [visiting EXCEPT ![v] = "over"]
      /\ UNCHANGED <<session, issued, came>>
  BY DEF DestroyingOld, To
<1>3. /\ session[v] \in SessionRec /\ came[v] \in Key \cup {None}
      /\ ShapeOf(visiting[v], session[v], cookie[v], came[v], issued)
      /\ session' = [session EXCEPT ![v] = session[v]] /\ came' = [came EXCEPT ![v] = came[v]]
      /\ {} \in SUBSET Key /\ issued' = issued \cup {} /\ "over" \in VisitPlace
      /\ None \in Key \cup {None}
  BY <1>1, <1>2 DEF SessionTyped, VisitPlace
<1>4. gone' \subseteq issued'
  BY <1>1, <1>2, <1>3 DEF SessionTyped, ShapeOf
<1>5. id \in Key \cup {None}
  BY <1>3 DEF SessionRec
<1>6. /\ StoreInv' /\ Effect({}, {id}) /\ undone \subseteq undone'
      /\ id # None /\ id \notin undone' =>
           ~LiveIn(entries', now', id) /\ HoldersIn(id, session, visiting) \subseteq {v}
  BY <1>1, <1>2, <1>5, RemovesEffect
<1>7. ShapeOf("over", session[v], None, came[v], issued')
  BY <1>2, <1>3 DEF ShapeOf
<1>8. /\ SessionTyped' /\ visiting'[v] = "over" /\ session'[v] = session[v]
      /\ \A w \in Visit : w # v => visiting'[w] = visiting[w] /\ session'[w] = session[w]
  BY <1>1, <1>2, <1>3, <1>4, <1>7, VisitStep
<1> HIDE DEF id
<1>9. ASSUME NEW c \in gone' \ gone
      PROVE  RemovedIn(c, {}, undone', entries', now', session', visiting')
  <2>1. c = came[v] /\ c # None
    BY <1>2
  <2>2. HoldersIn(c, session', visiting') \subseteq HoldersIn(c, session, visiting)
        /\ v \notin HoldersIn(c, session', visiting')
    BY <1>8, <1>2 DEF HoldersIn
  <2>3. c \notin undone' => ~LiveIn(entries', now', c) /\ HoldersIn(c, session, visiting) \subseteq {v}
    <3>1. CASE session[v].old = c
      BY <1>6, <2>1, <3>1 DEF id
    <3>2. CASE session[v].id = c /\ session[v].old = None
      <4>1. Removed(c, {v})
        BY <1>1, <1>2, <2>1, <3>2 DEF SessionSound
      <4>2. UNCHANGED <<now, entries, undone>>
        BY <1>2, <3>2 DEF Removes, storeVars, id
      <4> QED BY <4>1, <4>2 DEF Removed, RemovedIn
    <3> QED BY <1>2, <1>3, <2>1, <3>1, <3>2 DEF ShapeOf
  <2> QED BY <2>2, <2>3 DEF RemovedIn
<1>10. SessionSound'
  <2>1. PICK F : F = {}
    OBVIOUS
  <2>2. (\A f \in F : f.key \notin issued \/ f.key = session[v].id) /\ Effect(F, {id})
    BY <1>6, <2>1
  <2>3. \A i \in gone' \ gone : RemovedIn(i, {}, undone', entries', now', session', visiting')
    BY <1>9
  <2>4. /\ visiting'[v] = "destroy old" /\ session'[v].id # None =>
             RemovedIn(session'[v].id, {v}, undone', entries', now', session', visiting')
        /\ visiting'[v] = "save" /\ session'[v].old # None =>
             RemovedIn(session'[v].old, {v}, undone', entries', now', session', visiting')
        /\ visiting'[v] = "over" /\ visiting[v] # "over"
    BY <1>2, <1>8
  <2> QED BY <1>1, <1>6, <1>8, <2>2, <2>3, <2>4, SoundNext
<1> QED BY <1>6, <1>8, <1>10 DEF SessionInv

(* There is an ID left for a request that is not over yet.                 *)
LEMMA NewIDIsNew ==
  ASSUME SessionTyped, NEW v \in Visit, visiting[v] # "over"
  PROVE  newID \in Key \ issued
<1>1. /\ IsFiniteSet(Visit) /\ IsFiniteSet(issued) /\ issued \subseteq Key
      /\ Cardinality(issued) <= Cardinality(Overs(visiting))
      /\ IsFiniteSet(Key) => Cardinality(Visit) <= Cardinality(Key)
  BY SessionAssumption DEF SessionTyped
<1>2. Cardinality(Overs(visiting)) < Cardinality(Visit) /\ Cardinality(Overs(visiting)) \in Nat
      /\ Cardinality(Visit) \in Nat
  <2>1. Overs(visiting) \subseteq Visit /\ Overs(visiting) # Visit
    BY DEF Overs
  <2> QED BY <1>1, <2>1, FS_Subset, FS_CardinalityType
<1>3. Key # issued
  <2>1. ASSUME Key = issued PROVE FALSE
    <3>1. Cardinality(issued) \in Nat /\ Cardinality(Key) = Cardinality(issued) /\ IsFiniteSet(Key)
      BY <1>1, <2>1, FS_CardinalityType
    <3> QED BY <1>1, <1>2, <3>1
  <2> QED BY <2>1
<1>4. \E id \in Key \ issued : TRUE
  BY <1>1, <1>3
<1> QED BY <1>4 DEF newID

LEMMA SaveStep ==
  ASSUME StoreInv, SessionInv, NEW v \in Visit, NEW o, Save(v, o)
  PROVE  StoreInv' /\ SessionInv'
<1>1. SessionTyped /\ SessionSound
  BY DEF SessionInv
<1>2. PICK id : /\ id = IF session[v].id = None THEN newID ELSE session[v].id
                /\ SetStep(id, now + SessionTTL, SessionTTL, o)
                /\ session' = [session EXCEPT ![v].id = id, ![v].expires = now + SessionTTL]
                /\ issued' = issued \cup {id}
                /\ cookie' = [cookie EXCEPT ![v] = IF o = "ok" THEN id ELSE @]
                /\ gone' = IF came[v] \in {None, id} THEN gone ELSE gone \cup {came[v]}
  BY DEF Save
<1>3. /\ visiting[v] = "save" /\ visiting' = [visiting EXCEPT ![v] = "over"]
      /\ UNCHANGED <<came, undone>>
  BY DEF Save, To
<1>4. /\ session[v] \in SessionRec /\ came[v] \in Key \cup {None} /\ cookie[v] \in Key \cup {None}
      /\ ShapeOf(visiting[v], session[v], cookie[v], came[v], issued)
      /\ came' = [came EXCEPT ![v] = came[v]] /\ "over" \in VisitPlace
  BY <1>1, <1>3 DEF SessionTyped, VisitPlace
<1>5. /\ id \in Key /\ id # None
      /\ session[v].id = None => id \notin issued
      /\ session[v].id # None => id = session[v].id /\ id \in issued
  <2>1. newID \in Key \ issued
    BY <1>1, <1>3, NewIDIsNew
  <2>2. session[v].id \in issued \cup {None} /\ issued \subseteq Key
    BY <1>1, <1>4 DEF ShapeOf, SessionTyped
  <2> QED BY <1>2, <2>1, <2>2, StoreAssumption
<1>6. now + SessionTTL \in Payload /\ SessionTTL \in Nat /\ now \in Nat
  BY SessionAssumption DEF Payload, StoreInv
<1>7. PICK f : /\ StoreInv' /\ Effect({f}, {}) /\ f.key = id
  <2>1. StoreInv' /\ Effect({Fresh(id, now + SessionTTL, SessionTTL)}, {})
    BY <1>2, <1>5, <1>6, SetEffect
  <2>2. Fresh(id, now + SessionTTL, SessionTTL).key = id
    BY <1>5, <1>6, FreshIs DEF StoreInv
  <2> QED BY <2>1, <2>2
<1>8. PICK s \in SessionRec : session' = [session EXCEPT ![v] = s] /\ s.id = id /\ s.old = session[v].old
  <2> DEFINE s == [session[v] EXCEPT !.id = id, !.expires = now + SessionTTL]
  <2>1. session' = [session EXCEPT ![v] = s]
    BY <1>1, <1>2, <1>4 DEF SessionTyped
  <2>2. s \in SessionRec /\ s.id = id /\ s.old = session[v].old
    BY <1>4, <1>5, <1>6 DEF SessionRec
  <2> HIDE DEF s
  <2> QED BY <2>1, <2>2
<1>9. PICK ck \in {cookie[v], id} : cookie' = [cookie EXCEPT ![v] = ck]
  BY <1>1, <1>2, <1>4 DEF SessionTyped
<1>10. PICK N \in SUBSET Key : issued' = issued \cup N /\ (N = {} \/ \E i : N = {i})
  <2>1. {id} \in SUBSET Key /\ \E i : {id} = {i}
    BY <1>5
  <2> QED BY <1>2, <2>1
<1>11. ShapeOf("over", s, ck, came[v], issued')
  BY <1>2, <1>3, <1>4, <1>8, <1>9 DEF ShapeOf
<1>12. gone' \subseteq issued' /\ ck \in Key \cup {None}
  BY <1>1, <1>2, <1>4, <1>5, <1>9 DEF SessionTyped, ShapeOf
<1>13. /\ SessionTyped' /\ visiting'[v] = "over" /\ session'[v] = s
       /\ \A w \in Visit : w # v => visiting'[w] = visiting[w] /\ session'[w] = session[w]
  BY <1>1, <1>3, <1>4, <1>8, <1>9, <1>10, <1>11, <1>12, VisitStep
<1>14. ASSUME NEW c \in gone' \ gone
       PROVE  RemovedIn(c, {}, undone', entries', now', session', visiting')
  <2>1. c = came[v] /\ c # None /\ c # id
    BY <1>2
  <2>2. session[v].id = None /\ session[v].old = c
    BY <1>3, <1>4, <1>5, <2>1 DEF ShapeOf
  <2>3. Removed(c, {v})
    BY <1>1, <1>3, <2>1, <2>2 DEF SessionSound
  <2>4. HoldersIn(c, session', visiting') \subseteq HoldersIn(c, session, visiting)
        /\ v \notin HoldersIn(c, session', visiting')
    BY <1>3, <1>13 DEF HoldersIn
  <2>5. LiveIn(entries', now', c) => LiveIn(entries, now, c)
    <3>1. now' \in Nat
      BY <1>7 DEF StoreInv
    <3> QED BY <1>7, <2>1, <3>1, LiveLater
  <2> QED BY <1>3, <2>3, <2>4, <2>5 DEF Removed, RemovedIn
<1>15. SessionSound'
  <2>1. PICK F : Effect(F, {}) /\ \A g \in F : g.key \notin issued \/ g.key = session[v].id
    BY <1>5, <1>7
  <2>2. \A i \in gone' \ gone : RemovedIn(i, {}, undone', entries', now', session', visiting')
    BY <1>14
  <2>3. /\ visiting'[v] = "destroy old" /\ session'[v].id # None =>
             RemovedIn(session'[v].id, {v}, undone', entries', now', session', visiting')
        /\ visiting'[v] = "save" /\ session'[v].old # None =>
             RemovedIn(session'[v].old, {v}, undone', entries', now', session', visiting')
        /\ visiting'[v] = "over" /\ visiting[v] # "over" /\ undone \subseteq undone'
    BY <1>3, <1>13
  <2> QED BY <1>1, <1>7, <1>13, <2>1, <2>2, <2>3, SoundNext
<1> QED BY <1>7, <1>13, <1>15 DEF SessionInv

LEMMA SessionStep ==
  ASSUME StoreInv, SessionInv, SessionNext
  PROVE  StoreInv' /\ SessionInv'
BY EntersStep, LeaveStep, LoadStep, DestroyingStep, DestroyingOldStep, DropOldStep, SaveStep
   DEF SessionNext

LEMMA SessionQuiet ==
  ASSUME StoreInv, StoreInv', SessionInv, Effect({}, {}), UNCHANGED sessionVars
  PROVE  SessionInv'
<1>1. SessionTyped /\ SessionSound
      /\ UNCHANGED <<visiting, session, cookie, issued, came, gone, undone>>
  BY DEF SessionInv, sessionVars
<1>2. SessionTyped'
  BY <1>1 DEF SessionTyped, ShapeOf, Overs
<1>3. \A id, W : Removed(id, W) => RemovedIn(id, W, undone', entries', now', session', visiting')
  <2> SUFFICES ASSUME NEW id, NEW W, Removed(id, W)
               PROVE  RemovedIn(id, W, undone', entries', now', session', visiting')
    OBVIOUS
  <2>1. LiveIn(entries', now', id) => LiveIn(entries, now, id)
    BY LiveLater DEF StoreInv
  <2> QED BY <1>1, <2>1 DEF Removed, RemovedIn
<1>4. SessionSound'
  BY <1>1, <1>3 DEF SessionSound, Removed
<1> QED BY <1>2, <1>4 DEF SessionInv

LEMMA SessionStarts ==
  ASSUME SessionInit
  PROVE  SessionInv
<1>1. Blank \in SessionRec /\ Blank.id = None /\ Blank.old = None
  BY DEF Blank, SessionRec, Payload
<1>2. Overs(visiting) = {} /\ IsFiniteSet({}) /\ Cardinality({}) = 0
  BY FS_EmptySet DEF SessionInit, Overs
<1>3. SessionTyped
  BY <1>1, <1>2 DEF SessionInit, SessionTyped, ShapeOf, VisitPlace
<1>4. SessionSound
  BY DEF SessionInit, SessionSound
<1> QED BY <1>3, <1>4 DEF SessionInv

LEMMA SessionBounds ==
  ASSUME StoreInv, SessionInv
  PROVE  SessionGone
<1>1. \A id : Live(id) => LiveIn(entries, now, id)
  BY LiveIs
<1> QED BY <1>1 DEF SessionInv, SessionSound, SessionGone, Removed, RemovedIn

-----------------------------------------------------------------------------
(* All the services.  One of them is in use; the others are as they were   *)
(* at the start, as far as their properties ask.                           *)

IdemIdle == ran = {} /\ got = [c \in Call |-> NoAnswer] /\ spoilt \in [Key -> Nat]
HookIdle == handled = {} /\ crossed \in [Key -> Nat]
SessionIdle == gone = {}
FlightIdle ==
  /\ calling = [c \in Caller |-> "first"]
  /\ loads = [k \in Key |-> 0] /\ missed \in [Key -> Nat]
LimitIdle == admitted = {} /\ tats \in [Key -> Nat] /\ forgotten \in [Key -> Nat]

StoresInv ==
  /\ StoreInv
  /\ IF service = "idempotency" THEN IdemInv ELSE IdemIdle
  /\ IF service = "webhook" THEN HookInv ELSE HookIdle
  /\ IF service = "session" THEN SessionInv ELSE SessionIdle
  /\ IF service = "load" THEN FlightInv ELSE FlightIdle
  /\ IF service = "limit" THEN LimitInv ELSE LimitIdle

LEMMA LimitStarts ==
  ASSUME StoreInit, LimitInit
  PROVE  LimitInv
<1>1. now = 0 /\ tats \in [Key -> Nat] /\ read \in [Hit -> Nat] /\ admitted = {}
      /\ forgotten \in [Key -> Nat] /\ \A h \in Hit : read[h] = 0
  BY DEF StoreInit, LimitInit, Nil
<1>2. IsFiniteSet(admitted)
  BY <1>1, FS_EmptySet
<1>3. \A k, a, b : During(admitted, k, a, b) = {} /\ Cardinality({}) = 0
  BY <1>1, FS_EmptySet DEF During
<1>4. \A k, a, b, x : Counted(admitted, k, a, b, x)
  BY <1>3 DEF Counted
<1> QED BY <1>1, <1>2, <1>4 DEF LimitInv

LEMMA IdlesStart ==
  /\ IdemInit => IdemIdle
  /\ HookInit => HookIdle
  /\ SessionInit => SessionIdle
  /\ FlightInit => FlightIdle
  /\ LimitInit => LimitIdle
BY DEF IdemInit, IdemIdle, HookInit, HookIdle, SessionInit, SessionIdle,
       FlightInit, FlightIdle, LimitInit, LimitIdle, Nil

LEMMA IdlesStay ==
  /\ IdemIdle /\ UNCHANGED idemVars => IdemIdle'
  /\ HookIdle /\ UNCHANGED hookVars => HookIdle'
  /\ SessionIdle /\ UNCHANGED sessionVars => SessionIdle'
  /\ FlightIdle /\ UNCHANGED flightVars => FlightIdle'
  /\ LimitIdle /\ UNCHANGED limitVars => LimitIdle'
BY DEF idemVars, IdemIdle, hookVars, HookIdle, sessionVars, SessionIdle,
       flightVars, FlightIdle, limitVars, LimitIdle, NoAnswer, Answer

LEMMA StoresStart ==
  ASSUME Init
  PROVE  StoresInv
<1>1. StoreInit /\ IdemInit /\ HookInit /\ SessionInit /\ FlightInit /\ LimitInit
  BY DEF Init
<1>2. StoreInv /\ IdemInv /\ HookInv /\ SessionInv /\ FlightInv /\ LimitInv
  BY <1>1, StoreStarts, IdemStarts, HookStarts, SessionStarts, FlightStarts, LimitStarts
<1> QED BY <1>1, <1>2, IdlesStart DEF StoresInv

LEMMA ServiceStep ==
  ASSUME StoresInv, Serve, UNCHANGED service
  PROVE  StoresInv'
<1>0. StoreInv
  BY DEF StoresInv
<1>1. CASE service = "idempotency"
  <2>1. (ServeNext \/ CallNext) /\ UNCHANGED calls
        /\ UNCHANGED <<hookVars, sessionVars, flightVars, limitVars>>
    BY <1>1 DEF Serve
  <2>2. IdemInv /\ HookIdle /\ SessionIdle /\ FlightIdle /\ LimitIdle
    BY <1>1 DEF StoresInv
  <2>3. StoreInv' /\ IdemInv'
    BY <1>0, <2>1, <2>2, IdemStep
  <2> QED BY <1>1, <2>1, <2>2, <2>3, IdlesStay DEF StoresInv
<1>2. CASE service = "webhook"
  <2>1. HookNext /\ UNCHANGED <<idemVars, sessionVars, flightVars, limitVars>>
    BY <1>2 DEF Serve
  <2>2. IdemIdle /\ HookInv /\ SessionIdle /\ FlightIdle /\ LimitIdle
    BY <1>2 DEF StoresInv
  <2>3. StoreInv' /\ HookInv'
    BY <1>0, <2>1, <2>2, HookStep
  <2> QED BY <1>2, <2>1, <2>2, <2>3, IdlesStay DEF StoresInv
<1>3. CASE service = "session"
  <2>1. SessionNext /\ UNCHANGED <<idemVars, hookVars, flightVars, limitVars>>
    BY <1>3 DEF Serve
  <2>2. IdemIdle /\ HookIdle /\ SessionInv /\ FlightIdle /\ LimitIdle
    BY <1>3 DEF StoresInv
  <2>3. StoreInv' /\ SessionInv'
    BY <1>0, <2>1, <2>2, SessionStep
  <2> QED BY <1>3, <2>1, <2>2, <2>3, IdlesStay DEF StoresInv
<1>4. CASE service = "load"
  <2>1. FlightNext /\ UNCHANGED <<idemVars, hookVars, sessionVars, limitVars>>
    BY <1>4 DEF Serve
  <2>2. IdemIdle /\ HookIdle /\ SessionIdle /\ FlightInv /\ LimitIdle
    BY <1>4 DEF StoresInv
  <2>3. StoreInv' /\ FlightInv'
    BY <1>0, <2>1, <2>2, FlightStep
  <2> QED BY <1>4, <2>1, <2>2, <2>3, IdlesStay DEF StoresInv
<1>5. CASE service = "limit"
  <2>1. LimitNext /\ UNCHANGED <<idemVars, hookVars, sessionVars, flightVars>>
    BY <1>5 DEF Serve
  <2>2. IdemIdle /\ HookIdle /\ SessionIdle /\ FlightIdle /\ LimitInv
    BY <1>5 DEF StoresInv
  <2>3. StoreInv' /\ LimitInv'
    BY <1>0, <2>1, <2>2, LimitStep
  <2> QED BY <1>5, <2>1, <2>2, <2>3, IdlesStay DEF StoresInv
<1> QED BY <1>1, <1>2, <1>3, <1>4, <1>5 DEF Serve

LEMMA ServicesQuiet ==
  ASSUME StoresInv, StoreInv', Effect({}, {}), UNCHANGED <<serviceVars, service>>
  PROVE  StoresInv'
<1>1. StoreInv /\ UNCHANGED <<idemVars, hookVars, sessionVars, flightVars, limitVars, service>>
  BY DEF StoresInv, serviceVars
<1>2. IF service' = "idempotency" THEN IdemInv' ELSE IdemIdle'
  BY <1>1, IdemQuiet, IdlesStay DEF StoresInv
<1>3. IF service' = "webhook" THEN HookInv' ELSE HookIdle'
  BY <1>1, HookQuiet, IdlesStay DEF StoresInv
<1>4. IF service' = "session" THEN SessionInv' ELSE SessionIdle'
  BY <1>1, SessionQuiet, IdlesStay DEF StoresInv
<1>5. IF service' = "load" THEN FlightInv' ELSE FlightIdle'
  BY <1>1, FlightQuiet, IdlesStay DEF StoresInv
<1>6. LimitInv => LimitInv'
  <2> SUFFICES ASSUME LimitInv PROVE LimitInv'
    OBVIOUS
  <2>1. now \in Nat /\ now' \in Nat /\ now' >= now
    BY <1>1 DEF StoreInv, Effect
  <2>2. UNCHANGED <<tats, forgotten, admitted, read>>
    BY <1>1 DEF limitVars
  <2>3. read' \in [Hit -> Nat] /\ \A h \in Hit : read'[h] <= now'
    BY <2>1, <2>2 DEF LimitInv
  <2> QED BY <1>1, <2>1, <2>2, <2>3, LimitQuiet
<1>7. IF service' = "limit" THEN LimitInv' ELSE LimitIdle'
  BY <1>1, <1>6, IdlesStay DEF StoresInv
<1> QED BY <1>2, <1>3, <1>4, <1>5, <1>7 DEF StoresInv

LEMMA StoresStep ==
  ASSUME StoresInv, [Next]_vars
  PROVE  StoresInv'
<1>1. StoreInv /\ faults \in Nat
  BY DEF StoresInv, StoreInv
<1>2. CASE Serve /\ UNCHANGED service
  BY <1>2, ServiceStep
<1>3. CASE (IF service = "limit" THEN Tick ELSE StoreNext) /\ UNCHANGED <<serviceVars, service>>
  <2>1. StoreInv' /\ Effect({}, {})
    BY <1>1, <1>3, TickEffect, StoreNextEffect
  <2> QED BY <1>3, <2>1, ServicesQuiet
<1>4. CASE UNCHANGED vars
  <2>1. UNCHANGED <<now, entries, faults, lapses>> /\ UNCHANGED <<serviceVars, service>>
    BY <1>4 DEF vars, storeVars
  <2>2. StoreInv' /\ Effect({}, {})
    BY <1>1, <2>1, StoreStays
  <2> QED BY <2>1, <2>2, ServicesQuiet
<1> QED BY <1>2, <1>3, <1>4 DEF Next

(* Whichever service is in use, the properties of all of them hold.        *)
LEMMA StoresBounds ==
  ASSUME StoresInv
  PROVE  DoneOnce /\ SessionGone /\ LoadShared /\ RateBounded
<1>1. StoreInv /\ (\A k \in Key : lapses[k] \in Nat) /\ now \in Nat
  BY DEF StoresInv, StoreInv
<1>2. Cardinality({}) = 0
  BY FS_EmptySet
<1>3. EffectOnce
  <2>1. CASE IdemIdle
    <3>1. \A k \in Key : Effects(k) = {} /\ spoilt[k] \in Nat
      BY <2>1 DEF IdemIdle, Effects
    <3>2. \A c \in Call : {r \in ran : r[1] = c} = {} /\ got[c].status # "ok"
      BY <2>1 DEF IdemIdle, NoAnswer, Answer
    <3>3. \A k \in Key : Cardinality(Effects(k)) = 0 /\ 0 <= 1 + lapses[k] + spoilt[k]
      BY <1>1, <1>2, <3>1
    <3>4. \A c \in Call : Cardinality({r \in ran : r[1] = c}) = 0
      BY <1>2, <3>2
    <3> QED BY <3>2, <3>3, <3>4 DEF EffectOnce
  <2> QED BY <2>1, IdemBounds DEF StoresInv
<1>4. EventOnce
  <2>1. CASE HookIdle
    <3>1. \A k \in Key : {d \in handled : EventKey(d) = k} = {} /\ crossed[k] \in Nat
      BY <2>1 DEF HookIdle
    <3> QED BY <1>1, <1>2, <3>1 DEF EventOnce
  <2> QED BY <2>1, HookBounds DEF StoresInv
<1>5. SessionGone
  BY SessionBounds DEF StoresInv, SessionIdle, SessionGone
<1>6. LoadShared
  <2>1. CASE FlightIdle
    <3>1. \A k \in Key : loads[k] = 0 /\ missed[k] \in Nat
      BY <2>1 DEF FlightIdle
    <3>2. \A c \in Caller : calling[c] = "first"
      BY <2>1 DEF FlightIdle
    <3> QED BY <1>1, <3>1, <3>2 DEF LoadShared
  <2> QED BY <2>1, FlightBounds DEF StoresInv
<1>7. RateBounded
  <2>1. CASE LimitIdle
    <3>1. \A k, a, b : Between(k, a, b) = {}
      BY <2>1 DEF LimitIdle, Between
    <3>2. ASSUME NEW a \in 0..MaxTime, NEW b \in a..MaxTime
          PROVE  0 <= Capacity + (b - a) \div Interval
      <4>1. Interval \in Nat \ {0} /\ Capacity \in Nat /\ MaxTime \in Nat
        BY RateAssumption, StoreAssumption
      <4>2. PICK x \in Nat : x = b - a
        BY <4>1
      <4>3. 0 * Interval <= x + Interval * Capacity
        BY <4>1
      <4> QED BY <4>1, <4>2, <4>3, Divides
    <3>3. \A k \in Key : ~Allowed(now, tats[k]) => Allowed(now + Wait(now, tats[k]), tats[k])
      BY <1>1, <2>1, WaitIsEnough DEF LimitIdle
    <3> QED BY <1>2, <3>1, <3>2, <3>3 DEF RateBounded
  <2> QED BY <2>1, LimitBounds DEF StoresInv
<1> QED BY <1>3, <1>4, <1>5, <1>6, <1>7 DEF DoneOnce

LEMMA StoresHold == Spec => []StoresInv
<1>1. Init => StoresInv
  BY StoresStart
<1>2. StoresInv /\ [Next]_vars => StoresInv'
  BY StoresStep
<1> QED BY <1>1, <1>2, PTL DEF Spec

(* What is done to an idempotency key or a webhook delivery is done once   *)
(* more only for a lapse of its record, a result that could not be stored  *)
(* or deliveries that crossed, and a success a client is told happened     *)
(* (idempotency.go, webhook.go, the retries of httpclient.go).             *)
THEOREM EffectsAreOnce == Spec => []DoneOnce
<1>1. StoresInv => DoneOnce
  BY StoresBounds
<1> QED BY <1>1, StoresHold, PTL

(* A session that was destroyed or regenerated is not accepted any more,   *)
(* unless the store refused its removal or another request held it         *)
(* (session.go, commit).                                                   *)
THEOREM SessionsStayGone == Spec => []SessionGone
<1>1. StoresInv => SessionGone
  BY StoresBounds
<1> QED BY <1>1, StoresHold, PTL

(* A value is loaded once more only for a lapse of it or a load that       *)
(* failed, one leader at a time, and no call returns a value of another    *)
(* key or the result of a flight that has not landed (cache/typed.go).     *)
THEOREM LoadsAreShared == Spec => []LoadShared
<1>1. StoresInv => LoadShared
  BY StoresBounds
<1> QED BY <1>1, StoresHold, PTL

(* In every span of the clock a key is let through at most its capacity    *)
(* and once per interval passed, counting each request the limiter         *)
(* answered at the reading it decided with, late ones too, but not those   *)
(* overtaken by a sweep (or expiry) of their key at a later reading; and   *)
(* Retry-After is long enough (ratelimit.go).                              *)
THEOREM RateIsBounded == Spec => []RateBounded
<1>1. StoresInv => RateBounded
  BY StoresBounds
<1> QED BY <1>1, StoresHold, PTL
=============================================================================
