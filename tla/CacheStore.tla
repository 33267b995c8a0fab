----------------------------- MODULE CacheStore -----------------------------
(***************************************************************************)
(* The key-value store of package cache that idempotency keys, webhook     *)
(* deliveries, sessions and loaded values live in, with the clock.  It is  *)
(* cache.Memory (cache/memory.go): an LRU list with a time to live per     *)
(* entry.  Every operation is one step under its mutex, and an operation   *)
(* of a shared store may fail: "refused" did not run, "lost" ran and its   *)
(* answer did not arrive.  cache.Memory itself never fails.                *)
(*                                                                         *)
(* An entry is [key, value, expires]; the first one is the most recently   *)
(* used.  Namespaces only keep the keys of the users of a store apart.     *)
(***************************************************************************)
EXTENDS Naturals, Sequences, SequencesExt, FiniteSets, Positions

CONSTANTS Key,        \* every key in use
          MaxEntries, \* MemoryOptions.MaxEntries
          MaxTime,    \* bound: the clock
          MaxFaults,  \* bound: operations that fail, answers lost, calls given up
          None

ASSUME StoreAssumption ==
  /\ MaxEntries \in Nat \ {0} /\ MaxTime \in Nat /\ MaxFaults \in Nat
  /\ None \notin Key

VARIABLES now,     \* the clock
          entries, \* Memory.ll and Memory.items
          faults,
          lapses   \* history: times the live entry of a key expired or was evicted

storeVars == <<now, entries, faults, lapses>>

Never == 0 \* a time to live <= 0 means no expiry

Expired(e, t) == e.expires # Never /\ t >= e.expires
Deadline(ttl) == IF ttl = 0 THEN Never ELSE now + ttl

KeysOf(s) == {s[i].key : i \in DOMAIN s}
EntryOf(k) == entries[CHOOSE i \in DOMAIN entries : entries[i].key = k]
Stored(k) == k \in KeysOf(entries)
Live(k) == Stored(k) /\ ~Expired(EntryOf(k), now)
Value(k) == EntryOf(k).value

Without(s, k) == Picked(s, {i \in DOMAIN s : s[i].key # k})

(* Memory.set: the entry moves to the front, and the store evicts from     *)
(* the back while it is over its size.                                     *)
Put(s, k, v, ttl) ==
  LET grown == <<[key |-> k, value |-> v, expires |-> Deadline(ttl)]>> \o Without(s, k)
  IN SubSeq(grown, 1, IF Len(grown) > MaxEntries THEN MaxEntries ELSE Len(grown))

(* Memory.Get: an expired entry is dropped, a live one is moved to front.  *)
Touched(s, k) ==
  IF ~Stored(k) THEN s
  ELSE IF Expired(EntryOf(k), now) THEN Without(s, k)
  ELSE <<EntryOf(k)>> \o Without(s, k)

(* The store becomes s.  A live entry that is gone from it was evicted,    *)
(* unless its key is the one the operation deletes.                        *)
Change(s, deleted) ==
  /\ entries' = s
  /\ lapses' = [k \in Key |->
       IF Live(k) /\ k \notin KeysOf(s) \cup deleted THEN lapses[k] + 1 ELSE lapses[k]]

(* How an operation ends for its caller.                                   *)
Outcome == {"ok", "refused", "lost"}
Ends(o) ==
  /\ faults' = IF o = "ok" THEN faults ELSE faults + 1
  /\ faults' <= MaxFaults
Ran(o) == o # "refused"

GetStep(k, o) ==
  /\ Ends(o)
  /\ Change(IF Ran(o) THEN Touched(entries, k) ELSE entries, {})
  /\ UNCHANGED now

SetStep(k, v, ttl, o) ==
  /\ Ends(o)
  /\ Change(IF Ran(o) THEN Put(entries, k, v, ttl) ELSE entries, {})
  /\ UNCHANGED now

(* Memory.Add: only over a missing or an expired entry.                    *)
AddStep(k, v, ttl, o) ==
  /\ Ends(o)
  /\ Change(IF Ran(o) /\ ~Live(k) THEN Put(entries, k, v, ttl) ELSE entries, {})
  /\ UNCHANGED now

DeleteStep(k, o) ==
  /\ Ends(o)
  /\ Change(IF Ran(o) THEN Without(entries, k) ELSE entries, {k})
  /\ UNCHANGED now

(* The janitor drops the expired entries.                                  *)
Sweep ==
  /\ Change(Picked(entries, {i \in DOMAIN entries : ~Expired(entries[i], now)}), {})
  /\ entries' # entries
  /\ UNCHANGED <<now, faults>>

(* Other users of the store set keys of their own, which are left out,     *)
(* until the least recently used entry is evicted.                         *)
Evict ==
  /\ entries # <<>>
  /\ Change(Front(entries), {})
  /\ UNCHANGED <<now, faults>>

Tick ==
  /\ now < MaxTime
  /\ now' = now + 1
  /\ lapses' = [k \in Key |->
       IF Live(k) /\ Expired(EntryOf(k), now + 1) THEN lapses[k] + 1 ELSE lapses[k]]
  /\ UNCHANGED <<entries, faults>>

StoreInit ==
  /\ now = 0 /\ entries = <<>> /\ faults = 0
  /\ lapses = [k \in Key |-> 0]

StoreNext == Sweep \/ Tick \/ Evict
=============================================================================
