------------------------------ MODULE HashMap ------------------------------
(***************************************************************************)
(* vx::HashMap: open addressing with linear probing. An erased slot leaves *)
(* a tombstone, which keeps longer probe sequences together and may be     *)
(* taken by a later insertion; the load that makes the table grow counts   *)
(* live entries only. Growing moves the entries of the old table one by    *)
(* one into a table without tombstones. A map that was moved from has no   *)
(* table until something is assigned to it.                                *)
(*                                                                         *)
(* The control byte of a slot is its state; the seven hash bits it holds   *)
(* for a full slot are a function of the key and only save comparisons.    *)
(* Module KeyValueMap says what all this amounts to.                       *)
(***************************************************************************)
EXTENDS Naturals, FiniteSets

CONSTANTS
  Keys, Values,
  Default,    \* V(), what operator[] gives a new key
  None,       \* what Find returns for an absent key
  Hash,       \* [Keys -> Nat]: H1 of the key's hash
  FirstCap,   \* kDefaultCapacity
  MaxCap      \* bound on the capacity

ASSUME HashMapAssumption ==
  /\ Default \in Values /\ None \notin Values
  /\ Hash \in [Keys -> Nat]
  /\ FirstCap \in Nat \ {0} /\ MaxCap \in Nat

VARIABLES
  cap,      \* capacity_
  table,    \* ctrl_ and slots_
  size,     \* size_
  oldCap,   \* capacity of the table being moved by Rehash; 0 outside Rehash
  old,      \* that table
  next,     \* the slot Rehash looks at next
  call,     \* the call that waits for Rehash
  done      \* history: the call that returned last, and what it returned

vars == <<cap, table, size, oldCap, old, next, call, done>>

Empty      == [state |-> "empty"]
Deleted    == [state |-> "deleted"]
Full(k, v) == [state |-> "full", key |-> k, val |-> v]
Slots      == {Empty, Deleted} \cup [state: {"full"}, key: Keys, val: Values]
IsFull(s)  == s.state = "full"

InitTable(n) == [p \in 0..(n - 1) |-> Empty]

NoCall == [op |-> "none"]

Inserting(k, v) == [op |-> "insert", key |-> k, val |-> v]
Asking(op, k)   == [op |-> op, key |-> k]
Emptying(op)    == [op |-> op]

NothingReturned == <<NoCall, None>>
Returns(c, answer) == done' = <<c, answer>>

Init ==
  /\ cap = FirstCap /\ table = InitTable(FirstCap) /\ size = 0
  /\ oldCap = 0 /\ old = InitTable(0) /\ next = 0
  /\ call = NoCall /\ done = NothingReturned

----------------------------------------------------------------------------
(* Probing: the n slots from the key's home on, wrapping at the end, up to *)
(* and including the first one that is empty or holds the key.             *)

Probe(k, i, n) == LET p == (Hash[k] % n) + i IN IF p < n THEN p ELSE p - n

Holds(t, p, k) == IsFull(t[p]) /\ t[p].key = k

Visited(t, n, k) ==
  {i \in 0..(n - 1) : \A j \in 0..(i - 1) :
     t[Probe(k, j, n)] # Empty /\ ~Holds(t, Probe(k, j, n), k)}

FoundAt(t, n, k) == {Probe(k, i, n) : i \in {j \in Visited(t, n, k) : Holds(t, Probe(k, j, n), k)}}

(* Steps of the probe that pass a slot free for insertion. *)
FreeSteps(t, n, k) == {i \in Visited(t, n, k) : ~IsFull(t[Probe(k, i, n)])}

FindIn(t, n, k) ==
  IF FoundAt(t, n, k) = {} THEN None ELSE t[CHOOSE p \in FoundAt(t, n, k) : TRUE].val

FirstStep(S) == CHOOSE i \in S : \A j \in S : i <= j

(* InsertInternal: the key's own slot, or the first free one of the probe. *)
SlotFor(t, n, k) ==
  IF FoundAt(t, n, k) # {} THEN CHOOSE p \in FoundAt(t, n, k) : TRUE
  ELSE Probe(k, FirstStep(FreeSteps(t, n, k)), n)

(* Mutant: an update counts as an insertion. *)
InsertInternalCounting(k, v) ==
  /\ table' = [table EXCEPT ![SlotFor(table, cap, k)] = Full(k, v)]
  /\ size' = size + 1

InsertInternal(k, v) ==
  /\ table' = [table EXCEPT ![SlotFor(table, cap, k)] = Full(k, v)]
  /\ size' = IF FoundAt(table, cap, k) = {} THEN size + 1 ELSE size

(* Mutant: operator[] starts a key over. *)
AccessedAnew(k) == Default

(* operator[] leaves the value of a key that is there. *)
Accessed(k) == IF FindIn(table, cap, k) = None THEN Default ELSE FindIn(table, cap, k)

(* What an insertion does once there is room, and what it returns: whether *)
(* the key is new, or what the reference of operator[] refers to.          *)
Complete(c) ==
  CASE c.op = "insert" -> /\ InsertInternal(c.key, c.val)
                          /\ Returns(c, FoundAt(table, cap, c.key) = {})
    [] c.op = "index"  -> InsertInternal(c.key, Accessed(c.key)) /\ Returns(c, Accessed(c.key))
    [] c.op = "none"   -> UNCHANGED <<table, size, done>>

----------------------------------------------------------------------------
Idle == oldCap = 0

(* Mutant: the table grows when it is more than full. *)
NeedsRehashLate == size > cap

NeedsRehash == size * 8 >= cap * 7

(* Rehash, from its start to the empty new table. *)
BeginRehash(n, then) ==
  /\ n <= MaxCap
  /\ oldCap' = cap /\ old' = table /\ next' = 0
  /\ cap' = n /\ table' = InitTable(n) /\ size' = 0
  /\ call' = then /\ done' = NothingReturned

(* Inserting into a map that was moved from is not defined. *)
InsertOrGrow(c) ==
  /\ Idle /\ cap > 0
  /\ IF NeedsRehash THEN BeginRehash(cap * 2, c)
     ELSE Complete(c) /\ UNCHANGED <<cap, oldCap, old, next, call>>

Insert(k, v) == InsertOrGrow(Inserting(k, v))
Index(k)     == InsertOrGrow(Asking("index", k))

(* Rehash, one slot of the old table. *)
MoveSlot ==
  /\ ~Idle /\ next < oldCap
  /\ IF IsFull(old[next]) THEN InsertInternal(old[next].key, old[next].val)
     ELSE UNCHANGED <<table, size>>
  /\ next' = next + 1
  /\ UNCHANGED <<cap, oldCap, old, call, done>>

(* Rehash returns, and the call that needed it goes on. *)
EndRehash ==
  /\ ~Idle /\ next = oldCap
  /\ Complete(call)
  /\ oldCap' = 0 /\ old' = InitTable(0) /\ next' = 0 /\ call' = NoCall
  /\ UNCHANGED cap

Find(k) ==
  /\ Idle
  /\ Returns(Asking("find", k), FindIn(table, cap, k))
  /\ UNCHANGED <<cap, table, size, oldCap, old, next, call>>

(* Mutant: an erased slot becomes empty. *)
EraseToEmpty(k) ==
  /\ Idle
  /\ IF FoundAt(table, cap, k) = {} THEN UNCHANGED <<table, size>>
     ELSE /\ table' = [table EXCEPT ![CHOOSE p \in FoundAt(table, cap, k) : TRUE] = Empty]
          /\ size' = size - 1
  /\ Returns(Asking("erase", k), FoundAt(table, cap, k) # {})
  /\ UNCHANGED <<cap, oldCap, old, next, call>>

(* Erase of a key that is not there does nothing and says so. *)
Erase(k) ==
  /\ Idle
  /\ IF FoundAt(table, cap, k) = {} THEN UNCHANGED <<table, size>>
     ELSE /\ table' = [table EXCEPT ![CHOOSE p \in FoundAt(table, cap, k) : TRUE] = Deleted]
          /\ size' = size - 1
  /\ Returns(Asking("erase", k), FoundAt(table, cap, k) # {})
  /\ UNCHANGED <<cap, oldCap, old, next, call>>

(* clear() leaves the tombstones. *)
Clear ==
  /\ Idle
  /\ table' = [p \in DOMAIN table |-> IF IsFull(table[p]) THEN Empty ELSE table[p]]
  /\ size' = 0
  /\ Returns(Emptying("clear"), None)
  /\ UNCHANGED <<cap, oldCap, old, next, call>>

(* reserve(count): the capacity is doubled until the load fits. *)
Reserve(count) ==
  /\ Idle /\ cap > 0
  /\ LET needed == (count * 8 + 6) \div 7
         large  == {n \in 0..MaxCap : n >= needed /\ \E j \in 1..MaxCap : n = cap * 2^j}
     IN /\ cap < needed
        /\ \E n \in large : (\A m \in large : n <= m) /\ BeginRehash(n, NoCall)

(* The map becomes a copy of itself: the entries, inserted one by one into *)
(* a table of the same capacity.                                           *)
Copy == Idle /\ cap > 0 /\ BeginRehash(cap, NoCall)

(* The table goes to another map. *)
MoveFrom ==
  /\ Idle
  /\ cap' = 0 /\ table' = InitTable(0) /\ size' = 0
  /\ Returns(Emptying("move"), None)
  /\ UNCHANGED <<oldCap, old, next, call>>

(* m = HashMap(). *)
Renew ==
  /\ Idle
  /\ cap' = FirstCap /\ table' = InitTable(FirstCap) /\ size' = 0
  /\ Returns(Emptying("renew"), None)
  /\ UNCHANGED <<oldCap, old, next, call>>

Next ==
  \/ \E k \in Keys : Index(k) \/ Erase(k) \/ Find(k) \/ \E v \in Values : Insert(k, v)
  \/ MoveSlot \/ EndRehash
  \/ Clear \/ Copy \/ MoveFrom \/ Renew
  \/ \E count \in 0..MaxCap : Reserve(count)

Spec == Init /\ [][Next]_vars

----------------------------------------------------------------------------
Calls == {NoCall} \cup [op: {"insert"}, key: Keys, val: Values] \cup [op: {"index"}, key: Keys]

(* Every variable holds a value of its kind; Rehash never shrinks a table. *)
TypeOK ==
  /\ cap \in Nat /\ oldCap \in Nat /\ oldCap <= cap
  /\ table \in [0..(cap - 1) -> Slots] /\ old \in [0..(oldCap - 1) -> Slots]
  /\ size \in Nat /\ next \in 0..oldCap
  /\ call \in Calls

FullSlots(t) == {p \in DOMAIN t : IsFull(t[p])}

(* The keys and values in the table, and those Rehash has still to move,   *)
(* wherever they are.                                                      *)
Entries ==
  {table[p] : p \in FullSlots(table)} \cup {old[p] : p \in {q \in FullSlots(old) : q >= next}}

Contents ==
  [k \in Keys |-> IF \E e \in Entries : e.key = k
                  THEN (CHOOSE e \in Entries : e.key = k).val ELSE None]

(* Probing finds whatever is in the table and nothing else, whatever       *)
(* tombstones and collisions earlier calls have left on the way.           *)
LookupExact ==
  Idle => \A k \in Keys : (IF cap = 0 THEN None ELSE FindIn(table, cap, k)) = Contents[k]

(* VX_DCHECK(insert_idx < capacity_): an insertion finds a slot, although  *)
(* tombstones do not count towards the load. It holds for the insertions   *)
(* of Rehash, for the one that waits for it, and for the next one.         *)
InsertHasRoom ==
  LET room(k) == FoundAt(table, cap, k) # {} \/ FreeSteps(table, cap, k) # {}
  IN /\ Idle /\ cap > 0 /\ ~NeedsRehash => \A k \in Keys : room(k)
     /\ ~Idle /\ next < oldCap /\ IsFull(old[next]) => room(old[next].key)
     /\ ~Idle /\ next = oldCap /\ call # NoCall => room(call.key)

(* size() is the number of keys a caller could find. *)
SizeCounts == Idle => size = Cardinality({k \in Keys : Contents[k] # None})

Abstract == INSTANCE KeyValueMap WITH map <- Contents

(* The table with its tombstones, growth and moves behaves as a map: every *)
(* call has the effect on the contents that its map would have, when it    *)
(* returns and at no other step, and returns what that map would return.   *)
IsMap == Abstract!Spec

=============================================================================
