---------------------------- MODULE HashMapProofs ----------------------------
(* Invariants of HashMap, and its refinement of KeyValueMap, for every set *)
(* of keys, every hash function and every capacity.                        *)
EXTENDS HashMap, FunctionTheorems, FiniteSetTheorems, WellFoundedInduction, TLAPS

(* The entries of a table, and entries without those of a key.             *)
Held(t)       == {t[p] : p \in FullSlots(t)}
Without(S, k) == {e \in S : e.key # k}

(* No key is in two slots.                                                 *)
Unique(t, n) ==
  \A k \in Keys : \A p, q \in 0..(n - 1) : Holds(t, p, k) /\ Holds(t, q, k) => p = q

(* The probe for a key that is in the table meets no empty slot before it. *)
Chained(t, n) ==
  \A k \in Keys : \A i \in 0..(n - 1) :
    Holds(t, Probe(k, i, n), k) => \A j \in 0..(i - 1) : t[Probe(k, j, n)] # Empty

Good(t, n) == t \in [0..(n - 1) -> Slots] /\ Unique(t, n) /\ Chained(t, n)

LEMMA SlotFacts ==
  /\ Empty \in Slots /\ Deleted \in Slots /\ Empty # Deleted
  /\ ~IsFull(Empty) /\ ~IsFull(Deleted)
  /\ \A k \in Keys, v \in Values :
       /\ Full(k, v) \in Slots /\ IsFull(Full(k, v))
       /\ Full(k, v).key = k /\ Full(k, v).val = v
       /\ Full(k, v) # Empty /\ Full(k, v) # Deleted
  /\ \A s \in Slots : IsFull(s) => /\ s.key \in Keys /\ s.val \in Values
                                   /\ s = Full(s.key, s.val) /\ s # Empty
BY DEF Slots, Empty, Deleted, Full, IsFull

(* The least element of a non-empty set of naturals is FirstStep.          *)
LEMMA FirstStepProperty ==
  ASSUME NEW S \in SUBSET Nat, S # {}
  PROVE  FirstStep(S) \in S /\ \A m \in S : FirstStep(S) <= m
<1> DEFINE less == OpToRel(<, Nat)
<1>1. IsWellFoundedOn(less, Nat)
  BY NatLessThanWellFounded
<1> HIDE DEF less
<1>2. PICK n \in S : \A m \in S : <<m, n>> \notin less
  BY <1>1, WFMin
<1> USE DEF less
<1>3. ASSUME NEW m \in S, ~(n <= m)
      PROVE  FALSE
  <2>1. <<m, n>> \in Nat \X Nat /\ m < n
    BY <1>3
  <2>2. <<m, n>> \in less
    BY <2>1 DEF OpToRel
  <2> QED BY <1>2, <2>2
<1> QED BY <1>3 DEF FirstStep

----------------------------------------------------------------------------
(* The probe of a key visits every slot exactly once.                      *)

LEMMA ProbeRange ==
  ASSUME NEW n \in Nat \ {0}, NEW k \in Keys, NEW i \in 0..(n - 1)
  PROVE  Probe(k, i, n) \in 0..(n - 1)
<1>1. Hash[k] % n \in 0..(n - 1)
  BY HashMapAssumption
<1> QED
  BY <1>1 DEF Probe

LEMMA ProbeInjective ==
  ASSUME NEW n \in Nat \ {0}, NEW k \in Keys, NEW i \in 0..(n - 1), NEW j \in 0..(n - 1),
         Probe(k, i, n) = Probe(k, j, n)
  PROVE  i = j
<1>1. Hash[k] % n \in 0..(n - 1)
  BY HashMapAssumption
<1> QED
  BY <1>1 DEF Probe

LEMMA ProbeOnto ==
  ASSUME NEW n \in Nat \ {0}, NEW k \in Keys, NEW p \in 0..(n - 1)
  PROVE  \E i \in 0..(n - 1) : Probe(k, i, n) = p
<1> DEFINE h == Hash[k] % n
<1>1. h \in 0..(n - 1)
  BY HashMapAssumption
<1> HIDE DEF h
<1>2. CASE h <= p
  <2>1. p - h \in 0..(n - 1) /\ h + (p - h) = p
    BY <1>1, <1>2
  <2>2. Probe(k, p - h, n) = p
    BY <2>1 DEF Probe, h
  <2> QED BY <2>1, <2>2
<1>3. CASE p < h
  <2>1. (p - h) + n \in 0..(n - 1) /\ h + ((p - h) + n) = p + n /\ ~(p + n < n) /\ (p + n) - n = p
    BY <1>1, <1>3
  <2>2. Probe(k, (p - h) + n, n) = p
    BY <2>1 DEF Probe, h
  <2> QED BY <2>1, <2>2
<1> QED BY <1>1, <1>2, <1>3

(* Probing finds the slots that hold the key.                              *)
LEMMA FoundIffHeld ==
  ASSUME NEW n \in Nat \ {0}, NEW t, Good(t, n), NEW k \in Keys
  PROVE  FoundAt(t, n, k) = {p \in 0..(n - 1) : Holds(t, p, k)}
<1>1. ASSUME NEW p \in FoundAt(t, n, k)
      PROVE  p \in 0..(n - 1) /\ Holds(t, p, k)
  BY <1>1, ProbeRange DEF FoundAt, Visited
<1>2. ASSUME NEW p \in 0..(n - 1), Holds(t, p, k)
      PROVE  p \in FoundAt(t, n, k)
  <2>1. PICK i \in 0..(n - 1) : Probe(k, i, n) = p
    BY ProbeOnto
  <2>2. ASSUME NEW j \in 0..(i - 1)
        PROVE  t[Probe(k, j, n)] # Empty /\ ~Holds(t, Probe(k, j, n), k)
    <3>1. j \in 0..(n - 1) /\ j # i
      BY <2>1
    <3>2. t[Probe(k, j, n)] # Empty
      BY <1>2, <2>1 DEF Good, Chained
    <3>3. Probe(k, j, n) # p
      BY <2>1, <3>1, ProbeInjective
    <3> QED
      BY <1>2, <3>1, <3>2, <3>3, ProbeRange DEF Good, Unique
  <2>3. i \in Visited(t, n, k)
    BY <2>1, <2>2 DEF Visited
  <2> QED
    BY <1>2, <2>1, <2>3 DEF FoundAt
<1> QED BY <1>1, <1>2

LEMMA FoundInCap ==
  ASSUME NEW n \in Nat, NEW t, NEW k, FoundAt(t, n, k) # {}
  PROVE  n # 0
BY DEF FoundAt, Visited

(* An insertion finds its slot in a table that has one free.               *)
LEMMA RoomInTable ==
  ASSUME NEW n \in Nat \ {0}, NEW t, Good(t, n), NEW k \in Keys,
         \E p \in 0..(n - 1) : ~IsFull(t[p])
  PROVE  FoundAt(t, n, k) # {} \/ FreeSteps(t, n, k) # {}
<1> SUFFICES ASSUME FoundAt(t, n, k) = {} PROVE FreeSteps(t, n, k) # {}
  OBVIOUS
<1> DEFINE S == {i \in 0..(n - 1) : ~IsFull(t[Probe(k, i, n)])}
<1>1. S # {} /\ S \in SUBSET Nat
  BY ProbeOnto
<1> DEFINE i == FirstStep(S)
<1>2. i \in S /\ \A m \in S : i <= m
  BY <1>1, FirstStepProperty
<1> HIDE DEF i
<1>3. ASSUME NEW j \in 0..(i - 1)
      PROVE  t[Probe(k, j, n)] # Empty /\ ~Holds(t, Probe(k, j, n), k)
  <2>1. j \in 0..(n - 1) /\ j \notin S
    BY <1>2
  <2>2. Probe(k, j, n) \in 0..(n - 1)
    BY <2>1, ProbeRange
  <2> QED
    BY <2>1, <2>2, FoundIffHeld, SlotFacts
<1> QED
  BY <1>2, <1>3 DEF FreeSteps, Visited

----------------------------------------------------------------------------
(* What each operation does to a good table.                               *)

LEMMA EmptyTableGood ==
  ASSUME NEW n \in Nat
  PROVE  Good(InitTable(n), n) /\ FullSlots(InitTable(n)) = {}
BY SlotFacts, ProbeRange DEF Good, Unique, Chained, Holds, InitTable, FullSlots

(* The slot an insertion takes holds the key or is free, and then it is on *)
(* the key's chain.                                                        *)
LEMMA SlotForProperty ==
  ASSUME NEW n \in Nat \ {0}, NEW t, Good(t, n), NEW k \in Keys,
         FoundAt(t, n, k) # {} \/ FreeSteps(t, n, k) # {}
  PROVE  LET p == SlotFor(t, n, k)
         IN /\ p \in 0..(n - 1)
            /\ FoundAt(t, n, k) # {} => Holds(t, p, k)
            /\ FoundAt(t, n, k) = {} =>
                 /\ ~IsFull(t[p])
                 /\ \E i \in 0..(n - 1) : /\ p = Probe(k, i, n)
                                          /\ \A j \in 0..(i - 1) : t[Probe(k, j, n)] # Empty
<1>1. CASE FoundAt(t, n, k) # {}
  BY <1>1, FoundIffHeld DEF SlotFor
<1>2. CASE FoundAt(t, n, k) = {}
  <2> DEFINE i == FirstStep(FreeSteps(t, n, k))
  <2>1. i \in FreeSteps(t, n, k)
    <3>1. FreeSteps(t, n, k) \in SUBSET Nat
      BY DEF FreeSteps, Visited
    <3> QED BY <1>2, <3>1, FirstStepProperty
  <2>2. SlotFor(t, n, k) = Probe(k, i, n)
    BY <1>2 DEF SlotFor
  <2> HIDE DEF i
  <2>3. i \in 0..(n - 1) /\ ~IsFull(t[Probe(k, i, n)])
        /\ \A j \in 0..(i - 1) : t[Probe(k, j, n)] # Empty
    BY <2>1 DEF FreeSteps, Visited
  <2> QED BY <1>2, <2>2, <2>3, ProbeRange
<1> QED BY <1>1, <1>2

(* Table u is t after k was inserted with value v: only the slot written   *)
(* and the key written are concerned.                                      *)
Inserted(t, u, n, k, v) ==
  /\ Good(u, n)
  /\ FullSlots(u) = FullSlots(t) \cup {SlotFor(t, n, k)}
  /\ SlotFor(t, n, k) \in FullSlots(t) <=> FoundAt(t, n, k) # {}
  /\ Held(u) = Without(Held(t), k) \cup {Full(k, v)}

LEMMA InsertInTable ==
  ASSUME NEW n \in Nat \ {0}, NEW t, Good(t, n), NEW k \in Keys, NEW v \in Values,
         FoundAt(t, n, k) # {} \/ FreeSteps(t, n, k) # {},
         NEW u, u = [t EXCEPT ![SlotFor(t, n, k)] = Full(k, v)]
  PROVE  Inserted(t, u, n, k, v)
<1> DEFINE p == SlotFor(t, n, k)
<1>1. /\ p \in 0..(n - 1)
      /\ FoundAt(t, n, k) # {} => Holds(t, p, k)
      /\ FoundAt(t, n, k) = {} =>
           /\ ~IsFull(t[p])
           /\ \E i \in 0..(n - 1) : /\ p = Probe(k, i, n)
                                    /\ \A j \in 0..(i - 1) : t[Probe(k, j, n)] # Empty
  BY SlotForProperty
<1>2. u = [t EXCEPT ![p] = Full(k, v)]
  OBVIOUS
<1> HIDE DEF p
<1>3. t \in [0..(n - 1) -> Slots]
  BY DEF Good
<1>4. /\ u \in [0..(n - 1) -> Slots] /\ u[p] = Full(k, v)
      /\ \A q \in 0..(n - 1) : q # p => u[q] = t[q]
  <2>1. Full(k, v) \in Slots
    BY SlotFacts
  <2> QED BY <1>1, <1>2, <1>3, <2>1
<1>5. \A q \in 0..(n - 1) : q # p => ~Holds(t, q, k)
  BY <1>1, FoundIffHeld DEF Good, Unique
<1>6. \A k2 \in Keys : \A q \in 0..(n - 1) :
        Holds(u, q, k2) <=> IF k2 = k THEN q = p ELSE Holds(t, q, k2) /\ q # p
  BY <1>1, <1>4, <1>5, SlotFacts DEF Holds
<1>7. Unique(u, n)
  BY <1>6 DEF Good, Unique
<1>8. Chained(u, n)
  <2> SUFFICES ASSUME NEW k2 \in Keys, NEW i \in 0..(n - 1), Holds(u, Probe(k2, i, n), k2),
                      NEW j \in 0..(i - 1)
               PROVE  u[Probe(k2, j, n)] # Empty
    BY DEF Chained
  <2>1. Probe(k2, i, n) \in 0..(n - 1) /\ Probe(k2, j, n) \in 0..(n - 1)
    BY ProbeRange
  <2>2. t[Probe(k2, j, n)] # Empty
    <3>1. CASE Holds(t, Probe(k2, i, n), k2)
      BY <3>1 DEF Good, Chained
    <3>2. CASE ~Holds(t, Probe(k2, i, n), k2)
      <4>1. k2 = k /\ Probe(k, i, n) = p /\ FoundAt(t, n, k) = {}
        BY <1>1, <1>6, <2>1, <3>2
      <4>2. PICK m \in 0..(n - 1) : /\ p = Probe(k, m, n)
                                    /\ \A l \in 0..(m - 1) : t[Probe(k, l, n)] # Empty
        BY <1>1, <4>1
      <4>3. m = i
        BY <4>1, <4>2, ProbeInjective
      <4> QED BY <4>1, <4>2, <4>3
    <3> QED BY <3>1, <3>2
  <2> QED BY <1>4, <2>1, <2>2, SlotFacts
<1>9. FullSlots(u) = FullSlots(t) \cup {p}
  BY <1>1, <1>3, <1>4, SlotFacts DEF FullSlots
<1>10. p \in FullSlots(t) <=> FoundAt(t, n, k) # {}
  BY <1>1, <1>3 DEF FullSlots, Holds
<1>11. Held(u) = Without(Held(t), k) \cup {Full(k, v)}
  <2>1. \A q \in 0..(n - 1) : q # p => (q \in FullSlots(t) <=> q \in FullSlots(u))
    BY <1>9
  <2>2. ASSUME NEW q \in FullSlots(u)
        PROVE  u[q] \in Without(Held(t), k) \cup {Full(k, v)}
    BY <1>3, <1>4, <1>5, <1>9 DEF FullSlots, Holds, Held, Without
  <2>3. ASSUME NEW q \in FullSlots(t), t[q].key # k
        PROVE  t[q] \in Held(u)
    <3>1. q \in 0..(n - 1) /\ IsFull(t[q])
      BY <1>3 DEF FullSlots
    <3>2. q # p
      BY <1>1, <2>3, <3>1 DEF Holds
    <3> QED BY <1>4, <1>9, <3>1, <3>2 DEF Held
  <2>4. Full(k, v) \in Held(u)
    BY <1>4, <1>9 DEF Held
  <2> QED BY <2>2, <2>3, <2>4 DEF Held, Without
<1>12. Good(u, n)
  BY <1>4, <1>7, <1>8 DEF Good
<1> QED BY <1>9, <1>10, <1>11, <1>12 DEF Inserted, p

Erased(t, u, n, k, p) ==
  /\ Good(u, n) /\ p \in FullSlots(t)
  /\ FullSlots(u) = FullSlots(t) \ {p}
  /\ Held(u) = Without(Held(t), k)

LEMMA EraseFromTable ==
  ASSUME NEW n \in Nat \ {0}, NEW t, Good(t, n), NEW k \in Keys, NEW p \in FoundAt(t, n, k),
         NEW u, u = [t EXCEPT ![p] = Deleted]
  PROVE  Erased(t, u, n, k, p)
<1>1. p \in 0..(n - 1) /\ Holds(t, p, k) /\ t \in [0..(n - 1) -> Slots]
  BY FoundIffHeld DEF Good
<1>2. /\ u \in [0..(n - 1) -> Slots] /\ u[p] = Deleted
      /\ \A q \in 0..(n - 1) : q # p => u[q] = t[q]
  BY <1>1, SlotFacts
<1>3. FullSlots(u) = FullSlots(t) \ {p} /\ p \in FullSlots(t)
  BY <1>1, <1>2, SlotFacts DEF FullSlots, Holds
<1>4. \A q \in 0..(n - 1), k2 \in Keys : Holds(u, q, k2) => Holds(t, q, k2)
  BY <1>1, <1>2, SlotFacts DEF Holds
<1>5. \A q \in 0..(n - 1) : t[q] # Empty => u[q] # Empty
  BY <1>2, SlotFacts
<1>6. Unique(u, n)
  BY <1>4 DEF Good, Unique
<1>7. Chained(u, n)
  <2> SUFFICES ASSUME NEW k2 \in Keys, NEW i \in 0..(n - 1), Holds(u, Probe(k2, i, n), k2),
                      NEW j \in 0..(i - 1)
               PROVE  u[Probe(k2, j, n)] # Empty
    BY DEF Chained
  <2>1. Probe(k2, i, n) \in 0..(n - 1) /\ Probe(k2, j, n) \in 0..(n - 1)
    BY ProbeRange
  <2> QED BY <1>4, <1>5, <2>1 DEF Good, Chained
<1>8. ASSUME NEW q \in FullSlots(u)
      PROVE  u[q] \in Without(Held(t), k)
  <2>1. q \in FullSlots(t) /\ q \in 0..(n - 1) /\ q # p /\ IsFull(t[q])
    BY <1>1, <1>3 DEF FullSlots
  <2>2. u[q] = t[q] /\ t[q].key # k
    BY <1>1, <1>2, <2>1 DEF Good, Unique, Holds
  <2> QED BY <2>1, <2>2 DEF Held, Without
<1>9. ASSUME NEW q \in FullSlots(t), t[q].key # k
      PROVE  t[q] \in Held(u)
  <2>1. q \in 0..(n - 1) /\ q # p
    BY <1>1, <1>9 DEF FullSlots, Holds
  <2> QED BY <1>2, <1>3, <2>1 DEF Held
<1>10. Held(u) = Without(Held(t), k)
  BY <1>8, <1>9 DEF Held, Without
<1>11. Good(u, n)
  BY <1>2, <1>6, <1>7 DEF Good
<1> QED BY <1>3, <1>10, <1>11 DEF Erased

LEMMA ClearTable ==
  ASSUME NEW n \in Nat, NEW t, Good(t, n),
         NEW u, u = [p \in DOMAIN t |-> IF IsFull(t[p]) THEN Empty ELSE t[p]]
  PROVE  Good(u, n) /\ FullSlots(u) = {}
<1>1. t \in [0..(n - 1) -> Slots]
  BY DEF Good
<1>2. u \in [0..(n - 1) -> Slots] /\ \A p \in 0..(n - 1) : ~IsFull(u[p])
  BY <1>1, SlotFacts
<1>3. Unique(u, n)
  BY <1>2 DEF Unique, Holds
<1>4. Chained(u, n)
  <2> SUFFICES ASSUME NEW k \in Keys, NEW i \in 0..(n - 1), Holds(u, Probe(k, i, n), k)
               PROVE  FALSE
    BY DEF Chained
  <2>1. n \in Nat \ {0}
    OBVIOUS
  <2>2. Probe(k, i, n) \in 0..(n - 1)
    BY <2>1, ProbeRange
  <2> QED BY <1>2, <2>2 DEF Holds
<1>5. FullSlots(u) = {}
  BY <1>2 DEF FullSlots
<1> QED BY <1>2, <1>3, <1>4, <1>5 DEF Good

(* A table with fewer entries than slots has a free slot.                  *)
LEMMA FreeSlot ==
  ASSUME NEW n \in Nat \ {0}, NEW t \in [0..(n - 1) -> Slots],
         Cardinality(FullSlots(t)) < n
  PROVE  \E p \in 0..(n - 1) : ~IsFull(t[p])
<1>1. IsFiniteSet(0..(n - 1)) /\ Cardinality(0..(n - 1)) = n
  BY FS_Interval
<1>2. FullSlots(t) # 0..(n - 1)
  BY <1>1
<1> QED BY <1>2 DEF FullSlots

LEMMA FullSlotsFinite ==
  ASSUME NEW n \in Nat, NEW t \in [0..(n - 1) -> Slots]
  PROVE  IsFiniteSet(FullSlots(t)) /\ Cardinality(FullSlots(t)) \in Nat
<1>1. IsFiniteSet(0..(n - 1))
  BY FS_Interval
<1>2. FullSlots(t) \in SUBSET (0..(n - 1))
  BY DEF FullSlots
<1> QED BY <1>1, <1>2, FS_Subset, FS_CardinalityType

----------------------------------------------------------------------------
(* The inductive invariant: both tables are good, no key waits in the old  *)
(* one that is already in the new one, the size counts the new one, and an *)
(* insertion that waits for Rehash will find a larger table.               *)

Separate ==
  \A k \in Keys : \A p \in 0..(cap - 1) : \A q \in next..(oldCap - 1) :
    ~(Holds(table, p, k) /\ Holds(old, q, k))

Counted == size = Cardinality(FullSlots(table))

Growing ==
  /\ oldCap # 0 => size <= next
  /\ call # NoCall => oldCap # 0 /\ oldCap < cap

IInv == TypeOK /\ Good(table, cap) /\ Good(old, oldCap) /\ Separate /\ Counted /\ Growing

(* The entries with key k put in.                                         *)
Updated(S, k, v) == Without(S, k) \cup {Full(k, v)}

(* What a call that returns does to the entries, and what it answers.      *)
Effect(c) ==
  \/ \E k \in Keys, v \in Values :
       c = Inserting(k, v) /\ Entries' = Updated(Entries, k, v)
       /\ Returns(c, FoundAt(table, cap, k) = {})
  \/ \E k \in Keys :
       c = Asking("index", k) /\ Accessed(k) \in Values
       /\ Entries' = Updated(Entries, k, Accessed(k)) /\ Returns(c, Accessed(k))
  \/ \E k \in Keys :
       c = Asking("erase", k) /\ Entries' = Without(Entries, k)
       /\ Returns(c, FoundAt(table, cap, k) # {})
  \/ \E k \in Keys :
       c = Asking("find", k) /\ Entries' = Entries /\ Returns(c, FindIn(table, cap, k))
  \/ \E op \in {"clear", "move", "renew"} :
       c = Emptying(op) /\ Entries' = {} /\ Returns(c, None)

(* A call returns, all entries being in the table: one that Rehash held up *)
(* or another.                                                             *)
ReturnStep ==
  /\ Entries = Held(table) /\ call' = NoCall
  /\ \E c : call \in {NoCall, c} /\ Effect(c)

(* A step of Rehash, the first included: the entries stay as they are.     *)
MovingStep ==
  /\ Entries' = Entries
  /\ \/ UNCHANGED <<call, done>>
     \/ call = NoCall /\ call' \in Calls /\ done' = NothingReturned

EntriesStep == MovingStep \/ ReturnStep

LEMMA InitInv == Init => IInv
<1> SUFFICES ASSUME Init PROVE IInv
  OBVIOUS
<1>1. FirstCap \in Nat /\ 0 \in Nat
  BY HashMapAssumption
<1>2. Good(table, cap) /\ Good(old, oldCap) /\ FullSlots(table) = {}
  BY <1>1, EmptyTableGood DEF Init
<1>3. TypeOK
  BY <1>1, <1>2 DEF Init, TypeOK, Good, Calls
<1> QED
  BY <1>2, <1>3, FS_EmptySet DEF Init, IInv, Separate, Counted, Growing

(* Outside Rehash the entries are those of the table.                      *)
LEMMA IdleEntries ==
  ASSUME TypeOK, Idle
  PROVE  Entries = Held(table)
BY DEF TypeOK, Idle, Entries, FullSlots, Held

LEMMA AccessedValue ==
  ASSUME TypeOK, Good(table, cap), cap # 0, NEW k \in Keys
  PROVE  Accessed(k) \in Values
<1>1. cap \in Nat \ {0}
  BY DEF TypeOK
<1>2. CASE FoundAt(table, cap, k) = {}
  BY <1>2, HashMapAssumption DEF Accessed, FindIn
<1>3. CASE FoundAt(table, cap, k) # {}
  <2> DEFINE p == CHOOSE q \in FoundAt(table, cap, k) : TRUE
  <2>1. p \in 0..(cap - 1) /\ Holds(table, p, k)
    BY <1>1, <1>3, FoundIffHeld
  <2>2. FindIn(table, cap, k) = table[p].val
    BY <1>3 DEF FindIn
  <2>3. table[p].val \in Values
    BY <2>1, SlotFacts DEF Good, Holds
  <2> QED BY <2>2, <2>3, HashMapAssumption DEF Accessed
<1> QED BY <1>2, <1>3

LEMMA RoomWhenSmaller ==
  ASSUME TypeOK, Good(table, cap), Counted, size < cap, NEW k \in Keys
  PROVE  FoundAt(table, cap, k) # {} \/ FreeSteps(table, cap, k) # {}
<1>1. cap \in Nat \ {0}
  BY DEF TypeOK
<1>2. \E p \in 0..(cap - 1) : ~IsFull(table[p])
  BY <1>1, FreeSlot DEF Counted, Good
<1> QED BY <1>1, <1>2, RoomInTable

LEMMA InsertInternalStep ==
  ASSUME TypeOK, Good(table, cap), Counted, size < cap,
         NEW k \in Keys, NEW v \in Values, InsertInternal(k, v), cap' = cap
  PROVE  /\ Good(table', cap') /\ Counted' /\ size' \in Nat /\ size' <= size + 1
         /\ Held(table') = Without(Held(table), k) \cup {Full(k, v)}
<1>1. cap \in Nat \ {0}
  BY DEF TypeOK
<1>2. FoundAt(table, cap, k) # {} \/ FreeSteps(table, cap, k) # {}
  BY RoomWhenSmaller
<1>3. table' = [table EXCEPT ![SlotFor(table, cap, k)] = Full(k, v)]
  BY DEF InsertInternal
<1> DEFINE p == SlotFor(table, cap, k)
<1>4. /\ Good(table', cap)
      /\ FullSlots(table') = FullSlots(table) \cup {p}
      /\ p \in FullSlots(table) <=> FoundAt(table, cap, k) # {}
      /\ Held(table') = Without(Held(table), k) \cup {Full(k, v)}
  <2>1. Inserted(table, table', cap, k, v)
    BY <1>1, <1>2, <1>3, InsertInTable
  <2> QED BY <2>1 DEF Inserted, p
<1> HIDE DEF p
<1>5. IsFiniteSet(FullSlots(table)) /\ Cardinality(FullSlots(table)) \in Nat
  BY FullSlotsFinite DEF TypeOK
<1>6. Cardinality(FullSlots(table'))
        = IF p \in FullSlots(table) THEN size ELSE size + 1
  BY <1>4, <1>5, FS_AddElement DEF Counted
<1>7. size' = IF FoundAt(table, cap, k) = {} THEN size + 1 ELSE size
  BY DEF InsertInternal
<1>8. Counted' /\ size' \in Nat /\ size' <= size + 1
  BY <1>4, <1>6, <1>7 DEF Counted, TypeOK
<1> QED BY <1>4, <1>8

----------------------------------------------------------------------------
(* Each action keeps the invariant and changes the entries as a map would. *)

(* An insertion with everything else as it was.                           *)
LEMMA InsertKeeps ==
  ASSUME IInv, Idle, ~NeedsRehash, cap > 0, NEW k \in Keys, NEW v \in Values,
         InsertInternal(k, v), UNCHANGED <<cap, oldCap, old, next, call>>
  PROVE  /\ IInv' /\ Entries = Held(table) /\ call = NoCall
         /\ Entries' = Updated(Entries, k, v)
<1>1. size < cap
  BY DEF IInv, TypeOK, NeedsRehash
<1>2. /\ Good(table', cap') /\ Counted' /\ size' \in Nat
      /\ Held(table') = Without(Held(table), k) \cup {Full(k, v)}
  BY <1>1, InsertInternalStep DEF IInv
<1>3. TypeOK'
  BY <1>2 DEF IInv, TypeOK, Good
<1>4. IInv'
  BY <1>2, <1>3 DEF IInv, TypeOK, Idle, Separate, Growing
<1>5. Entries = Held(table)
  BY IdleEntries DEF IInv
<1>6. Entries' = Held(table')
  BY <1>3 DEF IInv, TypeOK, Idle, Entries, FullSlots, Held
<1>7. call = NoCall
  BY DEF IInv, Growing, Idle
<1> QED BY <1>2, <1>4, <1>5, <1>6, <1>7 DEF Updated

LEMMA BeginRehashKeeps ==
  ASSUME IInv, Idle, cap > 0, NEW n \in Nat, n >= cap, NEW then \in Calls,
         then # NoCall => n > cap, BeginRehash(n, then)
  PROVE  IInv' /\ MovingStep
<1>1. cap' = n /\ table' = InitTable(n) /\ size' = 0 /\ oldCap' = cap /\ old' = table
      /\ next' = 0 /\ call' = then /\ done' = NothingReturned
  BY DEF BeginRehash
<1>2. Good(table', cap') /\ FullSlots(table') = {}
  BY <1>1, EmptyTableGood
<1>3. Good(old', oldCap')
  BY <1>1 DEF IInv
<1>4. TypeOK'
  BY <1>1, <1>2, <1>3 DEF IInv, TypeOK, Good
<1>5. Separate'
  BY <1>1, <1>2 DEF Separate, Holds, FullSlots, InitTable
<1>6. Counted' /\ Growing'
  BY <1>1, <1>2, FS_EmptySet DEF IInv, TypeOK, Counted, Growing
<1>7. Entries = Held(table)
  BY IdleEntries DEF IInv
<1>8. Entries' = Held(old')
  BY <1>1, <1>2, <1>4 DEF Entries, Held, TypeOK, FullSlots
<1>9. call = NoCall
  BY DEF IInv, Growing, Idle
<1>10. IInv'
  BY <1>2, <1>3, <1>4, <1>5, <1>6 DEF IInv
<1> QED BY <1>1, <1>7, <1>8, <1>9, <1>10 DEF MovingStep

LEMMA CallKinds ==
  ASSUME NEW k \in Keys, NEW v \in Values
  PROVE  /\ Inserting(k, v) \in Calls /\ Inserting(k, v) # NoCall
         /\ Inserting(k, v).op = "insert"
         /\ Inserting(k, v).key = k /\ Inserting(k, v).val = v
         /\ Asking("index", k) \in Calls /\ Asking("index", k) # NoCall
         /\ Asking("index", k).op = "index" /\ Asking("index", k).key = k
BY DEF Calls, Inserting, Asking, NoCall

LEMMA InsertStep ==
  ASSUME IInv, NEW k \in Keys, NEW v \in Values, Insert(k, v)
  PROVE  IInv' /\ EntriesStep
<1> DEFINE c == Inserting(k, v)
<1>1. c \in Calls /\ c # NoCall /\ c.op = "insert" /\ c.key = k /\ c.val = v
  BY CallKinds
<1>2. Idle /\ cap > 0 /\ InsertOrGrow(c)
  BY DEF Insert, InsertOrGrow
<1> HIDE DEF c
<1>3. CASE NeedsRehash
  <2>1. BeginRehash(cap * 2, c)
    BY <1>2, <1>3 DEF InsertOrGrow
  <2>2. cap * 2 \in Nat /\ cap * 2 > cap /\ cap * 2 >= cap
    BY <1>2 DEF IInv, TypeOK
  <2> QED BY <1>1, <1>2, <2>1, <2>2, BeginRehashKeeps DEF EntriesStep
<1>4. CASE ~NeedsRehash
  <2>1. Complete(c) /\ UNCHANGED <<cap, oldCap, old, next, call>>
    BY <1>2, <1>4 DEF InsertOrGrow
  <2>2. InsertInternal(k, v) /\ Returns(c, FoundAt(table, cap, k) = {})
    BY <1>1, <2>1 DEF Complete
  <2>3. IInv' /\ Entries = Held(table) /\ call = NoCall /\ Entries' = Updated(Entries, k, v)
    BY <1>2, <1>4, <2>1, <2>2, InsertKeeps
  <2>4. Effect(c)
    BY <2>2, <2>3 DEF Effect, c
  <2>5. call' = NoCall
    BY <2>1, <2>3
  <2> QED BY <2>3, <2>4, <2>5 DEF EntriesStep, ReturnStep
<1> QED BY <1>3, <1>4

LEMMA IndexStep ==
  ASSUME IInv, NEW k \in Keys, Index(k)
  PROVE  IInv' /\ EntriesStep
<1> DEFINE c == Asking("index", k)
<1>1. c \in Calls /\ c # NoCall /\ c.op = "index" /\ c.key = k
  BY CallKinds, HashMapAssumption
<1>2. Idle /\ cap > 0 /\ InsertOrGrow(c)
  BY DEF Index, InsertOrGrow
<1> HIDE DEF c
<1>3. CASE NeedsRehash
  <2>1. BeginRehash(cap * 2, c)
    BY <1>2, <1>3 DEF InsertOrGrow
  <2>2. cap * 2 \in Nat /\ cap * 2 > cap /\ cap * 2 >= cap
    BY <1>2 DEF IInv, TypeOK
  <2> QED BY <1>1, <1>2, <2>1, <2>2, BeginRehashKeeps DEF EntriesStep
<1>4. CASE ~NeedsRehash
  <2>1. Complete(c) /\ UNCHANGED <<cap, oldCap, old, next, call>>
    BY <1>2, <1>4 DEF InsertOrGrow
  <2>2. InsertInternal(k, Accessed(k)) /\ Returns(c, Accessed(k))
    BY <1>1, <2>1 DEF Complete
  <2>3. Accessed(k) \in Values
    BY <1>2, AccessedValue DEF IInv, TypeOK
  <2>4. /\ IInv' /\ Entries = Held(table) /\ call = NoCall
        /\ Entries' = Updated(Entries, k, Accessed(k))
    BY <1>2, <1>4, <2>1, <2>2, <2>3, InsertKeeps
  <2>5. Effect(c)
    BY <2>2, <2>3, <2>4 DEF Effect, c
  <2>6. call' = NoCall
    BY <2>1, <2>4
  <2> QED BY <2>4, <2>5, <2>6 DEF EntriesStep, ReturnStep
<1> QED BY <1>3, <1>4

LEMMA MoveSlotStep ==
  ASSUME IInv, MoveSlot
  PROVE  IInv' /\ EntriesStep
<1>1. /\ oldCap # 0 /\ next < oldCap /\ next' = next + 1
      /\ cap' = cap /\ oldCap' = oldCap /\ old' = old /\ call' = call /\ done' = done
  BY DEF MoveSlot, Idle
<1>2. cap \in Nat \ {0} /\ next \in 0..(oldCap - 1) /\ oldCap \in Nat /\ size < cap
      /\ old[next] \in Slots
  BY <1>1 DEF IInv, TypeOK, Growing
<1>3. CASE IsFull(old[next])
  <2> DEFINE k == old[next].key
             v == old[next].val
  <2>1. k \in Keys /\ v \in Values /\ old[next] = Full(k, v)
    BY <1>2, <1>3, SlotFacts
  <2>2. InsertInternal(k, v)
    BY <1>3 DEF MoveSlot
  <2>3. Holds(old, next, k)
    BY <1>3 DEF Holds
  <2> HIDE DEF k, v
  <2>4. /\ Good(table', cap') /\ Counted' /\ size' \in Nat /\ size' <= size + 1
        /\ Held(table') = Without(Held(table), k) \cup {Full(k, v)}
    BY <1>1, <1>2, <2>1, <2>2, InsertInternalStep DEF IInv
  <2>5. TypeOK'
    BY <1>1, <1>2, <2>4 DEF IInv, TypeOK, Good
  <2>6. Growing'
    BY <1>1, <1>2, <2>4 DEF IInv, TypeOK, Growing
  <2>7. Separate'
    <3> SUFFICES ASSUME NEW k2 \in Keys, NEW p \in 0..(cap - 1),
                        NEW q \in (next + 1)..(oldCap - 1),
                        Holds(table', p, k2), Holds(old, q, k2)
                 PROVE  FALSE
      BY <1>1 DEF Separate
    <3>1. q \in next..(oldCap - 1) /\ q \in 0..(oldCap - 1) /\ q # next
      BY <1>2
    <3>2. k2 # k
      BY <1>2, <2>3, <3>1 DEF IInv, Good, Unique
    <3>3. table'[p] \in Held(table') /\ table'[p].key = k2
      BY <2>5, <1>1 DEF Held, FullSlots, Holds, TypeOK
    <3>4. table'[p] \in Held(table)
      BY <2>1, <2>4, <3>2, <3>3, SlotFacts DEF Without
    <3>5. PICK r \in 0..(cap - 1) : Holds(table, r, k2)
      BY <3>3, <3>4 DEF Held, FullSlots, Holds, IInv, TypeOK
    <3> QED BY <3>1, <3>5 DEF IInv, Separate
  <2>8. Without(Held(table), k) = Held(table)
    <3>1. ASSUME NEW p \in FullSlots(table), table[p].key = k PROVE FALSE
      <4>1. p \in 0..(cap - 1) /\ Holds(table, p, k)
        BY <3>1 DEF FullSlots, Holds, IInv, TypeOK
      <4> QED BY <1>2, <2>1, <2>3, <4>1 DEF IInv, Separate
    <3> QED BY <3>1 DEF Held, Without
  <2>9. \A q \in FullSlots(old) : q >= next <=> q = next \/ q >= next + 1
    BY <1>2 DEF FullSlots, IInv, TypeOK
  <2>10. next \in FullSlots(old)
    BY <1>2, <1>3 DEF FullSlots, IInv, TypeOK
  <2>11. Entries' = Entries
    BY <1>1, <1>2, <2>1, <2>4, <2>8, <2>9, <2>10 DEF Entries, Held
  <2> QED BY <1>1, <2>4, <2>5, <2>6, <2>7, <2>11 DEF IInv, EntriesStep, MovingStep
<1>4. CASE ~IsFull(old[next])
  <2>1. table' = table /\ size' = size
    BY <1>4 DEF MoveSlot
  <2>2. TypeOK' /\ Growing' /\ Counted'
    BY <1>1, <1>2, <2>1 DEF IInv, TypeOK, Growing, Counted
  <2>3. Separate'
    BY <1>1, <1>2, <2>1 DEF IInv, Separate
  <2>4. \A q \in FullSlots(old) : q >= next <=> q >= next + 1
    BY <1>2, <1>4 DEF FullSlots, IInv, TypeOK
  <2>5. Entries' = Entries
    BY <1>1, <2>1, <2>4 DEF Entries
  <2> QED BY <1>1, <2>1, <2>2, <2>3, <2>5 DEF IInv, EntriesStep, MovingStep
<1> QED BY <1>3, <1>4

LEMMA EndRehashStep ==
  ASSUME IInv, EndRehash
  PROVE  IInv' /\ EntriesStep
<1>1. /\ oldCap # 0 /\ next = oldCap /\ cap' = cap
      /\ oldCap' = 0 /\ old' = InitTable(0) /\ next' = 0 /\ call' = NoCall
  BY DEF EndRehash, Idle
<1>2. Good(old', oldCap')
  BY <1>1, EmptyTableGood
<1>3. Entries = Held(table)
  BY <1>1 DEF IInv, TypeOK, Entries, FullSlots, Held
<1>4. Separate' /\ Growing'
  BY <1>1 DEF IInv, TypeOK, Separate, Growing
<1>5. ASSUME NEW k \in Keys, NEW v \in Values, InsertInternal(k, v), call # NoCall
      PROVE  IInv' /\ Entries' = Updated(Entries, k, v)
  <2>1. size < cap
    BY <1>1, <1>5 DEF IInv, TypeOK, Growing
  <2>2. /\ Good(table', cap') /\ Counted' /\ size' \in Nat
        /\ Held(table') = Without(Held(table), k) \cup {Full(k, v)}
    BY <1>1, <1>5, <2>1, InsertInternalStep DEF IInv
  <2>3. TypeOK'
    BY <1>1, <1>2, <2>2 DEF IInv, TypeOK, Good, Calls
  <2>4. Entries' = Held(table')
    BY <1>1, <2>3 DEF TypeOK, Entries, FullSlots, Held
  <2> QED BY <1>2, <1>3, <1>4, <2>2, <2>3, <2>4 DEF IInv, Updated
<1>6. ASSUME NEW k \in Keys, NEW v \in Values, call = Inserting(k, v)
      PROVE  IInv' /\ EntriesStep
  <2>1. call # NoCall /\ call.op = "insert" /\ call.key = k /\ call.val = v
    BY <1>6, CallKinds
  <2>2. InsertInternal(k, v) /\ Returns(call, FoundAt(table, cap, k) = {})
    BY <2>1 DEF EndRehash, Complete
  <2>3. IInv' /\ Entries' = Updated(Entries, k, v)
    BY <1>5, <2>1, <2>2
  <2>4. Effect(call)
    BY <1>6, <2>2, <2>3 DEF Effect
  <2> QED BY <1>1, <1>3, <2>3, <2>4 DEF EntriesStep, ReturnStep
<1>7. ASSUME NEW k \in Keys, call = Asking("index", k)
      PROVE  IInv' /\ EntriesStep
  <2>1. call # NoCall /\ call.op = "index" /\ call.key = k
    BY <1>7, CallKinds, HashMapAssumption
  <2>2. InsertInternal(k, Accessed(k)) /\ Returns(call, Accessed(k))
    BY <2>1 DEF EndRehash, Complete
  <2>3. Accessed(k) \in Values
    BY <1>1, <2>1, AccessedValue DEF IInv, TypeOK
  <2>4. IInv' /\ Entries' = Updated(Entries, k, Accessed(k))
    BY <1>5, <2>1, <2>2, <2>3
  <2>5. Effect(call)
    BY <1>7, <2>2, <2>3, <2>4 DEF Effect
  <2> QED BY <1>1, <1>3, <2>4, <2>5 DEF EntriesStep, ReturnStep
<1>8. CASE call = NoCall
  <2>1. table' = table /\ size' = size /\ done' = done
    BY <1>8 DEF EndRehash, Complete, NoCall
  <2>2. TypeOK'
    BY <1>1, <1>2, <2>1 DEF IInv, TypeOK, Good, Calls
  <2>3. Entries' = Held(table)
    BY <1>1, <2>1, <2>2 DEF TypeOK, Entries, FullSlots, Held
  <2>4. IInv'
    BY <1>1, <1>2, <1>4, <2>1, <2>2 DEF IInv, Counted
  <2> QED BY <1>1, <1>3, <1>8, <2>1, <2>3, <2>4 DEF EntriesStep, MovingStep
<1> QED BY <1>6, <1>7, <1>8 DEF IInv, TypeOK, Calls, Inserting, Asking

LEMMA EraseStep ==
  ASSUME IInv, NEW k \in Keys, Erase(k)
  PROVE  IInv' /\ EntriesStep
<1>a. Idle /\ Returns(Asking("erase", k), FoundAt(table, cap, k) # {}) /\ call = NoCall
      /\ cap' = cap /\ oldCap' = oldCap /\ old' = old /\ next' = next /\ call' = call
  BY DEF Erase, IInv, Growing, Idle
<1>b. Entries = Held(table)
  BY <1>a, IdleEntries DEF IInv
<1>c. ASSUME IInv', Entries' = Without(Entries, k)
      PROVE  IInv' /\ EntriesStep
  <2>1. Effect(Asking("erase", k))
    BY <1>a, <1>c DEF Effect
  <2> QED BY <1>a, <1>b, <1>c, <2>1 DEF EntriesStep, ReturnStep
<1>d. CASE FoundAt(table, cap, k) = {}
  <2>1. table' = table /\ size' = size
    BY <1>d DEF Erase
  <2>2. IInv'
    BY <1>a, <2>1 DEF IInv, TypeOK, Separate, Counted, Growing
  <2>3. Entries' = Entries
    BY <1>a, <2>1 DEF Entries
  <2>4. \A e \in Held(table) : e.key # k
    BY <1>d, FoundIffHeld DEF Held, FullSlots, Holds, IInv, TypeOK
  <2>5. Entries' = Without(Entries, k)
    BY <1>b, <2>3, <2>4 DEF Without
  <2> QED BY <1>c, <2>2, <2>5
<1> SUFFICES ASSUME FoundAt(table, cap, k) # {} PROVE IInv' /\ EntriesStep
  BY <1>d
<1> DEFINE p == CHOOSE q \in FoundAt(table, cap, k) : TRUE
<1>1. p \in FoundAt(table, cap, k) /\ table' = [table EXCEPT ![p] = Deleted]
  BY DEF Erase
<1>2. /\ oldCap = 0 /\ size' = size - 1
      /\ cap' = cap /\ oldCap' = oldCap /\ old' = old /\ next' = next /\ call' = call
  BY DEF Erase, Idle
<1> HIDE DEF p
<1>3. cap \in Nat \ {0}
  BY <1>1, FoundInCap DEF IInv, TypeOK
<1>4. Erased(table, table', cap, k, p)
  BY <1>1, <1>3, EraseFromTable DEF IInv
<1>5. IsFiniteSet(FullSlots(table)) /\ Cardinality(FullSlots(table)) \in Nat
  BY FullSlotsFinite DEF IInv, TypeOK
<1>6. FullSlots(table) # {}
  BY <1>4 DEF Erased
<1>7. Cardinality(FullSlots(table')) = Cardinality(FullSlots(table)) - 1
  BY <1>4, <1>5, FS_RemoveElement DEF Erased
<1>8. Cardinality(FullSlots(table)) # 0
  BY <1>5, <1>6, FS_EmptySet
<1>9. Counted' /\ size' \in Nat
  BY <1>2, <1>5, <1>7, <1>8 DEF IInv, Counted
<1>10. TypeOK' /\ Good(table', cap')
  BY <1>2, <1>4, <1>9 DEF IInv, TypeOK, Good, Erased
<1>11. IInv'
  BY <1>2, <1>9, <1>10 DEF IInv, TypeOK, Separate, Growing
<1>12. Entries = Held(table) /\ Entries' = Held(table')
  BY <1>2, <1>10 DEF IInv, TypeOK, Entries, FullSlots, Held
<1> QED BY <1>4, <1>11, <1>12, <1>c DEF Erased

LEMMA FindStep ==
  ASSUME IInv, NEW k \in Keys, Find(k)
  PROVE  IInv' /\ EntriesStep
<1>1. /\ Idle /\ Returns(Asking("find", k), FindIn(table, cap, k))
      /\ UNCHANGED <<cap, table, size, oldCap, old, next, call>>
  BY DEF Find
<1>2. IInv'
  BY <1>1 DEF IInv, TypeOK, Separate, Counted, Growing
<1>3. Entries' = Entries /\ Entries = Held(table)
  BY <1>1, IdleEntries DEF IInv, Entries
<1>4. Effect(Asking("find", k))
  BY <1>1, <1>3 DEF Effect
<1>5. call = NoCall /\ call' = NoCall
  BY <1>1 DEF IInv, Growing, Idle
<1> QED BY <1>2, <1>3, <1>4, <1>5 DEF EntriesStep, ReturnStep

(* The table is replaced by one without entries.                           *)
LEMMA EmptiedStep ==
  ASSUME IInv, Idle, cap' \in Nat, Good(table', cap'), FullSlots(table') = {}, size' = 0,
         UNCHANGED <<oldCap, old, next, call>>,
         NEW op \in {"clear", "move", "renew"}, Returns(Emptying(op), None)
  PROVE  IInv' /\ EntriesStep
<1>0. oldCap = 0 /\ oldCap' = oldCap /\ old' = old /\ next' = next /\ call' = call
  BY DEF Idle
<1>1. table' \in [0..(cap' - 1) -> Slots]
  BY DEF Good
<1>2. oldCap' <= cap' /\ next' \in 0..oldCap' /\ old' \in [0..(oldCap' - 1) -> Slots]
  BY <1>0 DEF IInv, TypeOK
<1>3. call' = NoCall
  BY <1>0 DEF IInv, Growing
<1>4. TypeOK'
  <2>1. oldCap' \in Nat /\ size' \in Nat
    BY <1>0
  <2>2. call' \in Calls
    BY <1>3 DEF Calls
  <2> QED BY <1>1, <1>2, <2>1, <2>2 DEF TypeOK
<1>5. Separate'
  BY <1>0, <1>2 DEF Separate
<1>6. Growing'
  BY <1>0, <1>3 DEF Growing
<1>7. Counted'
  BY FS_EmptySet DEF Counted
<1>8. FullSlots(old') = {}
  BY <1>0 DEF IInv, TypeOK, FullSlots
<1>9. Entries' = {}
  BY <1>8 DEF Entries
<1>10. Entries = Held(table)
  BY IdleEntries DEF IInv
<1>11. Effect(Emptying(op))
  BY <1>9 DEF Effect
<1>12. IInv'
  BY <1>0, <1>4, <1>5, <1>6, <1>7 DEF IInv
<1> QED BY <1>0, <1>3, <1>10, <1>11, <1>12 DEF EntriesStep, ReturnStep

LEMMA NextStep ==
  ASSUME IInv, Next
  PROVE  IInv' /\ EntriesStep
<1>1. ASSUME NEW k \in Keys, Index(k) \/ Erase(k) \/ Find(k) \/ \E v \in Values : Insert(k, v)
      PROVE  IInv' /\ EntriesStep
  BY <1>1, IndexStep, EraseStep, FindStep, InsertStep
<1>2. CASE MoveSlot \/ EndRehash
  BY <1>2, MoveSlotStep, EndRehashStep
<1>3. CASE Clear
  <2>1. Good(table', cap) /\ FullSlots(table') = {}
    BY <1>3, ClearTable DEF Clear, IInv, TypeOK
  <2> QED BY <1>3, <2>1, EmptiedStep DEF Clear, IInv, TypeOK
<1>4. CASE MoveFrom
  <2>1. Good(table', cap') /\ FullSlots(table') = {} /\ cap' \in Nat
    BY <1>4, EmptyTableGood DEF MoveFrom
  <2> QED BY <1>4, <2>1, EmptiedStep DEF MoveFrom
<1>5. CASE Renew
  <2>1. Good(table', cap') /\ FullSlots(table') = {} /\ cap' \in Nat
    BY <1>5, EmptyTableGood, HashMapAssumption DEF Renew
  <2> QED BY <1>5, <2>1, EmptiedStep DEF Renew
<1>6. CASE Copy
  <2>1. Idle /\ cap > 0 /\ cap \in Nat /\ cap >= cap /\ NoCall \in Calls /\ BeginRehash(cap, NoCall)
    BY <1>6 DEF Copy, IInv, TypeOK, Calls
  <2> QED BY <2>1, BeginRehashKeeps DEF EntriesStep
<1>7. ASSUME NEW count \in 0..MaxCap, Reserve(count)
      PROVE  IInv' /\ EntriesStep
  <2>1. (count * 8 + 6) \div 7 \in Int
    BY HashMapAssumption
  <2>2. PICK n \in 0..MaxCap : cap < n /\ BeginRehash(n, NoCall)
    BY <1>7, <2>1, HashMapAssumption DEF Reserve, IInv, TypeOK
  <2>3. Idle /\ cap > 0 /\ n \in Nat /\ n >= cap /\ NoCall \in Calls
    BY <1>7, <2>2, HashMapAssumption DEF Reserve, IInv, TypeOK, Calls
  <2> QED BY <2>2, <2>3, BeginRehashKeeps DEF EntriesStep
<1> QED BY <1>1, <1>2, <1>3, <1>4, <1>5, <1>6, <1>7 DEF Next

LEMMA Invariance == Spec => []IInv
<1>1. IInv /\ [Next]_vars => IInv'
  <2> SUFFICES ASSUME IInv, [Next]_vars PROVE IInv'
    OBVIOUS
  <2>1. CASE Next
    BY <2>1, NextStep
  <2>2. CASE UNCHANGED vars
    BY <2>2 DEF vars, IInv, TypeOK, Separate, Counted, Growing
  <2> QED BY <2>1, <2>2
<1> QED BY <1>1, InitInv, PTL DEF Spec

(* The types of the two tables, the size and the progress of Rehash.       *)
THEOREM HashMapTyped == Spec => []TypeOK
<1>1. IInv => TypeOK
  BY DEF IInv
<1> QED BY <1>1, Invariance, PTL

----------------------------------------------------------------------------
(* The contents as a function of the entries.                              *)

(* Entries in which every key occurs once.                                 *)
Functional(S) ==
  /\ \A e \in S : e.key \in Keys /\ e.val \in Values /\ e = Full(e.key, e.val)
  /\ \A e, f \in S : e.key = f.key => e = f

MapOf(S) ==
  [k \in Keys |-> IF \E e \in S : e.key = k THEN (CHOOSE e \in S : e.key = k).val ELSE None]

LEMMA EntriesFunctional ==
  ASSUME IInv
  PROVE  Functional(Entries)
<1>1. \A e \in Entries : \/ \E p \in 0..(cap - 1) : e = table[p] /\ IsFull(e)
                         \/ \E q \in next..(oldCap - 1) : e = old[q] /\ IsFull(e)
  BY DEF IInv, TypeOK, Entries, FullSlots
<1>2. \A p \in 0..(cap - 1) : table[p] \in Slots
  BY DEF IInv, TypeOK
<1>3. \A q \in next..(oldCap - 1) : q \in 0..(oldCap - 1) /\ old[q] \in Slots
  BY DEF IInv, TypeOK
<1>4. \A e \in Entries : e.key \in Keys /\ e.val \in Values /\ e = Full(e.key, e.val)
  BY <1>1, <1>2, <1>3, SlotFacts
<1>5. ASSUME NEW e \in Entries, NEW f \in Entries, e.key = f.key
      PROVE  e = f
  <2>1. PICK k \in Keys : e.key = k /\ f.key = k
    BY <1>4, <1>5
  <2>2. CASE \E p \in 0..(cap - 1) : e = table[p] /\ IsFull(e)
    <3>1. PICK p \in 0..(cap - 1) : e = table[p] /\ Holds(table, p, k)
      BY <2>1, <2>2 DEF Holds
    <3>2. CASE \E p2 \in 0..(cap - 1) : f = table[p2] /\ IsFull(f)
      BY <2>1, <3>1, <3>2 DEF Holds, IInv, Good, Unique
    <3>3. CASE \E q \in next..(oldCap - 1) : f = old[q] /\ IsFull(f)
      BY <2>1, <3>1, <3>3 DEF Holds, IInv, Separate
    <3> QED BY <1>1, <3>2, <3>3
  <2>3. CASE \E q \in next..(oldCap - 1) : e = old[q] /\ IsFull(e)
    <3>1. PICK q \in next..(oldCap - 1) : e = old[q] /\ Holds(old, q, k)
      BY <2>1, <2>3 DEF Holds
    <3>2. CASE \E p \in 0..(cap - 1) : f = table[p] /\ IsFull(f)
      BY <2>1, <3>1, <3>2 DEF Holds, IInv, Separate
    <3>3. CASE \E q2 \in next..(oldCap - 1) : f = old[q2] /\ IsFull(f)
      BY <1>3, <2>1, <3>1, <3>3 DEF Holds, IInv, Good, Unique
    <3> QED BY <1>1, <3>2, <3>3
  <2> QED BY <1>1, <2>2, <2>3
<1> QED BY <1>4, <1>5 DEF Functional

LEMMA MapOfProperty ==
  ASSUME NEW S, Functional(S), NEW k \in Keys
  PROVE  /\ \A e \in S : e.key = k => MapOf(S)[k] = e.val
         /\ (\A e \in S : e.key # k) => MapOf(S)[k] = None
         /\ MapOf(S)[k] # None => \E e \in S : e.key = k
<1>1. ASSUME NEW e \in S, e.key = k
      PROVE  MapOf(S)[k] = e.val
  <2> DEFINE f == CHOOSE g \in S : g.key = k
  <2>1. f \in S /\ f.key = k
    BY <1>1
  <2>2. f = e
    BY <1>1, <2>1 DEF Functional
  <2>3. MapOf(S)[k] = f.val
    BY <1>1 DEF MapOf
  <2> QED BY <2>2, <2>3
<1>2. ASSUME \A e \in S : e.key # k
      PROVE  MapOf(S)[k] = None
  BY <1>2 DEF MapOf
<1> QED BY <1>1, <1>2

LEMMA ContentsOfEntries == Contents = MapOf(Entries)
BY DEF Contents, MapOf

(* Probing a table that has all entries tells what they are.              *)
LEMMA FindIsContents ==
  ASSUME IInv, Entries = Held(table), NEW k \in Keys
  PROVE  /\ FindIn(table, cap, k) = Contents[k]
         /\ FoundAt(table, cap, k) = {} <=> Contents[k] = None
<1>1. Functional(Entries)
  BY EntriesFunctional
<1>2. FoundAt(table, cap, k) = {p \in 0..(cap - 1) : Holds(table, p, k)}
  <2>1. CASE cap = 0
    BY <2>1 DEF FoundAt, Visited
  <2>2. CASE cap # 0
    BY <2>2, FoundIffHeld DEF IInv, TypeOK
  <2> QED BY <2>1, <2>2
<1>3. CASE FoundAt(table, cap, k) = {}
  <2>1. \A e \in Entries : e.key # k
    BY <1>2, <1>3 DEF Held, FullSlots, Holds, IInv, TypeOK
  <2>2. Contents[k] = None
    BY <1>1, <2>1, MapOfProperty, ContentsOfEntries
  <2> QED BY <1>3, <2>2 DEF FindIn
<1>4. CASE FoundAt(table, cap, k) # {}
  <2> DEFINE p == CHOOSE q \in FoundAt(table, cap, k) : TRUE
  <2>1. p \in 0..(cap - 1) /\ Holds(table, p, k)
    BY <1>2, <1>4
  <2>2. FindIn(table, cap, k) = table[p].val
    BY <1>4 DEF FindIn
  <2> HIDE DEF p
  <2>3. table[p] \in Entries /\ table[p].key = k
    BY <2>1 DEF Held, FullSlots, Holds, IInv, TypeOK
  <2>4. Contents[k] = table[p].val /\ table[p].val \in Values
    BY <1>1, <2>3, MapOfProperty, ContentsOfEntries DEF Functional
  <2> QED BY <1>4, <2>2, <2>4, HashMapAssumption
<1> QED BY <1>3, <1>4

(* Find and the code that probes like it see exactly what was put in.      *)
THEOREM LookupIsExact == Spec => []LookupExact
<1>1. IInv => LookupExact
  <2> SUFFICES ASSUME IInv, Idle, NEW k \in Keys
               PROVE  (IF cap = 0 THEN None ELSE FindIn(table, cap, k)) = Contents[k]
    BY DEF LookupExact
  <2>1. FindIn(table, cap, k) = Contents[k]
    BY IdleEntries, FindIsContents DEF IInv
  <2>2. cap = 0 => FindIn(table, cap, k) = None
    BY DEF FindIn, FoundAt, Visited
  <2> QED BY <2>1, <2>2
<1> QED BY <1>1, Invariance, PTL

(* The VX_DCHECK(insert_idx < capacity_) of every insertion holds.         *)
THEOREM RoomForInsertions == Spec => []InsertHasRoom
<1>1. IInv => InsertHasRoom
  <2> SUFFICES ASSUME IInv PROVE InsertHasRoom
    OBVIOUS
  <2>1. ASSUME Idle, cap > 0, ~NeedsRehash, NEW k \in Keys
        PROVE  FoundAt(table, cap, k) # {} \/ FreeSteps(table, cap, k) # {}
    <3>1. size < cap
      BY <2>1 DEF IInv, TypeOK, NeedsRehash
    <3> QED BY <3>1, RoomWhenSmaller DEF IInv
  <2>2. ASSUME ~Idle, next < oldCap, IsFull(old[next])
        PROVE  \/ FoundAt(table, cap, old[next].key) # {}
               \/ FreeSteps(table, cap, old[next].key) # {}
    <3>1. size < cap /\ old[next] \in Slots
      BY <2>2 DEF IInv, TypeOK, Growing, Idle
    <3>2. PICK k \in Keys : old[next].key = k
      BY <2>2, <3>1, SlotFacts
    <3> QED BY <3>1, <3>2, RoomWhenSmaller DEF IInv
  <2>3. ASSUME ~Idle, next = oldCap, call # NoCall
        PROVE  FoundAt(table, cap, call.key) # {} \/ FreeSteps(table, cap, call.key) # {}
    <3>1. size < cap
      BY <2>3 DEF IInv, TypeOK, Growing, Idle
    <3>2. PICK k \in Keys : call.key = k
      BY <2>3 DEF IInv, TypeOK, Calls
    <3> QED BY <3>1, <3>2, RoomWhenSmaller DEF IInv
  <2> QED BY <2>1, <2>2, <2>3 DEF InsertHasRoom
<1> QED BY <1>1, Invariance, PTL

(* size() counts the keys that are there.                                  *)
THEOREM SizeIsCount == Spec => []SizeCounts
<1>1. IInv => SizeCounts
  <2> SUFFICES ASSUME IInv, Idle
               PROVE  size = Cardinality({k \in Keys : Contents[k] # None})
    BY DEF SizeCounts
  <2> DEFINE K == {k \in Keys : Contents[k] # None}
             f == [p \in FullSlots(table) |-> table[p].key]
  <2>1. Entries = Held(table) /\ Functional(Entries)
    BY IdleEntries, EntriesFunctional DEF IInv
  <2>2. IsFiniteSet(FullSlots(table))
    BY FullSlotsFinite DEF IInv, TypeOK
  <2>3. ASSUME NEW p \in FullSlots(table)
        PROVE  f[p] \in K
    <3>1. table[p] \in Entries
      BY <2>1 DEF Held
    <3>2. f[p] \in Keys /\ table[p].val \in Values
      BY <2>1, <3>1 DEF Functional
    <3>3. Contents[f[p]] = table[p].val
      BY <2>1, <3>1, <3>2, MapOfProperty, ContentsOfEntries
    <3> QED BY <3>2, <3>3, HashMapAssumption
  <2>4. ASSUME NEW p \in FullSlots(table), NEW q \in FullSlots(table), f[p] = f[q]
        PROVE  p = q
    <3>1. p \in 0..(cap - 1) /\ q \in 0..(cap - 1) /\ IsFull(table[p]) /\ IsFull(table[q])
      BY DEF FullSlots, IInv, TypeOK
    <3>2. f[p] \in Keys
      BY <2>3
    <3> QED BY <2>4, <3>1, <3>2 DEF IInv, Good, Unique, Holds
  <2>5. ASSUME NEW k \in K
        PROVE  \E p \in FullSlots(table) : f[p] = k
    <3>1. PICK e \in Entries : e.key = k
      BY <2>1, MapOfProperty, ContentsOfEntries
    <3> QED BY <2>1, <3>1 DEF Held
  <2> HIDE DEF K
  <2>6. f \in Bijection(FullSlots(table), K)
    <3>1. f \in [FullSlots(table) -> K]
      BY <2>3
    <3> HIDE DEF f
    <3> QED BY <3>1, <2>4, <2>5, Fun_IsBij
  <2>7. Cardinality(K) = Cardinality(FullSlots(table))
    BY <2>2, <2>6, FS_Bijection DEF ExistsBijection
  <2> QED BY <2>7 DEF K, IInv, Counted
<1> QED BY <1>1, Invariance, PTL

(* What the entries become is what the map becomes.                        *)
LEMMA MapAfterwards ==
  ASSUME IInv, IInv'
  PROVE  /\ Entries' = Entries => Contents' = Contents
         /\ Entries' = {} => Contents' = [k \in Keys |-> None]
         /\ \A k \in Keys :
              /\ Entries' = Without(Entries, k) => Contents' = [Contents EXCEPT ![k] = None]
              /\ \A v \in Values : Entries' = Updated(Entries, k, v)
                                    => Contents' = [Contents EXCEPT ![k] = v]
<1>1. Functional(Entries)
  BY EntriesFunctional
<1>2. Functional(Entries')
  <2>1. IInv' => Functional(Entries)'
    BY EntriesFunctional, PTL
  <2> QED BY <2>1 DEF Functional
<1>3. Contents = MapOf(Entries) /\ Contents' = MapOf(Entries')
  BY DEF Contents, MapOf
<1>4. ASSUME NEW k \in Keys, Entries' = Without(Entries, k)
      PROVE  Contents' = [Contents EXCEPT ![k] = None]
  <2>1. \A j \in Keys : Contents'[j] = IF j = k THEN None ELSE Contents[j]
    BY <1>1, <1>2, <1>3, <1>4, MapOfProperty DEF Without
  <2> QED BY <1>3, <2>1 DEF MapOf
<1>5. ASSUME NEW k \in Keys, NEW v \in Values, Entries' = Updated(Entries, k, v)
      PROVE  Contents' = [Contents EXCEPT ![k] = v]
  <2>1. \A j \in Keys : Contents'[j] = IF j = k THEN v ELSE Contents[j]
    BY <1>1, <1>2, <1>3, <1>5, MapOfProperty, SlotFacts DEF Without, Updated
  <2> QED BY <1>3, <2>1 DEF MapOf
<1>6. Entries' = {} => Contents' = [k \in Keys |-> None]
  BY <1>3 DEF MapOf
<1> QED BY <1>3, <1>4, <1>5, <1>6

(* A call that returns does to the map what the map promises.              *)
LEMMA EffectIsPerform ==
  ASSUME IInv, IInv', Entries = Held(table), NEW c, Effect(c)
  PROVE  c \in Abstract!Calls /\ Abstract!Perform(c)
<1>1. ASSUME NEW k \in Keys, NEW v \in Values, c = Inserting(k, v),
             Entries' = Updated(Entries, k, v), Returns(c, FoundAt(table, cap, k) = {})
      PROVE  c \in Abstract!Calls /\ Abstract!Perform(c)
  <2>1. c.op = "insert" /\ c.key = k /\ c.val = v /\ c \in Abstract!Calls
    BY <1>1 DEF Inserting, Abstract!Calls
  <2>2. Contents' = [Contents EXCEPT ![k] = v]
    BY <1>1, MapAfterwards
  <2>3. (FoundAt(table, cap, k) = {}) = (Contents[k] = None)
    BY FindIsContents
  <2>4. done' = <<c, Contents[k] = None>>
    BY <1>1, <2>3 DEF Returns
  <2>5. Abstract!Reply(c, [Contents EXCEPT ![k] = v], Contents[k] = None)
    BY <2>2, <2>4 DEF Abstract!Reply
  <2> QED BY <2>1, <2>5 DEF Abstract!Perform
<1>2. ASSUME NEW k \in Keys, c = Asking("index", k), Accessed(k) \in Values,
             Entries' = Updated(Entries, k, Accessed(k)), Returns(c, Accessed(k))
      PROVE  c \in Abstract!Calls /\ Abstract!Perform(c)
  <2>1. c.op = "index" /\ c.key = k /\ c \in Abstract!Calls
    BY <1>2 DEF Asking, Abstract!Calls
  <2>2. Contents' = [Contents EXCEPT ![k] = Accessed(k)]
    BY <1>2, MapAfterwards
  <2>3. Accessed(k) = Abstract!Present(k)
    BY FindIsContents DEF Accessed, Abstract!Present
  <2>4. Abstract!Reply(c, [Contents EXCEPT ![k] = Abstract!Present(k)], Abstract!Present(k))
    BY <1>2, <2>2, <2>3 DEF Abstract!Reply, Returns
  <2> QED BY <2>1, <2>4 DEF Abstract!Perform
<1>3. ASSUME NEW k \in Keys, c = Asking("erase", k),
             Entries' = Without(Entries, k), Returns(c, FoundAt(table, cap, k) # {})
      PROVE  c \in Abstract!Calls /\ Abstract!Perform(c)
  <2>1. c.op = "erase" /\ c.key = k /\ c \in Abstract!Calls
    BY <1>3 DEF Asking, Abstract!Calls
  <2>2. Contents' = [Contents EXCEPT ![k] = None]
    BY <1>3, MapAfterwards
  <2>3. (FoundAt(table, cap, k) # {}) = (Contents[k] # None)
    BY FindIsContents
  <2>4. done' = <<c, Contents[k] # None>>
    BY <1>3, <2>3 DEF Returns
  <2>5. Abstract!Reply(c, [Contents EXCEPT ![k] = None], Contents[k] # None)
    BY <2>2, <2>4 DEF Abstract!Reply
  <2> QED BY <2>1, <2>5 DEF Abstract!Perform
<1>4. ASSUME NEW k \in Keys, c = Asking("find", k),
             Entries' = Entries, Returns(c, FindIn(table, cap, k))
      PROVE  c \in Abstract!Calls /\ Abstract!Perform(c)
  <2>1. c.op = "find" /\ c.key = k /\ c \in Abstract!Calls
    BY <1>4 DEF Asking, Abstract!Calls
  <2>2. Contents' = Contents /\ FindIn(table, cap, k) = Contents[k]
    BY <1>4, MapAfterwards, FindIsContents
  <2>3. Abstract!Reply(c, Contents, Contents[k])
    BY <1>4, <2>2 DEF Abstract!Reply, Returns
  <2> QED BY <2>1, <2>3 DEF Abstract!Perform
<1>5. ASSUME NEW op \in {"clear", "move", "renew"}, c = Emptying(op),
             Entries' = {}, Returns(c, None)
      PROVE  c \in Abstract!Calls /\ Abstract!Perform(c)
  <2>1. c.op = op /\ c \in Abstract!Calls
    BY <1>5 DEF Emptying, Abstract!Calls
  <2>2. Contents' = [k \in Keys |-> None]
    BY <1>5, MapAfterwards
  <2>3. Abstract!Reply(c, [k \in Keys |-> None], None)
    BY <1>5, <2>2 DEF Abstract!Reply, Returns
  <2> QED BY <2>1, <2>3 DEF Abstract!Perform
<1> QED BY <1>1, <1>2, <1>3, <1>4, <1>5 DEF Effect

(* Whatever its probes, tombstones and growth do, the table behaves as a   *)
(* map: HashMap implements KeyValueMap. Every call, also one that Rehash   *)
(* holds up, has the one effect that was asked for, when it returns, with  *)
(* the answer a map gives; no step of Rehash changes what is stored.       *)
THEOREM HashMapIsMap == Spec => IsMap
<1>1. Init => Abstract!Init
  <2> SUFFICES ASSUME Init PROVE Contents = [k \in Keys |-> None]
    BY DEF Init, Abstract!Init, Abstract!NoCall, NoCall, NothingReturned, Abstract!Nothing
  <2>1. Entries = {}
    BY HashMapAssumption, SlotFacts DEF Init, Entries, FullSlots, InitTable
  <2> QED BY <2>1 DEF Contents
<1>2. IInv /\ IInv' /\ EntriesStep => [Abstract!Next]_(Abstract!vars)
  <2> SUFFICES ASSUME IInv, IInv', EntriesStep
               PROVE  Abstract!Next \/ UNCHANGED Abstract!vars
    OBVIOUS
  <2>1. CASE MovingStep
    <3>1. Contents' = Contents
      BY <2>1, MapAfterwards DEF MovingStep
    <3>2. CASE UNCHANGED <<call, done>>
      BY <3>1, <3>2 DEF Abstract!vars
    <3>3. CASE call = NoCall /\ call' \in Calls /\ done' = NothingReturned
      <4>1. call' \in Abstract!Calls \cup {Abstract!NoCall}
        BY <3>3 DEF Calls, Abstract!Calls, NoCall, Abstract!NoCall
      <4>2. Abstract!Begin(call')
        BY <3>1, <3>3 DEF Abstract!Begin, Abstract!NoCall, NoCall, NothingReturned, Abstract!Nothing
      <4> QED BY <4>1, <4>2 DEF Abstract!Next
    <3> QED BY <2>1, <3>2, <3>3 DEF MovingStep
  <2>2. CASE ReturnStep
    <3>1. PICK c : call \in {NoCall, c} /\ Effect(c)
      BY <2>2 DEF ReturnStep
    <3>2. c \in Abstract!Calls /\ Abstract!Perform(c) /\ call' = NoCall
      BY <2>2, <3>1, EffectIsPerform DEF ReturnStep
    <3>3. CASE call = NoCall
      <4>1. Abstract!AtOnce(c)
        BY <3>2, <3>3 DEF Abstract!AtOnce, Abstract!NoCall, NoCall
      <4> QED BY <3>2, <4>1 DEF Abstract!Next
    <3>4. CASE call = c /\ call # NoCall
      <4>1. Abstract!Finish
        BY <3>2, <3>4 DEF Abstract!Finish, Abstract!NoCall, NoCall
      <4> QED BY <4>1 DEF Abstract!Next
    <3> QED BY <3>1, <3>3, <3>4
  <2> QED BY <2>1, <2>2 DEF EntriesStep
<1>3. IInv /\ IInv' /\ [Next]_vars => [Abstract!Next]_(Abstract!vars)
  <2>1. ASSUME UNCHANGED vars PROVE UNCHANGED Abstract!vars
    BY <2>1 DEF vars, Contents, Entries, FullSlots, Abstract!vars
  <2> QED BY <1>2, <2>1, NextStep
<1> QED BY <1>1, <1>3, Invariance, PTL DEF Spec, IsMap, Abstract!Spec
=============================================================================
