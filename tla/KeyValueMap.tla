---------------------------- MODULE KeyValueMap ----------------------------
(***************************************************************************)
(* What vx::HashMap promises its users: a partial function from keys to    *)
(* values. A call may take time, but its effect is there at once, when it  *)
(* returns, and is the one asked for; nothing else changes the map.        *)
(***************************************************************************)
CONSTANTS Keys, Values, Default, None

VARIABLES
  map,    \* what is stored, None for a key that is not there
  call,   \* the call in progress
  done    \* the call that returned last, with its answer, until the next begins

vars == <<map, call, done>>

NoCall == [op |-> "none"]

Calls ==
  [op: {"insert"}, key: Keys, val: Values] \cup [op: {"index", "erase", "find"}, key: Keys]
    \cup [op: {"clear", "move", "renew"}]

Nothing == <<NoCall, None>>

Init == map = [k \in Keys |-> None] /\ call = NoCall /\ done = Nothing

Reply(c, m, answer) == map' = m /\ done' = <<c, answer>>

(* The value of k, if need be after a new one was put in. *)
Present(k) == IF map[k] = None THEN Default ELSE map[k]

(* What call c does and answers. *)
Perform(c) ==
  CASE c.op = "insert" -> Reply(c, [map EXCEPT ![c.key] = c.val], map[c.key] = None)
    [] c.op = "index"  -> Reply(c, [map EXCEPT ![c.key] = Present(c.key)], Present(c.key))
    [] c.op = "erase"  -> Reply(c, [map EXCEPT ![c.key] = None], map[c.key] # None)
    [] c.op = "find"   -> Reply(c, map, map[c.key])
    [] OTHER           -> Reply(c, [k \in Keys |-> None], None)

(* A call that returns at once, one that takes time, and its return. One   *)
(* that stores nothing need not be told (NoCall).                          *)
AtOnce(c) == call = NoCall /\ Perform(c) /\ UNCHANGED call
Begin(c)  == call = NoCall /\ call' = c /\ done' = Nothing /\ UNCHANGED map
Finish    == call # NoCall /\ Perform(call) /\ call' = NoCall

Next == (\E c \in Calls : AtOnce(c) \/ Begin(c)) \/ Begin(NoCall) \/ Finish

Spec == Init /\ [][Next]_vars

=============================================================================
