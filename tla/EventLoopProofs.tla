-------------------------- MODULE EventLoopProofs --------------------------
(* The event loop's tasks and timers, for every set of tasks and intervals *)
(* and any depth of polling.                                               *)
EXTENDS EventLoop, SequenceTheorems, WellFoundedInduction, TLAPS

(* Every poll but the innermost waits for a callback outside its pass, so  *)
(* there is one pass at most; a frame has tasks only in ProcessTasks.      *)
Control ==
  /\ \A i \in 1..(Len(stack) - 1) : stack[i].busy /\ stack[i].phase # "timers"
  /\ \A i \in 1..Len(stack) : stack[i].phase # "tasks" => stack[i].rest = <<>>
  /\ firing # 0 <=> Polling /\ Top.phase = "timers" /\ Top.busy
  /\ due # {} \/ fresh => Polling /\ Top.phase = "timers"

(* What has been cancelled, or has fired for good, is dead, except that    *)
(* the one that fires is marked when its callback returns.                 *)
Retired ==
  /\ \A id \in silent : ~Live(id)
  /\ \A id \in spent : Live(id) => id = firing /\ ~timers[id].repeat
  /\ firing # 0 => timers[firing].repeat \/ firing \in spent

IInv == TypeOK /\ Control /\ Retired /\ NoTimerLost

----------------------------------------------------------------------------
LEMMA SmallestDue ==
  ASSUME TypeOK, due # {}
  PROVE  NextDue \in due /\ NextDue \in DOMAIN timers /\ NextDue \in Ids
<1>1. due \subseteq Nat /\ due \subseteq DOMAIN timers /\ DOMAIN timers \subseteq Ids
  BY DEF TypeOK, Ids
<1>2. PICK low \in due : \A other \in due : <<other, low>> \notin OpToRel(<, Nat)
  BY <1>1, NatLessThanWellFounded, WFMin
<1>3. \A other \in due : low <= other
  <2> TAKE other \in due
  <2>1. <<other, low>> \in Nat \X Nat /\ <<other, low>>[1] = other /\ <<other, low>>[2] = low
    BY <1>1
  <2>2. ~(other < low)
    BY <1>2, <2>1 DEF OpToRel
  <2> QED BY <1>1, <2>2
<1> QED BY <1>1, <1>3 DEF NextDue

(* The ways the stack changes. *)
LEMMA TopFrame ==
  ASSUME stack \in Seq(Frames), Polling
  PROVE  /\ Len(stack) \in Nat \ {0} /\ Top \in Frames
         /\ Top.phase \in {"pump", "tasks", "timers"} /\ Top.rest \in Seq(Tasks)
         /\ Top.busy \in BOOLEAN
<1>1. Len(stack) \in Nat \ {0}
  BY EmptySeq DEF Polling
<1>2. Top \in Frames
  BY <1>1, ElementOfSeq DEF Top
<1> QED BY <1>1, <1>2 DEF Frames

Replaced(frame) ==
  /\ stack' \in Seq(Frames) /\ Len(stack') = Len(stack)
  /\ \A i \in 1..(Len(stack) - 1) : stack'[i] = stack[i]
  /\ Polling' /\ Top' = frame

LEMMA ReplaceTop ==
  ASSUME stack \in Seq(Frames), Polling, NEW frame \in Frames, SetTop(frame)
  PROVE  Replaced(frame)
<1>1. Len(stack) \in Nat \ {0}
  BY TopFrame
<1>2. /\ stack' \in Seq(Frames) /\ Len(stack') = Len(stack)
      /\ \A j \in 1..Len(stack) : stack'[j] = IF j = Len(stack) THEN frame ELSE stack[j]
  BY <1>1, ExceptSeq DEF SetTop
<1>3. stack' # <<>>
  BY <1>1, <1>2, EmptySeq
<1> QED BY <1>1, <1>2, <1>3 DEF Replaced, Polling, Top

Pushed ==
  /\ stack' \in Seq(Frames) /\ Len(stack') = Len(stack) + 1
  /\ \A i \in 1..Len(stack) : stack'[i] = stack[i]
  /\ Polling' /\ Top' = Frame

LEMMA PushFrame ==
  ASSUME stack \in Seq(Frames), stack' = Append(stack, Frame)
  PROVE  Pushed
<1>1. Frame \in Frames
  BY EmptySeq DEF Frame, Frames
<1> QED BY <1>1, AppendProperties DEF Pushed, Polling, Top

Popped ==
  /\ stack' \in Seq(Frames) /\ Len(stack') = Len(stack) - 1
  /\ \A i \in 1..(Len(stack) - 1) : stack'[i] = stack[i]
  /\ Polling' => Len(stack) - 1 \in 1..(Len(stack) - 1) /\ Top' = stack[Len(stack) - 1]

LEMMA PopFrame ==
  ASSUME stack \in Seq(Frames), Polling, stack' = SubSeq(stack, 1, Len(stack) - 1)
  PROVE  Popped
<1>1. Len(stack) \in Nat \ {0} /\ \A i \in 1..Len(stack) : stack[i] \in Frames
  BY TopFrame, ElementOfSeq
<1>2. /\ stack' \in Seq(Frames)
      /\ Len(stack') = IF 1 <= Len(stack) - 1 THEN Len(stack) - 1 - 1 + 1 ELSE 0
      /\ \A i \in 1..(Len(stack) - 1 - 1 + 1) : stack'[i] = stack[1 + i - 1]
  BY <1>1, SubSeqProperties
<1>3. Len(stack') = Len(stack) - 1 /\ \A i \in 1..(Len(stack) - 1) : stack'[i] = stack[i]
  <2>1. Len(stack') = Len(stack) - 1
    <3> DEFINE n == Len(stack)
    <3>1. n \in Nat \ {0}
      BY <1>1
    <3>2. Len(stack') = IF 1 <= n - 1 THEN n - 1 - 1 + 1 ELSE 0
      BY <1>2
    <3> HIDE DEF n
    <3>3. Len(stack') = n - 1
      BY <3>1, <3>2
    <3> QED BY <3>3 DEF n
  <2>2. \A i \in 1..(Len(stack) - 1) : i \in 1..(Len(stack) - 1 - 1 + 1) /\ 1 + i - 1 = i
    BY <1>1
  <2> QED BY <1>2, <2>1, <2>2
<1>4. ASSUME Polling' PROVE Len(stack) - 1 \in 1..(Len(stack) - 1)
  BY <1>1, <1>2, <1>3, <1>4, EmptySeq DEF Polling
<1> QED BY <1>2, <1>3, <1>4 DEF Popped, Top

----------------------------------------------------------------------------
(* How Control survives each kind of change. *)
LEMMA ControlSameStack ==
  ASSUME Control, UNCHANGED <<stack, firing>>,
         due' # {} \/ fresh' => due # {} \/ fresh
  PROVE  Control'
BY DEF Control, Polling, Top

LEMMA ControlReplaced ==
  ASSUME TypeOK, Control, Polling, NEW frame \in Frames, Replaced(frame),
         frame.phase # "tasks" => frame.rest = <<>>,
         firing' # 0 <=> frame.phase = "timers" /\ frame.busy,
         due' # {} \/ fresh' => frame.phase = "timers"
  PROVE  Control'
<1>1. Len(stack) \in Nat \ {0}
  BY TopFrame DEF TypeOK
<1>2. \A i \in 1..(Len(stack') - 1) : stack'[i].busy /\ stack'[i].phase # "timers"
  BY DEF Control, Replaced
<1>3. ASSUME NEW i \in 1..Len(stack'), stack'[i].phase # "tasks" PROVE stack'[i].rest = <<>>
  <2>1. CASE i = Len(stack)
    BY <1>3, <2>1 DEF Replaced, Top
  <2>2. CASE i # Len(stack)
    <3>1. i \in 1..(Len(stack) - 1) /\ i \in 1..Len(stack)
      BY <1>1, <2>2 DEF Replaced
    <3> QED BY <1>3, <3>1 DEF Control, Replaced
  <2> QED BY <2>1, <2>2
<1>4. Polling' /\ Top' = frame
  BY DEF Replaced
<1> QED BY <1>2, <1>3, <1>4 DEF Control

LEMMA ControlPushed ==
  ASSUME TypeOK, Control, Pushed, Polling => Top.busy /\ Top.phase # "timers",
         UNCHANGED <<due, fresh, firing>>
  PROVE  Control'
<1>1. Len(stack) \in Nat
  BY LenProperties DEF TypeOK
<1>2. firing = 0 /\ due = {} /\ ~fresh
  BY DEF Control
<1>3. ASSUME NEW i \in 1..(Len(stack') - 1)
      PROVE  stack'[i].busy /\ stack'[i].phase # "timers"
  <2>1. i \in 1..Len(stack) /\ stack'[i] = stack[i]
    BY <1>1 DEF Pushed
  <2>2. CASE i = Len(stack)
    <3>1. Polling /\ stack[i] = Top
      BY <2>1, <2>2, EmptySeq DEF Polling, Top, TypeOK
    <3> QED BY <2>1, <3>1
  <2>3. CASE i # Len(stack)
    <3>1. i \in 1..(Len(stack) - 1)
      BY <1>1, <2>1, <2>3
    <3> QED BY <2>1, <3>1 DEF Control
  <2> QED BY <2>2, <2>3
<1>4. ASSUME NEW i \in 1..Len(stack'), stack'[i].phase # "tasks" PROVE stack'[i].rest = <<>>
  <2>1. CASE i = Len(stack) + 1
    BY <2>1 DEF Pushed, Top, Frame
  <2>2. CASE i # Len(stack) + 1
    <3>1. i \in 1..Len(stack)
      BY <1>1, <2>2 DEF Pushed
    <3> QED BY <1>4, <3>1 DEF Control, Pushed
  <2> QED BY <2>1, <2>2
<1>5. Polling' /\ Top'.phase = "pump"
  BY DEF Pushed, Frame
<1> QED BY <1>2, <1>3, <1>4, <1>5 DEF Control

LEMMA ControlPopped ==
  ASSUME TypeOK, Control, Polling, Popped, firing' = 0, due' = {}, ~fresh'
  PROVE  Control'
<1>1. Len(stack) \in Nat \ {0}
  BY TopFrame DEF TypeOK
<1>2. \A i \in 1..(Len(stack') - 1) : i \in 1..(Len(stack) - 1)
  BY <1>1 DEF Popped
<1>3. \A i \in 1..Len(stack') : i \in 1..(Len(stack) - 1) /\ i \in 1..Len(stack)
  BY <1>1 DEF Popped
<1>4. \A i \in 1..(Len(stack') - 1) : stack'[i].busy /\ stack'[i].phase # "timers"
  BY <1>2 DEF Control, Popped
<1>5. \A i \in 1..Len(stack') : stack'[i].phase # "tasks" => stack'[i].rest = <<>>
  BY <1>3 DEF Control, Popped
<1>6. Polling' => Top'.phase # "timers"
  BY DEF Control, Popped
<1> QED BY <1>4, <1>5, <1>6 DEF Control

----------------------------------------------------------------------------
(* The parts of TypeOK. *)
LoopTyped == queue \in Seq(Tasks) /\ stack \in Seq(Frames) /\ waiting \subseteq Tasks

TimersTyped ==
  /\ nextId \in Nat \ {0} /\ DOMAIN timers \subseteq Ids
  /\ timers \in [DOMAIN timers -> Timers]
  /\ due \subseteq DOMAIN timers /\ fresh \in BOOLEAN
  /\ firing \in DOMAIN timers \cup {0} /\ silent \subseteq Ids /\ spent \subseteq Ids

RunTyped ==
  /\ running \in BOOLEAN /\ mode \in {"idle", "first", "looping"}
  /\ frameTimer \in Ids \cup {0} /\ asked \in BOOLEAN

LEMMA TypeParts == TypeOK <=> LoopTyped /\ TimersTyped /\ RunTyped
BY DEF TypeOK, LoopTyped, TimersTyped, RunTyped

TimersInv == Retired /\ NoTimerLost

LEMMA IInvParts ==
  ASSUME LoopTyped', TimersTyped', RunTyped', TimersInv', Control'
  PROVE  IInv'
BY DEF IInv, TypeOK, LoopTyped, TimersTyped, RunTyped, TimersInv

(* A step that leaves the timers alone, and puts none on the pass.         *)
LEMMA TimersKept ==
  ASSUME IInv, UNCHANGED timerVars, due' \subseteq due, fresh' \in BOOLEAN
  PROVE  TimersTyped' /\ TimersInv'
BY DEF IInv, TypeOK, TimersTyped, TimersInv, Retired, NoTimerLost, timerVars, Ids, Live

LEMMA AddedTimer ==
  ASSUME IInv, NEW every \in Nat, NEW repeat \in BOOLEAN, AddTimer(every, repeat),
         UNCHANGED <<fresh, firing, silent, spent>>
  PROVE  TimersTyped' /\ TimersInv' /\ nextId' = nextId + 1 /\ nextId \in Ids'
<1> USE DEF IInv
<1>1. nextId \in Nat \ {0} /\ nextId' = nextId + 1 /\ DOMAIN timers' = DOMAIN timers \cup {nextId}
  BY DEF AddTimer, TypeOK
<1>2. Ids' = Ids \cup {nextId} /\ nextId \notin Ids
  BY <1>1 DEF Ids
<1>3. \A id \in DOMAIN timers : timers'[id] = timers[id]
  BY <1>2 DEF AddTimer, TypeOK
<1>4. timers'[nextId] \in Timers /\ ~timers'[nextId].cancelled
  BY DEF AddTimer, Timers
<1>5. \A id \in DOMAIN timers' : timers'[id] \in Timers
  BY <1>1, <1>3, <1>4 DEF TypeOK
<1>6. timers' \in [DOMAIN timers' -> Timers]
  BY <1>5 DEF AddTimer
<1>7. TimersTyped'
  <2>1. nextId' \in Nat \ {0} /\ DOMAIN timers' \subseteq Ids'
    BY <1>1, <1>2 DEF TypeOK
  <2>2. due' \subseteq DOMAIN timers' /\ fresh' \in BOOLEAN
    BY <1>1 DEF TypeOK, AddTimer
  <2>3. firing' \in DOMAIN timers' \cup {0} /\ silent' \subseteq Ids' /\ spent' \subseteq Ids'
    BY <1>1, <1>2 DEF TypeOK
  <2> QED BY <1>6, <2>1, <2>2, <2>3 DEF TimersTyped
<1>8. \A id \in Ids : Live(id)' <=> Live(id)
  BY <1>1, <1>2, <1>3 DEF Live
<1>9. \A id \in Ids' \ Ids : Live(id)'
  BY <1>1, <1>2, <1>4 DEF Live
<1>10. Retired'
  <2>1. firing # 0 => firing \in DOMAIN timers
    BY DEF TypeOK
  <2>2. \A id \in Ids : Live(id) => timers'[id] = timers[id]
    BY <1>3 DEF Live
  <2>3. silent \subseteq Ids /\ spent \subseteq Ids
    BY DEF TypeOK
  <2> QED BY <1>3, <1>8, <2>1, <2>2, <2>3 DEF Retired
<1>11. NoTimerLost'
  BY <1>2, <1>8, <1>9 DEF NoTimerLost
<1> QED BY <1>1, <1>2, <1>7, <1>10, <1>11 DEF TimersInv

LEMMA CancelledTimer ==
  ASSUME IInv, NEW id \in DOMAIN timers, timers' = Cancelled(id), silent' = silent \cup {id},
         UNCHANGED <<due, fresh, nextId, firing, spent>>
  PROVE  TimersTyped' /\ TimersInv'
<1> USE DEF IInv
<1>1. DOMAIN timers' = DOMAIN timers /\ Ids' = Ids
  BY DEF Cancelled, Ids
<1>2. /\ timers \in [DOMAIN timers -> Timers]
      /\ timers'[id] = [timers[id] EXCEPT !.cancelled = TRUE]
      /\ \A other \in DOMAIN timers \ {id} : timers'[other] = timers[other]
  BY DEF Cancelled, TypeOK
<1>3. timers'[id] \in Timers /\ timers'[id].cancelled /\ timers'[id].repeat = timers[id].repeat
  BY <1>2 DEF Timers
<1>4. timers' \in [DOMAIN timers' -> Timers]
  BY <1>1, <1>2, <1>3 DEF Cancelled
<1>5. TimersTyped'
  BY <1>1, <1>4 DEF TypeOK, TimersTyped
<1>6. \A other \in Ids : Live(other)' <=> Live(other) /\ other # id
  BY <1>1, <1>2, <1>3 DEF Live
<1>7. Retired'
  <2>1. silent \subseteq Ids /\ spent \subseteq Ids /\ id \in Ids
    BY DEF TypeOK
  <2>2. \A other \in DOMAIN timers : timers'[other].repeat = timers[other].repeat
    BY <1>2, <1>3
  <2>3. firing # 0 => firing \in DOMAIN timers
    BY DEF TypeOK
  <2>4. \A other \in spent' : Live(other)' => other = firing' /\ ~timers'[other].repeat
    BY <1>6, <2>1, <2>2 DEF Retired, Live
  <2>5. \A other \in silent' : ~Live(other)'
    BY <1>6, <2>1 DEF Retired
  <2> QED BY <2>2, <2>3, <2>4, <2>5 DEF Retired
<1>8. NoTimerLost'
  BY <1>1, <1>6 DEF NoTimerLost
<1> QED BY <1>5, <1>7, <1>8 DEF TimersInv

LEMMA FiredTimer ==
  ASSUME IInv, FireTimer
  PROVE  TimersTyped' /\ TimersInv'
<1> USE DEF IInv
<1>1. firing = 0
  BY DEF FireTimer, At, Control
<1>2. NextDue \in due /\ NextDue \in DOMAIN timers /\ NextDue \in Ids
  BY SmallestDue DEF FireTimer
<1>3. /\ UNCHANGED <<timers, nextId, silent, fresh>> /\ firing' = NextDue
      /\ due' = due \ {NextDue} /\ ~timers[NextDue].cancelled
      /\ spent' = IF timers[NextDue].repeat THEN spent ELSE spent \cup {NextDue}
  BY DEF FireTimer
<1>4. TimersTyped'
  BY <1>2, <1>3 DEF TypeOK, TimersTyped, Ids
<1>5. \A id \in spent' : Live(id)' => id = NextDue /\ ~timers[NextDue].repeat
  BY <1>1, <1>2, <1>3 DEF Retired, Live, TypeOK, Ids
<1>6. Retired' /\ NoTimerLost'
  BY <1>2, <1>3, <1>5 DEF Retired, NoTimerLost, Live, Ids
<1> QED BY <1>4, <1>6 DEF TimersInv

LEMMA EndedFiring ==
  ASSUME IInv, EndFiring
  PROVE  TimersTyped' /\ TimersInv'
<1> USE DEF IInv
<1>1. firing # 0 /\ firing \in DOMAIN timers
  BY DEF EndFiring, Control, TypeOK
<1>2. UNCHANGED <<nextId, silent, spent, due, fresh>> /\ firing' = 0 /\ Ids' = Ids
  BY DEF EndFiring, Ids
<1>3. timers \in [DOMAIN timers -> Timers] /\ timers[firing] \in Timers
  BY <1>1 DEF TypeOK
<1>4. CASE timers[firing].repeat
  <2>1. PICK left \in TimeLeft(timers[firing].every) : timers' = [timers EXCEPT ![firing].left = left]
    BY <1>4 DEF EndFiring
  <2>2. timers[firing].every \in Nat /\ left \in Nat
    BY <1>3, <2>1 DEF TimeLeft, Timers
  <2>3. DOMAIN timers' = DOMAIN timers
    BY <1>3, <2>1
  <2>4. /\ timers'[firing] = [timers[firing] EXCEPT !.left = left]
        /\ \A id \in DOMAIN timers \ {firing} : timers'[id] = timers[id]
    BY <1>1, <1>3, <2>1
  <2>5. timers'[firing] \in Timers /\ timers'[firing].cancelled = timers[firing].cancelled
    BY <1>3, <2>2, <2>4 DEF Timers
  <2>6. timers' \in [DOMAIN timers' -> Timers]
    BY <1>3, <2>1, <2>3, <2>4, <2>5
  <2>7. \A id \in Ids : Live(id)' <=> Live(id)
    BY <2>3, <2>4, <2>5 DEF Live
  <2>8. TimersTyped'
    BY <1>2, <2>3, <2>6 DEF TypeOK, TimersTyped
  <2>9. \A id \in spent : ~Live(id)
    BY <1>4 DEF Retired
  <2>10. Retired' /\ NoTimerLost'
    BY <1>2, <2>7, <2>9 DEF Retired, NoTimerLost, TypeOK
  <2> QED BY <2>8, <2>10 DEF TimersInv
<1>5. CASE ~timers[firing].repeat
  <2>1. timers' = Cancelled(firing)
    BY <1>5 DEF EndFiring
  <2>2. DOMAIN timers' = DOMAIN timers
    BY <1>3, <2>1 DEF Cancelled
  <2>3. /\ timers'[firing] = [timers[firing] EXCEPT !.cancelled = TRUE]
        /\ \A id \in DOMAIN timers \ {firing} : timers'[id] = timers[id]
    BY <1>1, <1>3, <2>1 DEF Cancelled
  <2>4. timers'[firing] \in Timers /\ timers'[firing].cancelled
    BY <1>3, <2>3 DEF Timers
  <2>5. timers' \in [DOMAIN timers' -> Timers]
    BY <1>3, <2>1, <2>2, <2>3, <2>4 DEF Cancelled
  <2>6. \A id \in Ids : Live(id)' <=> Live(id) /\ id # firing
    BY <2>2, <2>3, <2>4 DEF Live
  <2>7. TimersTyped'
    BY <1>2, <2>2, <2>5 DEF TypeOK, TimersTyped
  <2>8. firing \in spent
    BY <1>1, <1>5 DEF Retired
  <2>9. Retired' /\ NoTimerLost'
    BY <1>2, <2>6, <2>8 DEF Retired, NoTimerLost, TypeOK
  <2> QED BY <2>7, <2>9 DEF TimersInv
<1> QED BY <1>4, <1>5

LEMMA EndedPass ==
  ASSUME IInv, EndPass
  PROVE  TimersTyped' /\ TimersInv'
<1> USE DEF IInv
<1>1. firing = 0 /\ due = {}
  BY DEF EndPass, At, Control
<1>2. UNCHANGED <<nextId, silent, spent, due, firing>> /\ fresh' = FALSE /\ Ids' = Ids
  BY DEF EndPass, Ids
<1>3. /\ DOMAIN timers' = {id \in DOMAIN timers : Live(id)}
      /\ \A id \in DOMAIN timers' : timers'[id] = timers[id]
      /\ timers' = [id \in DOMAIN timers' |-> timers[id]]
  BY DEF EndPass
<1>4. timers' \in [DOMAIN timers' -> Timers]
  BY <1>3 DEF TypeOK
<1>5. \A id \in Ids : Live(id)' <=> Live(id)
  BY <1>3 DEF Live
<1>6. TimersTyped'
  BY <1>1, <1>2, <1>3, <1>4 DEF TypeOK, TimersTyped
<1>7. Retired' /\ NoTimerLost'
  <2>1. \A id \in spent : id \in Ids /\ ~Live(id)
    BY <1>1 DEF Retired, TypeOK, Ids
  <2> QED BY <1>1, <1>2, <1>5, <2>1 DEF Retired, NoTimerLost, TypeOK
<1> QED BY <1>6, <1>7 DEF TimersInv

LEMMA Ticked ==
  ASSUME IInv, ClockTick
  PROVE  TimersTyped' /\ TimersInv'
<1> USE DEF IInv
<1>1. UNCHANGED <<nextId, silent, spent, due, firing>> /\ fresh' = FALSE /\ Ids' = Ids
  BY DEF ClockTick, Ids
<1>2. DOMAIN timers' = DOMAIN timers
  BY DEF ClockTick
<1>3. ASSUME NEW id \in DOMAIN timers
      PROVE  /\ timers'[id] \in Timers
             /\ timers'[id].cancelled = timers[id].cancelled
             /\ timers'[id].repeat = timers[id].repeat
  <2>1. timers[id] \in Timers
    BY DEF TypeOK
  <2>2. timers'[id] = [timers[id] EXCEPT !.left = IF @ > 0 THEN @ - 1 ELSE 0]
    BY DEF ClockTick
  <2>3. (IF timers[id].left > 0 THEN timers[id].left - 1 ELSE 0) \in Nat
    BY <2>1 DEF Timers
  <2> QED BY <2>1, <2>2, <2>3 DEF Timers
<1>4. timers' = [id \in DOMAIN timers' |-> timers'[id]]
  BY <1>2 DEF ClockTick
<1>5. timers' \in [DOMAIN timers' -> Timers]
  BY <1>2, <1>3, <1>4
<1>6. \A id \in Ids : Live(id)' <=> Live(id)
  BY <1>2, <1>3 DEF Live
<1>7. TimersTyped'
  BY <1>1, <1>2, <1>5 DEF TypeOK, TimersTyped
<1>8. Retired' /\ NoTimerLost'
  <2>1. firing # 0 => firing \in DOMAIN timers
    BY DEF TypeOK
  <2>2. \A id \in spent : Live(id)' => id = firing /\ ~timers'[id].repeat
    BY <1>1, <1>3, <1>6 DEF Retired, TypeOK, Live
  <2> QED BY <1>1, <1>3, <1>6, <2>1, <2>2 DEF Retired, NoTimerLost, TypeOK
<1> QED BY <1>7, <1>8 DEF TimersInv

----------------------------------------------------------------------------
LEMMA InitIInv == Init => IInv
<1> SUFFICES ASSUME Init PROVE IInv
  OBVIOUS
<1>1. stack = <<>> /\ <<>> \in Seq(Frames) /\ <<>> \in Seq(Tasks) /\ Len(stack) = 0
  BY EmptySeq DEF Init
<1>2. DOMAIN timers = {} /\ timers \in [{} -> Timers]
  BY DEF Init
<1>3. TypeOK
  <2>1. LoopTyped /\ RunTyped
    BY <1>1 DEF Init, LoopTyped, RunTyped
  <2>2. TimersTyped
    <3>1. timers \in [DOMAIN timers -> Timers]
      BY <1>2
    <3>2. nextId = 1 /\ due = {} /\ fresh = FALSE /\ firing = 0 /\ silent = {} /\ spent = {}
      BY DEF Init
    <3>3. DOMAIN timers = {}
      BY <1>2
    <3>4. fresh \in BOOLEAN
      BY <3>2, Zenon
    <3>5. nextId \in Nat \ {0} /\ firing \in DOMAIN timers \cup {0}
      BY <3>2
    <3>6. /\ DOMAIN timers \subseteq Ids /\ due \subseteq DOMAIN timers
          /\ silent \subseteq Ids /\ spent \subseteq Ids
      BY <3>2, <3>3
    <3> QED BY <3>1, <3>4, <3>5, <3>6 DEF TimersTyped
  <2> QED BY <2>1, <2>2, TypeParts
<1>4. Control
  BY <1>1 DEF Init, Control, Polling
<1>5. Retired /\ NoTimerLost
  BY DEF Init, Retired, NoTimerLost, Ids
<1> QED BY <1>3, <1>4, <1>5 DEF IInv

(* What the actions make of the innermost frame. *)
LEMMA FrameTyped ==
  ASSUME IInv, Polling
  PROVE  /\ Top \in Frames /\ [Top EXCEPT !.busy = TRUE] \in Frames
         /\ [Top EXCEPT !.busy = FALSE] \in Frames
         /\ [Top EXCEPT !.phase = "timers"] \in Frames
         /\ \A rest \in Seq(Tasks) : [Top EXCEPT !.phase = "tasks", !.rest = rest] \in Frames
         /\ \A rest \in Seq(Tasks) : [Top EXCEPT !.rest = rest, !.busy = TRUE] \in Frames
         /\ Top.phase # "tasks" => Top.rest = <<>>
<1>1. Top \in Frames /\ Top = stack[Len(stack)] /\ Len(stack) \in 1..Len(stack)
  BY TopFrame DEF IInv, TypeOK, Top
<1>2. Top.phase # "tasks" => Top.rest = <<>>
  BY <1>1 DEF IInv, Control
<1> QED BY <1>1, <1>2 DEF Frames

(* A callback's calls. *)
LEMMA CallbackStep ==
  ASSUME IInv, Callback
  PROVE  IInv'
<1> USE DEF IInv
<1>0. LoopTyped /\ TimersTyped /\ RunTyped
  BY TypeParts
<1>1. ASSUME NEW t \in Tasks, PostTask(t) PROVE IInv'
  <2>1. TimersTyped' /\ TimersInv'
    BY <1>1, TimersKept DEF PostTask, TypeOK
  <2>2. LoopTyped' /\ RunTyped'
    BY <1>0, <1>1, AppendProperties DEF PostTask, LoopTyped, RunTyped, runVars, timerVars, Ids
  <2>3. Control'
    BY <1>1, ControlSameStack DEF PostTask, timerVars
  <2> QED BY <2>1, <2>2, <2>3, IInvParts
<1>2. ASSUME NEW every \in Intervals, NEW repeat \in BOOLEAN, SetTimer(every, repeat) PROVE IInv'
  <2>1. TimersTyped' /\ TimersInv' /\ nextId' = nextId + 1
    BY <1>2, AddedTimer, EventLoopAssumption DEF SetTimer
  <2>2. LoopTyped' /\ RunTyped'
    BY <1>0, <1>2, <2>1 DEF SetTimer, LoopTyped, RunTyped, runVars, TimersTyped, Ids
  <2>3. Control'
    BY <1>2, ControlSameStack DEF SetTimer, AddTimer
  <2> QED BY <2>1, <2>2, <2>3, IInvParts
<1>3. ASSUME NEW id \in 1..MaxTimers, CancelTimer(id) PROVE IInv'
  <2>1. TimersTyped' /\ TimersInv'
    BY <1>3, CancelledTimer DEF CancelTimer, loopVars
  <2>2. LoopTyped' /\ RunTyped'
    BY <1>0, <1>3 DEF CancelTimer, LoopTyped, RunTyped, loopVars, runVars, Ids
  <2>3. Control'
    BY <1>3, ControlSameStack DEF CancelTimer, loopVars
  <2> QED BY <2>1, <2>2, <2>3, IInvParts
<1>4. CASE PollOnce
  <2>1. TimersTyped' /\ TimersInv'
    BY <1>4, TimersKept DEF PollOnce, TypeOK
  <2>2. Pushed
    BY <1>4, PushFrame DEF PollOnce, TypeOK
  <2>3. LoopTyped' /\ RunTyped'
    BY <1>0, <1>4, <2>2 DEF PollOnce, Pushed, LoopTyped, RunTyped, runVars, timerVars, Ids
  <2>4. Control'
    BY <1>4, <2>2, ControlPushed DEF PollOnce, Caller, timerVars
  <2> QED BY <2>1, <2>3, <2>4, IInvParts
<1>5. CASE Quit
  <2>1. TimersTyped' /\ TimersInv'
    <3>1. CASE frameTimer \in DOMAIN timers
      BY <1>5, <3>1, CancelledTimer DEF Quit, loopVars
    <3>2. CASE frameTimer \notin DOMAIN timers
      BY <1>5, <3>2, TimersKept DEF Quit, loopVars, timerVars, TypeOK
    <3> QED BY <3>1, <3>2
  <2>2. LoopTyped' /\ RunTyped'
    BY <1>0, <1>5 DEF Quit, LoopTyped, RunTyped, loopVars, Ids
  <2>3. Control'
    BY <1>5, ControlSameStack DEF Quit, loopVars
  <2> QED BY <2>1, <2>2, <2>3, IInvParts
<1> QED BY <1>1, <1>2, <1>3, <1>4, <1>5 DEF Callback

(* The steps of Run. *)
LEMMA RunStep ==
  ASSUME IInv, Run \/ EnterLoop \/ Iterate \/ ReturnFromRun
  PROVE  IInv'
<1> USE DEF IInv
<1>0. LoopTyped /\ TimersTyped /\ RunTyped
  BY TypeParts
<1>1. CASE Run \/ ReturnFromRun
  <2>1. TimersTyped' /\ TimersInv'
    BY <1>1, TimersKept DEF Run, ReturnFromRun, loopVars, TypeOK
  <2>2. LoopTyped' /\ RunTyped'
    BY <1>0, <1>1 DEF Run, ReturnFromRun, LoopTyped, RunTyped, loopVars, timerVars, Ids
  <2>3. Control'
    BY <1>1, ControlSameStack DEF Run, ReturnFromRun, loopVars, timerVars
  <2> QED BY <2>1, <2>2, <2>3, IInvParts
<1>2. CASE EnterLoop
  <2>1. TimersTyped' /\ TimersInv' /\ nextId' = nextId + 1 /\ nextId \in Ids'
    BY <1>2, AddedTimer, EventLoopAssumption DEF EnterLoop
  <2>2. LoopTyped' /\ RunTyped'
    BY <1>0, <1>2, <2>1 DEF EnterLoop, LoopTyped, RunTyped
  <2>3. Control'
    BY <1>2, ControlSameStack DEF EnterLoop, AddTimer, Control
  <2> QED BY <2>1, <2>2, <2>3, IInvParts
<1>3. CASE Iterate
  <2>1. TimersTyped' /\ TimersInv'
    BY <1>3, TimersKept DEF Iterate, TypeOK
  <2>2. Pushed
    <3>1. stack' = Append(stack, Frame)
      BY <1>3 DEF Iterate, Polling
    <3> QED BY <3>1, PushFrame DEF TypeOK
  <2>3. LoopTyped' /\ RunTyped'
    BY <1>0, <1>3, <2>2 DEF Iterate, Pushed, LoopTyped, RunTyped, runVars, timerVars, Ids
  <2>4. Control'
    BY <1>3, <2>2, ControlPushed DEF Iterate, timerVars
  <2> QED BY <2>1, <2>3, <2>4, IInvParts
<1> QED BY <1>1, <1>2, <1>3

(* The steps of PollOnce. *)
LEMMA PollStep ==
  ASSUME IInv, Poll
  PROVE  IInv'
<1> USE DEF IInv
<1>0. LoopTyped /\ TimersTyped /\ RunTyped
  BY TypeParts
<1>1. CASE TakeTasks
  <2>1. TimersTyped' /\ TimersInv'
    BY <1>1, TimersKept DEF TakeTasks, TypeOK
  <2> DEFINE top == [Top EXCEPT !.phase = "tasks", !.rest = queue]
  <2>2. At("pump") /\ Polling /\ top \in Frames /\ top.phase = "tasks"
    BY <1>1, FrameTyped DEF TakeTasks, At, TypeOK, Frames
  <2>3. Replaced(top)
    BY <1>1, <2>2, ReplaceTop DEF TakeTasks, TypeOK
  <2>4. LoopTyped' /\ RunTyped'
    BY <1>0, <1>1, <2>3, EmptySeq DEF TakeTasks, Replaced, LoopTyped, RunTyped, runVars, timerVars, Ids
  <2>5. firing' = 0 /\ due' = {} /\ ~fresh'
    BY <1>1, <2>2 DEF TakeTasks, At, Control, timerVars
  <2>6. Control'
    <3> HIDE DEF top
    <3> QED BY <2>2, <2>3, <2>5, ControlReplaced
  <2> QED BY <2>1, <2>4, <2>6, IInvParts
<1>2. CASE RunTask
  <2>1. TimersTyped' /\ TimersInv'
    BY <1>2, TimersKept DEF RunTask, TypeOK
  <2> DEFINE top == [Top EXCEPT !.rest = Tail(Top.rest), !.busy = TRUE]
  <2>2. Tail(Top.rest) \in Seq(Tasks)
    BY <1>2, TopFrame, HeadTailProperties DEF RunTask, At, TypeOK
  <2>3. At("tasks") /\ Polling /\ top \in Frames /\ top.phase = "tasks"
    BY <1>2, <2>2, FrameTyped DEF RunTask, At, Frames
  <2>4. Replaced(top)
    BY <1>2, <2>3, ReplaceTop DEF RunTask, TypeOK
  <2>5. LoopTyped' /\ RunTyped'
    BY <1>0, <1>2, <2>4 DEF RunTask, Replaced, LoopTyped, RunTyped, runVars, timerVars, Ids
  <2>6. firing' = 0 /\ due' = {} /\ ~fresh'
    BY <1>2, <2>3 DEF RunTask, At, Control, timerVars
  <2>7. Control'
    <3> HIDE DEF top
    <3> QED BY <2>3, <2>4, <2>6, ControlReplaced
  <2> QED BY <2>1, <2>5, <2>7, IInvParts
<1>3. CASE BeginPass
  <2> DEFINE top == [Top EXCEPT !.phase = "timers"]
  <2>1. At("tasks") /\ Polling /\ top \in Frames /\ top.phase = "timers" /\ top.busy = FALSE
    BY <1>3, FrameTyped DEF BeginPass, At, Frames, TypeOK
  <2>2. top.rest = <<>>
    BY <1>3, <2>1, FrameTyped DEF BeginPass, Frames
  <2>3. Replaced(top)
    BY <1>3, <2>1, ReplaceTop DEF BeginPass, TypeOK
  <2>4. LoopTyped' /\ RunTyped'
    BY <1>0, <1>3, <2>3 DEF BeginPass, Replaced, LoopTyped, RunTyped, runVars, timerVars, Ids
  <2>5. firing' = 0
    BY <1>3, <2>1 DEF BeginPass, At, Control, timerVars
  <2>6. Control'
    <3> HIDE DEF top
    <3> QED BY <2>1, <2>2, <2>3, <2>5, ControlReplaced
  <2>7. UNCHANGED timerVars /\ due' \subseteq DOMAIN timers /\ fresh' = TRUE
    BY <1>3 DEF BeginPass
  <2>8. TimersTyped'
    BY <1>0, <2>7 DEF TimersTyped, timerVars, Ids
  <2>9. TimersInv'
    BY <2>7 DEF TimersInv, Retired, NoTimerLost, timerVars, Ids, Live
  <2> QED BY <2>4, <2>6, <2>8, <2>9, IInvParts
<1>4. CASE SkipTimer
  <2>1. TimersTyped' /\ TimersInv'
    BY <1>4, TimersKept DEF SkipTimer, TypeOK
  <2>2. LoopTyped' /\ RunTyped'
    BY <1>0, <1>4 DEF SkipTimer, LoopTyped, RunTyped, runVars, timerVars, Ids
  <2>3. Control'
    BY <1>4, ControlSameStack DEF SkipTimer, timerVars
  <2> QED BY <2>1, <2>2, <2>3, IInvParts
<1>5. CASE FireTimer
  <2>1. TimersTyped' /\ TimersInv'
    BY <1>5, FiredTimer
  <2> DEFINE top == [Top EXCEPT !.busy = TRUE]
  <2>2. At("timers") /\ Polling /\ top \in Frames /\ top.phase = "timers" /\ top.busy = TRUE
    BY <1>5, FrameTyped DEF FireTimer, At, Frames
  <2>3. top.rest = <<>>
    BY <2>2, FrameTyped DEF At, Frames
  <2>4. Replaced(top)
    BY <1>5, <2>2, ReplaceTop DEF FireTimer, TypeOK
  <2>5. LoopTyped' /\ RunTyped'
    BY <1>0, <1>5, <2>4 DEF FireTimer, Replaced, LoopTyped, RunTyped, runVars, Ids
  <2>6. firing' # 0
    BY <1>5, SmallestDue DEF FireTimer, Ids
  <2>7. Control'
    <3> HIDE DEF top
    <3> QED BY <2>2, <2>3, <2>4, <2>6, ControlReplaced
  <2> QED BY <2>1, <2>5, <2>7, IInvParts
<1>6. CASE EndPass
  <2>1. TimersTyped' /\ TimersInv'
    BY <1>6, EndedPass
  <2>2. At("timers") /\ Polling
    BY <1>6 DEF EndPass, At
  <2>3. Popped
    BY <1>6, <2>2, PopFrame DEF EndPass, TypeOK
  <2>4. LoopTyped' /\ RunTyped'
    BY <1>0, <1>6, <2>3 DEF EndPass, Popped, LoopTyped, RunTyped, runVars, Ids
  <2>5. firing' = 0 /\ due' = {} /\ ~fresh'
    BY <1>6, <2>2 DEF EndPass, At, Control
  <2>6. Control'
    BY <2>2, <2>3, <2>5, ControlPopped
  <2> QED BY <2>1, <2>4, <2>6, IInvParts
<1> QED BY <1>1, <1>2, <1>3, <1>4, <1>5, <1>6 DEF Poll

LEMMA ReturnStep ==
  ASSUME IInv, Return \/ EndFiring \/ InputEvent \/ WindowClosed \/ ClockTick
  PROVE  IInv'
<1> USE DEF IInv
<1>0. LoopTyped /\ TimersTyped /\ RunTyped
  BY TypeParts
<1>1. CASE Return
  <2>1. TimersTyped' /\ TimersInv'
    BY <1>1, TimersKept DEF Return, TypeOK
  <2> DEFINE top == [Top EXCEPT !.busy = FALSE]
  <2>2. Polling /\ top \in Frames /\ top.phase # "timers" /\ (top.phase # "tasks" => top.rest = <<>>)
    BY <1>1, FrameTyped DEF Return, Frames
  <2>3. Replaced(top)
    BY <1>1, <2>2, ReplaceTop DEF Return, TypeOK
  <2>4. LoopTyped' /\ RunTyped'
    BY <1>0, <1>1, <2>3 DEF Return, Replaced, LoopTyped, RunTyped, runVars, timerVars, Ids
  <2>5. firing' = 0 /\ due' = {} /\ ~fresh'
    BY <1>1 DEF Return, Control, timerVars
  <2>6. Control'
    <3> HIDE DEF top
    <3> QED BY <2>2, <2>3, <2>5, ControlReplaced
  <2> QED BY <2>1, <2>4, <2>6, IInvParts
<1>2. CASE InputEvent
  <2>1. TimersTyped' /\ TimersInv'
    BY <1>2, TimersKept DEF InputEvent, TypeOK
  <2> DEFINE top == [Top EXCEPT !.busy = TRUE]
  <2>2. At("pump") /\ Polling /\ top \in Frames /\ top.phase = "pump" /\ top.rest = <<>>
    BY <1>2, FrameTyped DEF InputEvent, At, Frames
  <2>3. Replaced(top)
    BY <1>2, <2>2, ReplaceTop DEF InputEvent, TypeOK
  <2>4. LoopTyped' /\ RunTyped'
    BY <1>0, <1>2, <2>3 DEF InputEvent, Replaced, LoopTyped, RunTyped, runVars, timerVars, Ids
  <2>5. firing' = 0 /\ due' = {} /\ ~fresh'
    BY <1>2, <2>2 DEF InputEvent, At, Control, timerVars
  <2>6. Control'
    <3> HIDE DEF top
    <3> QED BY <2>2, <2>3, <2>5, ControlReplaced
  <2> QED BY <2>1, <2>4, <2>6, IInvParts
<1>3. CASE EndFiring
  <2>1. TimersTyped' /\ TimersInv'
    BY <1>3, EndedFiring
  <2> DEFINE top == [Top EXCEPT !.busy = FALSE]
  <2>2. Polling /\ top \in Frames /\ top.phase = "timers" /\ top.busy = FALSE /\ top.rest = <<>>
    BY <1>3, FrameTyped DEF EndFiring, Frames
  <2>3. Replaced(top)
    BY <1>3, <2>2, ReplaceTop DEF EndFiring, TypeOK
  <2>4. LoopTyped' /\ RunTyped'
    BY <1>0, <1>3, <2>3 DEF EndFiring, Replaced, LoopTyped, RunTyped, runVars, Ids
  <2>5. firing' = 0
    BY <1>3 DEF EndFiring
  <2>6. Control'
    <3> HIDE DEF top
    <3> QED BY <2>2, <2>3, <2>5, ControlReplaced
  <2> QED BY <2>1, <2>4, <2>6, IInvParts
<1>4. CASE WindowClosed
  <2>1. TimersTyped' /\ TimersInv'
    BY <1>4, TimersKept DEF WindowClosed, loopVars, TypeOK
  <2>2. LoopTyped' /\ RunTyped'
    BY <1>0, <1>4 DEF WindowClosed, LoopTyped, RunTyped, loopVars, timerVars, Ids
  <2>3. Control'
    BY <1>4, ControlSameStack DEF WindowClosed, loopVars, timerVars
  <2> QED BY <2>1, <2>2, <2>3, IInvParts
<1>5. CASE ClockTick
  <2>1. TimersTyped' /\ TimersInv'
    BY <1>5, Ticked
  <2>2. LoopTyped' /\ RunTyped'
    BY <1>0, <1>5 DEF ClockTick, LoopTyped, RunTyped, runVars, Ids
  <2>3. Control'
    BY <1>5, ControlSameStack DEF ClockTick
  <2> QED BY <2>1, <2>2, <2>3, IInvParts
<1> QED BY <1>1, <1>2, <1>3, <1>4, <1>5

LEMMA NextIInv == IInv /\ [Next]_vars => IInv'
<1> SUFFICES ASSUME IInv, [Next]_vars PROVE IInv'
  OBVIOUS
<1>1. CASE UNCHANGED vars
  BY <1>1 DEF IInv, TypeOK, Control, Retired, NoTimerLost, vars, loopVars, timerVars, runVars,
     Ids, Live, Polling, Top
<1>2. CASE Next
  BY <1>2, CallbackStep, RunStep, PollStep, ReturnStep DEF Next
<1> QED BY <1>1, <1>2

LEMMA SpecIInv == Spec => []IInv
BY InitIInv, NextIInv, PTL DEF Spec

(* The queue, the stack of polls and the timers keep their types, and a    *)
(* pass only comes to timers that are still in the vector, whatever tasks, *)
(* timers and polls the callbacks start.                                   *)
THEOREM EventLoopTyped == Spec => []TypeOK
<1>1. IInv => TypeOK
  BY DEF IInv
<1> QED BY <1>1, SpecIInv, PTL

(* A timer stays in timers_ until it is cancelled or fires for the last    *)
(* time, through every compaction.                                         *)
THEOREM TimersStay == Spec => []NoTimerLost
<1>1. IInv => NoTimerLost
  BY DEF IInv
<1> QED BY <1>1, SpecIInv, PTL

(* CancelTimer is final, in the pass under way too, and a timer that does  *)
(* not repeat fires once.                                                  *)
THEOREM CancelIsFinal == Spec => NoLateFire
<1>1. IInv /\ [Next]_vars =>
        [firing' # firing /\ firing' # 0 => firing' \notin silent \cup spent]_vars
  <2> SUFFICES ASSUME IInv, Next, firing' # firing, firing' # 0
               PROVE  firing' \notin silent \cup spent
    BY DEF vars
  <2>1. FireTimer
    BY DEF Next, Callback, Poll, PostTask, SetTimer, CancelTimer, PollOnce, Quit, TakeTasks,
       RunTask, BeginPass, SkipTimer, EndPass, Return, EndFiring, InputEvent, WindowClosed,
       Run, EnterLoop, Iterate, ReturnFromRun, ClockTick, timerVars, loopVars
  <2>2. firing' = NextDue /\ ~timers[NextDue].cancelled /\ firing = 0
    BY <2>1 DEF FireTimer, At, IInv, Control
  <2>3. Live(NextDue) /\ NextDue # 0
    BY <2>1, <2>2, SmallestDue DEF FireTimer, Live, Ids, IInv
  <2> QED BY <2>2, <2>3 DEF IInv, Retired
<1> QED BY <1>1, SpecIInv, PTL DEF Spec, NoLateFire

----------------------------------------------------------------------------
(* The tasks of a frame, and of the queue, are different ones.             *)
Rest(i) == Elements(stack[i].rest)

Distinct(s) == \A m, n \in 1..Len(s) : s[m] = s[n] => m = n

Accounted ==
  /\ \A t \in Tasks :
       t \in waiting <=> t \in Elements(queue) \/ \E i \in 1..Len(stack) : t \in Rest(i)
  /\ \A i \in 1..Len(stack) : Rest(i) \cap Elements(queue) = {}
  /\ \A i, j \in 1..Len(stack) : i # j => Rest(i) \cap Rest(j) = {}
  /\ Distinct(queue) /\ \A i \in 1..Len(stack) : Distinct(stack[i].rest)

LEMMA ElementsOfSeq ==
  ASSUME NEW s \in Seq(Tasks)
  PROVE  Elements(s) \subseteq Tasks /\ \A t : t \in Elements(s) <=> \E m \in 1..Len(s) : s[m] = t
<1>1. DOMAIN s = 1..Len(s) /\ \A m \in 1..Len(s) : s[m] \in Tasks
  BY ElementOfSeq, LenProperties
<1> QED BY <1>1 DEF Elements

LEMMA ElementsOfAppend ==
  ASSUME NEW s \in Seq(Tasks), NEW t \in Tasks, t \notin Elements(s), Distinct(s)
  PROVE  Elements(Append(s, t)) = Elements(s) \cup {t} /\ Distinct(Append(s, t))
<1> DEFINE a == Append(s, t)
<1>1. /\ a \in Seq(Tasks) /\ Len(a) = Len(s) + 1 /\ Len(s) \in Nat
      /\ \A m \in 1..Len(s) : a[m] = s[m]
      /\ a[Len(s) + 1] = t
  BY AppendProperties, LenProperties
<1> HIDE DEF a
<1>2. \A m \in 1..Len(a) : m \in 1..Len(s) \/ m = Len(s) + 1
  BY <1>1
<1>3. \A m \in 1..Len(s) : m \in 1..Len(a)
  BY <1>1
<1>4. Len(s) + 1 \in 1..Len(a)
  BY <1>1
<1>5. \A u : u \in Elements(a) <=> u \in Elements(s) \/ u = t
  BY <1>1, <1>2, <1>3, <1>4, ElementsOfSeq
<1>6. \A m \in 1..Len(s) : s[m] # t
  BY ElementsOfSeq
<1>7. Distinct(a)
  BY <1>1, <1>2, <1>6 DEF Distinct
<1> QED BY <1>5, <1>7 DEF a

LEMMA ElementsOfTail ==
  ASSUME NEW s \in Seq(Tasks), s # <<>>, Distinct(s)
  PROVE  /\ Elements(Tail(s)) = Elements(s) \ {Head(s)} /\ Distinct(Tail(s))
         /\ Head(s) \in Elements(s)
<1> DEFINE r == Tail(s)
<1>1. /\ r \in Seq(Tasks) /\ Len(r) = Len(s) - 1 /\ Len(s) \in Nat \ {0}
      /\ \A m \in 1..Len(r) : r[m] = s[m + 1]
      /\ Head(s) = s[1]
  BY HeadTailProperties, LenProperties, EmptySeq
<1> HIDE DEF r
<1>2. \A m \in 1..Len(r) : m + 1 \in 1..Len(s) /\ m + 1 # 1
  BY <1>1
<1>3. \A m \in 1..Len(s) : m # 1 => m - 1 \in 1..Len(r) /\ r[m - 1] = s[m]
  BY <1>1
<1>4. 1 \in 1..Len(s)
  BY <1>1
<1>5. \A u : u \in Elements(r) => u \in Elements(s) /\ u # Head(s)
  BY <1>1, <1>2, <1>4, ElementsOfSeq DEF Distinct
<1>6. \A u : u \in Elements(s) /\ u # Head(s) => u \in Elements(r)
  BY <1>1, <1>3, ElementsOfSeq
<1>7. Distinct(r)
  <2> SUFFICES ASSUME NEW m \in 1..Len(r), NEW n \in 1..Len(r), r[m] = r[n] PROVE m = n
    BY DEF Distinct
  <2>1. s[m + 1] = s[n + 1]
    BY <1>1
  <2>2. m + 1 = n + 1
    BY <1>2, <2>1 DEF Distinct
  <2> QED BY <1>1, <2>2
<1>8. Head(s) \in Elements(s)
  BY <1>1, <1>4, ElementsOfSeq
<1> QED BY <1>5, <1>6, <1>7, <1>8 DEF r

LEMMA ElementsOfEmpty == Elements(<<>>) = {} /\ Distinct(<<>>)
<1>1. <<>> \in Seq(Tasks) /\ Len(<<>>) = 0
  BY EmptySeq
<1>2. \A m \in 1..Len(<<>>) : FALSE
  BY <1>1
<1>3. \A t : t \notin Elements(<<>>)
  BY <1>1, <1>2, ElementsOfSeq
<1> QED BY <1>2, <1>3 DEF Distinct

(* Steps that move no task. *)
LEMMA SameRests ==
  ASSUME Accounted, UNCHANGED <<queue, waiting>>, Len(stack') = Len(stack),
         \A i \in 1..Len(stack) : stack'[i].rest = stack[i].rest
  PROVE  Accounted'
BY DEF Accounted, Rest

LEMMA SameRestsReplaced ==
  ASSUME IInv, Polling, Accounted, UNCHANGED <<queue, waiting>>,
         NEW frame \in Frames, frame.rest = Top.rest, Replaced(frame)
  PROVE  Accounted'
<1>1. Len(stack) \in Nat \ {0}
  BY TopFrame DEF IInv, TypeOK
<1>2. \A i \in 1..Len(stack) : i # Len(stack) => i \in 1..(Len(stack) - 1)
  BY <1>1
<1>3. \A i \in 1..Len(stack) : stack'[i].rest = stack[i].rest
  BY <1>2 DEF Replaced, Top
<1> QED BY <1>3, SameRests DEF Replaced

LEMMA PushedRest ==
  ASSUME IInv, Accounted, UNCHANGED <<queue, waiting>>, Pushed
  PROVE  Accounted'
<1>1. Len(stack) \in Nat /\ Len(stack') = Len(stack) + 1
  BY LenProperties DEF IInv, TypeOK, Pushed
<1>2. \A i \in 1..Len(stack') : i \in 1..Len(stack) \/ i = Len(stack) + 1
  BY <1>1
<1>3. \A i \in 1..Len(stack) : i \in 1..Len(stack') /\ stack'[i].rest = stack[i].rest
  BY <1>1 DEF Pushed
<1>4. stack'[Len(stack) + 1].rest = <<>>
  BY <1>1 DEF Pushed, Top, Frame
<1> QED BY <1>2, <1>3, <1>4, ElementsOfEmpty DEF Accounted, Rest

LEMMA PoppedRest ==
  ASSUME IInv, Polling, Accounted, UNCHANGED <<queue, waiting>>, Popped, Top.rest = <<>>
  PROVE  Accounted'
<1>1. Len(stack) \in Nat \ {0} /\ Len(stack') = Len(stack) - 1
  BY TopFrame DEF IInv, TypeOK, Popped
<1>2. \A i \in 1..Len(stack') : i \in 1..Len(stack) /\ stack'[i].rest = stack[i].rest
  BY <1>1 DEF Popped
<1>3. \A i \in 1..Len(stack) : i \in 1..Len(stack') \/ i = Len(stack)
  BY <1>1
<1>4. Rest(Len(stack)) = {}
  BY ElementsOfEmpty DEF Rest, Top
<1> QED BY <1>2, <1>3, <1>4 DEF Accounted, Rest

LEMMA PostedTask ==
  ASSUME IInv, Accounted, NEW t \in Tasks, PostTask(t)
  PROVE  Accounted'
<1>1. /\ t \notin Elements(queue) /\ \A i \in 1..Len(stack) : t \notin Rest(i)
      /\ queue \in Seq(Tasks) /\ Distinct(queue)
  BY DEF Accounted, PostTask, IInv, TypeOK
<1>2. /\ Elements(queue)' = Elements(queue) \cup {t} /\ Distinct(queue)'
      /\ waiting' = waiting \cup {t} /\ stack' = stack
  BY <1>1, ElementsOfAppend DEF PostTask
<1>3. \A i \in 1..Len(stack) : Rest(i)' = Rest(i)
  BY <1>2 DEF Rest
<1> QED BY <1>1, <1>2, <1>3 DEF Accounted

LEMMA TookTasks ==
  ASSUME IInv, Accounted, TakeTasks
  PROVE  Accounted'
<1> DEFINE top == [Top EXCEPT !.phase = "tasks", !.rest = queue]
<1>1. At("pump") /\ Polling /\ top \in Frames /\ top.rest = queue /\ Top.rest = <<>>
  BY FrameTyped DEF TakeTasks, At, IInv, TypeOK, Frames
<1>2. Replaced(top) /\ queue' = <<>> /\ waiting' = waiting
  BY <1>1, ReplaceTop DEF TakeTasks, IInv, TypeOK
<1> HIDE DEF top
<1>3. Len(stack) \in Nat \ {0} /\ Len(stack') = Len(stack)
  BY <1>1, <1>2, TopFrame DEF IInv, TypeOK, Replaced
<1>4. \A i \in 1..Len(stack) : i # Len(stack) => i \in 1..(Len(stack) - 1)
  BY <1>3
<1>5. /\ \A i \in 1..Len(stack) : i # Len(stack) => stack'[i] = stack[i]
      /\ stack'[Len(stack)].rest = queue /\ stack[Len(stack)].rest = <<>>
  BY <1>1, <1>2, <1>4 DEF Replaced, Top
<1>6. Len(stack) \in 1..Len(stack)
  BY <1>3
<1> QED BY <1>2, <1>3, <1>5, <1>6, ElementsOfEmpty DEF Accounted, Rest

LEMMA RanTask ==
  ASSUME IInv, Accounted, RunTask
  PROVE  Accounted'
<1> DEFINE top == [Top EXCEPT !.rest = Tail(Top.rest), !.busy = TRUE]
           n   == Len(stack)
<1>1. At("tasks") /\ Polling /\ Top.rest # <<>> /\ Top.rest \in Seq(Tasks) /\ stack \in Seq(Frames)
  BY TopFrame DEF RunTask, At, IInv, TypeOK
<1>2. Tail(Top.rest) \in Seq(Tasks) /\ n \in Nat \ {0}
  BY <1>1, HeadTailProperties, TopFrame
<1>3. top \in Frames /\ top.rest = Tail(Top.rest)
  BY <1>1, <1>2, FrameTyped DEF Frames
<1>4. Replaced(top) /\ queue' = queue /\ waiting' = waiting \ {Head(Top.rest)}
  BY <1>1, <1>3, ReplaceTop DEF RunTask
<1> HIDE DEF top, n
<1>5. \A i \in 1..n : i # n => i \in 1..(n - 1)
  BY <1>2
<1>6. /\ \A i \in 1..n : i # n => stack'[i] = stack[i]
      /\ stack'[n].rest = Tail(Top.rest) /\ stack[n].rest = Top.rest
      /\ Len(stack') = n /\ n \in 1..n /\ Len(stack) = n
  BY <1>2, <1>3, <1>4, <1>5 DEF Replaced, Top, n
<1>7. Distinct(Top.rest)
  BY <1>6 DEF Accounted
<1>8. /\ Elements(Tail(Top.rest)) = Elements(Top.rest) \ {Head(Top.rest)}
      /\ Distinct(Tail(Top.rest)) /\ Head(Top.rest) \in Elements(Top.rest)
  BY <1>1, <1>7, ElementsOfTail
<1>9. Rest(n) = Elements(Top.rest)
  BY <1>6 DEF Rest
<1>10. \A i \in 1..n : Rest(i)' = IF i = n THEN Rest(i) \ {Head(Top.rest)} ELSE Rest(i)
  BY <1>6, <1>8, <1>9 DEF Rest
<1>11. \A i \in 1..n : Distinct(stack[i].rest)'
  BY <1>6, <1>8 DEF Accounted
<1>12. \A i \in 1..n : i # n => Head(Top.rest) \notin Rest(i)
  BY <1>6, <1>8, <1>9 DEF Accounted
<1>13. Head(Top.rest) \notin Elements(queue)
  BY <1>6, <1>8, <1>9 DEF Accounted
<1>14. \A t \in Tasks :
         t \in waiting' <=> t \in Elements(queue) \/ \E i \in 1..n : t \in Rest(i)'
  BY <1>4, <1>6, <1>8, <1>9, <1>10, <1>12, <1>13 DEF Accounted
<1> QED BY <1>4, <1>6, <1>10, <1>11, <1>14 DEF Accounted

LEMMA NextAccounted == IInv /\ Accounted /\ [Next]_vars => Accounted'
<1> SUFFICES ASSUME IInv, Accounted, [Next]_vars PROVE Accounted'
  OBVIOUS
<1>1. CASE UNCHANGED <<stack, queue, waiting>>
  BY <1>1 DEF Accounted, Rest
<1>2. ASSUME NEW t \in Tasks, PostTask(t) PROVE Accounted'
  BY <1>2, PostedTask
<1>3. CASE TakeTasks
  BY <1>3, TookTasks
<1>4. CASE RunTask
  BY <1>4, RanTask
<1>5. CASE PollOnce \/ Iterate
  <2>1. UNCHANGED <<queue, waiting>>
    BY <1>5 DEF PollOnce, Iterate
  <2>2. ASSUME Iterate PROVE stack' = Append(stack, Frame)
    BY <2>2 DEF Iterate, Polling
  <2>3. stack' = Append(stack, Frame)
    BY <1>5, <2>2 DEF PollOnce
  <2> QED BY <2>1, <2>3, PushFrame, PushedRest DEF IInv, TypeOK
<1>6. CASE EndPass
  <2>1. /\ Polling /\ Top.phase = "timers" /\ UNCHANGED <<queue, waiting>>
        /\ stack' = SubSeq(stack, 1, Len(stack) - 1)
    BY <1>6 DEF EndPass, At
  <2>2. Top.rest = <<>>
    BY <2>1, FrameTyped
  <2> QED BY <2>1, <2>2, PopFrame, PoppedRest DEF IInv, TypeOK
<1>7. CASE BeginPass
  <2>1. /\ Polling /\ UNCHANGED <<queue, waiting>>
        /\ SetTop([Top EXCEPT !.phase = "timers"])
    BY <1>7 DEF BeginPass, At
  <2>2. [Top EXCEPT !.phase = "timers"].rest = Top.rest
    BY <2>1, FrameTyped DEF Frames
  <2> QED BY <2>1, <2>2, FrameTyped, ReplaceTop, SameRestsReplaced DEF IInv, TypeOK
<1>8. CASE InputEvent \/ FireTimer
  <2>1. Polling /\ UNCHANGED <<queue, waiting>> /\ SetTop([Top EXCEPT !.busy = TRUE])
    BY <1>8 DEF InputEvent, FireTimer, At
  <2>2. [Top EXCEPT !.busy = TRUE].rest = Top.rest
    BY <2>1, FrameTyped DEF Frames
  <2> QED BY <2>1, <2>2, FrameTyped, ReplaceTop, SameRestsReplaced DEF IInv, TypeOK
<1>9. CASE Return \/ EndFiring
  <2>1. Polling /\ UNCHANGED <<queue, waiting>> /\ SetTop([Top EXCEPT !.busy = FALSE])
    BY <1>9 DEF Return, EndFiring
  <2>2. [Top EXCEPT !.busy = FALSE].rest = Top.rest
    BY <2>1, FrameTyped DEF Frames
  <2> QED BY <2>1, <2>2, FrameTyped, ReplaceTop, SameRestsReplaced DEF IInv, TypeOK
<1>10. CASE \/ \E every \in Intervals, repeat \in BOOLEAN : SetTimer(every, repeat)
            \/ \E id \in 1..MaxTimers : CancelTimer(id)
            \/ Quit \/ SkipTimer \/ WindowClosed \/ Run \/ EnterLoop \/ ReturnFromRun \/ ClockTick
  BY <1>1, <1>10 DEF SetTimer, CancelTimer, Quit, SkipTimer, WindowClosed, Run, EnterLoop,
     ReturnFromRun, ClockTick, loopVars
<1>11. CASE UNCHANGED vars
  BY <1>1, <1>11 DEF vars, loopVars
<1> QED BY <1>2, <1>3, <1>4, <1>5, <1>6, <1>7, <1>8, <1>9, <1>10, <1>11
        DEF Next, Callback, Poll

LEMMA InitAccounted == Init => Accounted
<1> SUFFICES ASSUME Init PROVE Accounted
  OBVIOUS
<1>1. queue = <<>> /\ waiting = {} /\ stack = <<>> /\ Len(stack) = 0
  BY EmptySeq DEF Init
<1>2. \A i \in 1..Len(stack) : FALSE
  BY <1>1
<1> QED BY <1>1, <1>2, ElementsOfEmpty DEF Accounted

(* A posted task is in the queue or in the rest of one ProcessTasks until  *)
(* it runs: input callbacks and tasks that poll neither lose nor repeat    *)
(* one, however deep they nest.                                            *)
THEOREM TasksRunOnce == Spec => []TasksAccounted
<1>1. IInv /\ Accounted => TasksAccounted
  <2> SUFFICES ASSUME IInv, Accounted PROVE TasksAccounted
    OBVIOUS
  <2>1. DOMAIN stack = 1..Len(stack) /\ waiting \subseteq Tasks /\ queue \in Seq(Tasks)
    BY LenProperties DEF IInv, TypeOK
  <2>2. \A i \in 1..Len(stack) : stack[i].rest \in Seq(Tasks)
    <3> TAKE i \in 1..Len(stack)
    <3>1. stack[i] \in Frames
      BY ElementOfSeq DEF IInv, TypeOK
    <3> QED BY <3>1 DEF Frames
  <2>3. Elements(queue) \subseteq Tasks /\ \A i \in 1..Len(stack) : Rest(i) \subseteq Tasks
    BY <2>1, <2>2, ElementsOfSeq DEF Rest
  <2>4. waiting = Elements(queue) \cup UNION {Elements(stack[i].rest) : i \in DOMAIN stack}
    BY <2>1, <2>3 DEF Accounted, Rest
  <2> QED BY <2>1, <2>4 DEF Accounted, Rest, TasksAccounted
<1> QED BY <1>1, InitIInv, NextIInv, InitAccounted, NextAccounted, PTL DEF Spec

=============================================================================
