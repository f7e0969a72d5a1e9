----------------------------- MODULE EventLoop -----------------------------
(***************************************************************************)
(* The event loop (Sdl2EventLoop, which leaves tasks and timers to a       *)
(* HeadlessEventLoop) and the application's Run and Quit.                  *)
(*                                                                         *)
(* PollOnce pumps input events, runs the tasks posted so far, then makes a *)
(* pass over the timers and fires those that are due at the start of it.   *)
(* Each of these runs a callback, which may call the loop again: post      *)
(* tasks, set and cancel timers, quit, and poll. `stack` has a frame for   *)
(* each PollOnce under way, the innermost last.                            *)
(*                                                                         *)
(* timers_ is appended to with growing ids and compacted in order, so its  *)
(* order is that of the ids, and a pass is the set of due ids it has still *)
(* to come to. A timer callback that polls is not modelled: the inner pass *)
(* would compact the vector the outer one runs over.                       *)
(***************************************************************************)
EXTENDS Naturals, Sequences, FiniteSets

CONSTANTS
  Tasks,      \* a task is posted again only after it has run
  Intervals,  \* of the timers callbacks set, in ticks
  FrameTime,  \* 1000 / target_fps, in ticks
  MaxTimers,  \* bound on the timers set
  MaxDepth    \* bound on the polls under way

ASSUME EventLoopAssumption ==
  /\ Intervals \subseteq Nat /\ FrameTime \in Nat
  /\ MaxTimers \in Nat /\ MaxDepth \in Nat

VARIABLES
  queue,      \* task_queue_
  stack,      \* the calls of PollOnce
  timers,     \* timers_, by id
  due,        \* ids the pass has still to come to, due at its `now`
  fresh,      \* the clock still shows the pass's `now`
  running,    \* running_
  mode,       \* where Application::Run is
  frameTimer, \* frame_timer_id_
  nextId,     \* next_timer_id_
  firing,     \* history: the timer whose callback runs, or 0
  waiting,    \* history: tasks posted that have not run
  silent,     \* history: timers cancelled
  spent,      \* history: timers that will not repeat and have fired
  asked       \* history: Run has been asked to return

loopVars == <<queue, stack, due, fresh, waiting>>
timerVars == <<timers, nextId, firing, silent, spent>>
runVars  == <<running, mode, frameTimer, asked>>
vars == <<loopVars, timerVars, runVars>>

Init ==
  /\ queue = <<>> /\ stack = <<>> /\ due = {} /\ fresh = FALSE /\ waiting = {}
  /\ timers = <<>> /\ nextId = 1 /\ firing = 0 /\ silent = {} /\ spent = {}
  /\ running = FALSE /\ mode = "idle" /\ frameTimer = 0 /\ asked = FALSE

----------------------------------------------------------------------------
Polling == stack # <<>>
Top     == stack[Len(stack)]

SetTop(frame) == stack' = [stack EXCEPT ![Len(stack)] = frame]

At(phase) == Polling /\ Top.phase = phase /\ ~Top.busy

(* Code that may call the loop: a callback, the hooks of Run's first       *)
(* update, and the program outside Run.                                    *)
Caller == IF Polling THEN Top.busy ELSE mode # "looping"

Live(id) == id \in DOMAIN timers /\ ~timers[id].cancelled

PostTask(t) ==
  /\ Caller /\ t \notin waiting
  /\ queue' = Append(queue, t) /\ waiting' = waiting \cup {t}
  /\ UNCHANGED <<stack, due, fresh, timerVars, runVars>>

(* A timer set in a callback of the pass, for no time and before the clock *)
(* moves, is due in the same pass.                                         *)
AddTimer(every, repeat) ==
  /\ nextId <= MaxTimers
  /\ timers' = [id \in DOMAIN timers \cup {nextId} |->
       IF id = nextId THEN [every |-> every, left |-> every, repeat |-> repeat, cancelled |-> FALSE]
       ELSE timers[id]]
  /\ due' = IF fresh /\ every = 0 THEN due \cup {nextId} ELSE due
  /\ nextId' = nextId + 1

SetTimer(every, repeat) ==
  /\ Caller /\ AddTimer(every, repeat)
  /\ UNCHANGED <<queue, stack, fresh, waiting, firing, silent, spent, runVars>>

Cancelled(id) == [timers EXCEPT ![id].cancelled = TRUE]

(* The frame timer's id is known to the application only.                  *)
CancelTimer(id) ==
  /\ Caller /\ id \in DOMAIN timers /\ id # frameTimer
  /\ timers' = Cancelled(id) /\ silent' = silent \cup {id}
  /\ UNCHANGED <<loopVars, nextId, firing, spent, runVars>>

Frame == [phase |-> "pump", rest |-> <<>>, busy |-> FALSE]

PollOnce ==
  /\ Caller /\ Len(stack) < MaxDepth
  /\ Polling => Top.phase # "timers"
  /\ stack' = Append(stack, Frame)
  /\ UNCHANGED <<queue, due, fresh, waiting, timerVars, runVars>>

----------------------------------------------------------------------------
(* Application::Run: a first update, the frame timer, the loop.            *)

Run ==
  /\ mode = "idle" /\ ~Polling
  /\ mode' = "first"
  /\ UNCHANGED <<loopVars, timerVars, running, frameTimer, asked>>

EnterLoop ==
  /\ mode = "first" /\ ~Polling
  /\ AddTimer(FrameTime, TRUE) /\ frameTimer' = nextId
  /\ running' = TRUE /\ mode' = "looping"
  /\ UNCHANGED <<queue, stack, fresh, waiting, firing, silent, spent, asked>>

Iterate ==
  /\ mode = "looping" /\ ~Polling /\ running
  /\ stack' = <<Frame>>
  /\ UNCHANGED <<queue, due, fresh, waiting, timerVars, runVars>>

ReturnFromRun ==
  /\ mode = "looping" /\ ~Polling /\ ~running
  /\ mode' = "idle" /\ asked' = FALSE
  /\ UNCHANGED <<loopVars, timerVars, running, frameTimer>>

(* Application::Quit. *)
Quit ==
  /\ Caller
  /\ IF frameTimer \in DOMAIN timers
     THEN timers' = Cancelled(frameTimer) /\ silent' = silent \cup {frameTimer}
     ELSE UNCHANGED <<timers, silent>>
  /\ running' = FALSE /\ asked' = (asked \/ mode = "looping")
  /\ UNCHANGED <<loopVars, nextId, firing, spent, mode, frameTimer>>

----------------------------------------------------------------------------
(* PumpInputEvents: SDL_QUIT, or an event for the input callback.          *)

(* Mutant: the composed headless loop is told to quit. *)
WindowClosedInner ==
  /\ At("pump")
  /\ asked' = (asked \/ mode = "looping")
  /\ UNCHANGED <<loopVars, timerVars, running, mode, frameTimer>>

WindowClosed ==
  /\ At("pump")
  /\ running' = FALSE /\ asked' = (asked \/ mode = "looping")
  /\ UNCHANGED <<loopVars, timerVars, mode, frameTimer>>

InputEvent ==
  /\ At("pump")
  /\ SetTop([Top EXCEPT !.busy = TRUE])
  /\ UNCHANGED <<queue, due, fresh, waiting, timerVars, runVars>>

(* Mutant: the queue is emptied when its tasks have run. *)
TakeTasksLate ==
  /\ At("pump")
  /\ SetTop([Top EXCEPT !.phase = "tasks", !.rest = queue])
  /\ UNCHANGED <<queue, due, fresh, waiting, timerVars, runVars>>

(* ProcessTasks takes the queue, and leaves new tasks to the next poll.    *)
TakeTasks ==
  /\ At("pump")
  /\ SetTop([Top EXCEPT !.phase = "tasks", !.rest = queue]) /\ queue' = <<>>
  /\ UNCHANGED <<due, fresh, waiting, timerVars, runVars>>

RunTask ==
  /\ At("tasks") /\ Top.rest # <<>>
  /\ SetTop([Top EXCEPT !.rest = Tail(Top.rest), !.busy = TRUE])
  /\ waiting' = waiting \ {Head(Top.rest)}
  /\ UNCHANGED <<queue, due, fresh, timerVars, runVars>>

(* The callback of an input event or a task returns.                       *)
Return ==
  /\ Polling /\ Top.busy /\ Top.phase # "timers"
  /\ SetTop([Top EXCEPT !.busy = FALSE])
  /\ UNCHANGED <<queue, due, fresh, waiting, timerVars, runVars>>

(* Mutant: ProcessTasks goes on while there are tasks. *)
BeginPassWhenNoTask ==
  /\ At("tasks") /\ Top.rest = <<>>
  /\ \/ /\ queue # <<>>
        /\ SetTop([Top EXCEPT !.rest = queue]) /\ queue' = <<>>
        /\ UNCHANGED <<due, fresh>>
     \/ /\ queue = <<>>
        /\ SetTop([Top EXCEPT !.phase = "timers"]) /\ UNCHANGED queue
        /\ due' = {id \in DOMAIN timers : timers[id].left = 0} /\ fresh' = TRUE
  /\ UNCHANGED <<waiting, timerVars, runVars>>

(* ProcessTimers reads the clock. *)
BeginPass ==
  /\ At("tasks") /\ Top.rest = <<>>
  /\ SetTop([Top EXCEPT !.phase = "timers"])
  /\ due' = {id \in DOMAIN timers : timers[id].left = 0} /\ fresh' = TRUE
  /\ UNCHANGED <<queue, waiting, timerVars, runVars>>

NextDue == CHOOSE id \in due : \A other \in due : id <= other

SkipTimer ==
  /\ At("timers") /\ due # {} /\ timers[NextDue].cancelled
  /\ due' = due \ {NextDue}
  /\ UNCHANGED <<queue, stack, fresh, waiting, timerVars, runVars>>

(* Mutant: the timers to fire are settled when the pass begins. *)
FireTimerDue ==
  /\ At("timers") /\ due # {}
  /\ SetTop([Top EXCEPT !.busy = TRUE])
  /\ firing' = NextDue /\ due' = due \ {NextDue}
  /\ spent' = IF timers[NextDue].repeat THEN spent ELSE spent \cup {NextDue}
  /\ UNCHANGED <<queue, fresh, waiting, timers, nextId, silent, runVars>>

FireTimer ==
  /\ At("timers") /\ due # {} /\ ~timers[NextDue].cancelled
  /\ SetTop([Top EXCEPT !.busy = TRUE])
  /\ firing' = NextDue /\ due' = due \ {NextDue}
  /\ spent' = IF timers[NextDue].repeat THEN spent ELSE spent \cup {NextDue}
  /\ UNCHANGED <<queue, fresh, waiting, timers, nextId, silent, runVars>>

(* The next time is counted from the pass's `now`: if the clock has moved  *)
(* since, less than the interval is left, or nothing.                      *)
TimeLeft(every) == IF fresh THEN {every} ELSE {0} \cup 0..(every - 1)

(* Mutant: the timer is found again as the last one of the vector. *)
EndFiringLast ==
  /\ Polling /\ Top.busy /\ Top.phase = "timers"
  /\ LET last == CHOOSE id \in DOMAIN timers : \A other \in DOMAIN timers : other <= id
     IN IF timers[last].repeat
        THEN \E left \in TimeLeft(timers[last].every) :
               timers' = [timers EXCEPT ![last].left = left]
        ELSE timers' = Cancelled(last)
  /\ SetTop([Top EXCEPT !.busy = FALSE]) /\ firing' = 0
  /\ UNCHANGED <<queue, due, fresh, waiting, nextId, silent, spent, runVars>>

(* A timer's callback returns. *)
EndFiring ==
  /\ Polling /\ Top.busy /\ Top.phase = "timers"
  /\ IF timers[firing].repeat
     THEN \E left \in TimeLeft(timers[firing].every) :
            timers' = [timers EXCEPT ![firing].left = left]
     ELSE timers' = Cancelled(firing)
  /\ SetTop([Top EXCEPT !.busy = FALSE]) /\ firing' = 0
  /\ UNCHANGED <<queue, due, fresh, waiting, nextId, silent, spent, runVars>>

(* Cancelled timers are removed, and PollOnce returns. *)
EndPass ==
  /\ At("timers") /\ due = {}
  /\ timers' = [id \in {i \in DOMAIN timers : Live(i)} |-> timers[id]]
  /\ stack' = SubSeq(stack, 1, Len(stack) - 1) /\ fresh' = FALSE
  /\ UNCHANGED <<queue, due, waiting, nextId, firing, silent, spent, runVars>>

ClockTick ==
  /\ fresh \/ \E id \in DOMAIN timers : timers[id].left > 0
  /\ timers' = [id \in DOMAIN timers |->
       [timers[id] EXCEPT !.left = IF @ > 0 THEN @ - 1 ELSE 0]]
  /\ fresh' = FALSE
  /\ UNCHANGED <<queue, stack, due, waiting, nextId, firing, silent, spent, runVars>>

----------------------------------------------------------------------------
Callback ==
  \/ \E t \in Tasks : PostTask(t)
  \/ \E every \in Intervals, repeat \in BOOLEAN : SetTimer(every, repeat)
  \/ \E id \in 1..MaxTimers : CancelTimer(id)
  \/ PollOnce \/ Quit

Poll ==
  \/ TakeTasks \/ RunTask \/ BeginPass \/ SkipTimer \/ FireTimer \/ EndPass

Next ==
  \/ Callback \/ Poll \/ Return \/ EndFiring \/ InputEvent \/ WindowClosed
  \/ Run \/ EnterLoop \/ Iterate \/ ReturnFromRun
  \/ ClockTick

(* The loop's own steps do not block. A callback returns, however often it *)
(* polls, and the window system's queue is found empty in the end, at each *)
(* depth of polling. The steady clock moves whatever the program does.     *)
Fairness ==
  /\ WF_vars(Iterate \/ ReturnFromRun \/ EnterLoop)
  /\ WF_vars(RunTask \/ BeginPass \/ SkipTimer \/ FireTimer \/ EndPass)
  /\ \A depth \in 1..MaxDepth :
       /\ SF_vars(TakeTasks /\ Len(stack) = depth)
       /\ SF_vars(Return /\ Len(stack) = depth)
  /\ SF_vars(EndFiring) /\ SF_vars(ClockTick)

Spec == Init /\ [][Next]_vars /\ Fairness

----------------------------------------------------------------------------
Ids == 1..(nextId - 1)

Frames == [phase: {"pump", "tasks", "timers"}, rest: Seq(Tasks), busy: BOOLEAN]

Timers == [every: Nat, left: Nat, repeat: BOOLEAN, cancelled: BOOLEAN]

(* Every variable holds a value of its kind; a pass only has timers to     *)
(* come to that the vector has.                                            *)
TypeOK ==
  /\ queue \in Seq(Tasks) /\ stack \in Seq(Frames) /\ waiting \subseteq Tasks
  /\ nextId \in Nat \ {0} /\ DOMAIN timers \subseteq Ids
  /\ timers \in [DOMAIN timers -> Timers]
  /\ due \subseteq DOMAIN timers /\ fresh \in BOOLEAN
  /\ firing \in DOMAIN timers \cup {0} /\ silent \subseteq Ids /\ spent \subseteq Ids
  /\ running \in BOOLEAN /\ mode \in {"idle", "first", "looping"}
  /\ frameTimer \in Ids \cup {0} /\ asked \in BOOLEAN

Elements(s) == {s[i] : i \in DOMAIN s}

(* A posted task is in the queue or in the rest of one ProcessTasks until  *)
(* it runs, once: polling from a task neither loses nor repeats one.       *)
TasksAccounted ==
  /\ waiting = Elements(queue) \cup UNION {Elements(stack[i].rest) : i \in DOMAIN stack}
  /\ \A i \in DOMAIN stack : Elements(stack[i].rest) \cap Elements(queue) = {}
  /\ \A i, j \in DOMAIN stack : i # j => Elements(stack[i].rest) \cap Elements(stack[j].rest) = {}

(* A timer that was cancelled, even by another callback of the same pass,  *)
(* does not fire, and one that does not repeat fires once.                 *)
NoLateFire ==
  [][firing' # firing /\ firing' # 0 => firing' \notin silent \cup spent]_vars

(* A timer is there until it is cancelled or, if it does not repeat, fires.*)
NoTimerLost == \A id \in Ids \ (silent \cup spent) : Live(id)

(* Run asked to return, by Quit in a callback or by the window, returns.   *)
QuitReturns == asked ~> mode = "idle"

(* While the loop runs, the next frame comes, whatever tasks post tasks    *)
(* and timers set timers.                                                  *)
FramesGoOn == mode = "looping" ~> (firing # 0 /\ firing = frameTimer) \/ ~running

=============================================================================
