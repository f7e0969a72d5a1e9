----------------------------- MODULE HotReload -----------------------------
(***************************************************************************)
(* Hot reload of style sheets: an editor writes .css files, the kernel     *)
(* queues inotify events, the watcher thread (WatchLoop, ProcessBuffer)    *)
(* debounces them and fills HotReloadManager's queue, and the main thread  *)
(* drains the queue once a frame and reads the files as they are by then.  *)
(* Attach and Detach stop the watch by clearing a flag and joining the     *)
(* thread, which may be in the middle of a buffer.                         *)
(***************************************************************************)
EXTENDS Naturals, SequencesExt

CONSTANTS
  Files,      \* style sheets in the watched directory
  Paced,      \* TRUE if writes to a file leave the watcher time for each
  MaxWrites,  \* bound on writes of the editor
  MaxWatches  \* bound on watches started

ASSUME HotReloadAssumption ==
  MaxWrites \in Nat /\ MaxWatches \in Nat /\ Paced \in BOOLEAN

VARIABLES
  disk,     \* what each file holds
  writes,   \* writes so far; each gives the file a new version
  notified, \* files written during the present watch
  kernel,   \* inotify's event queue: names of written files
  running,  \* running_
  worker,   \* watch_thread_: "none", in WatchLoop, in ProcessBuffer, or "failed"
  buffer,   \* events ProcessBuffer still has to handle
  recent,   \* files whose last_event_ms_ is less than kDebounceMs ago
  queue,    \* queue_
  main,     \* what the main thread is in
  thenAttach, \* TRUE if Detach was called by Attach
  local,    \* DrainEvents' own queue
  loaded,   \* version of each file LoadCSS last got
  watches

editorVars  == <<disk, writes, notified>>
watcherVars == <<kernel, worker, buffer, recent>>
mainVars    == <<running, main, thenAttach, local, loaded, watches>>
vars == <<editorVars, watcherVars, queue, mainVars>>

Init ==
  /\ disk = [f \in Files |-> [state |-> "whole", version |-> 0]]
  /\ writes = 0
  /\ notified = {}
  /\ kernel = <<>> /\ buffer = <<>> /\ queue = <<>> /\ local = <<>>
  /\ running = FALSE /\ worker = "none" /\ main = "idle" /\ thenAttach = FALSE
  /\ recent = {}
  /\ loaded = [f \in Files |-> 0]
  /\ watches = 0

----------------------------------------------------------------------------
(* The editor and the kernel. A save may empty the file and fill it again, *)
(* or rename a finished file over it. The watch mask has no event for a    *)
(* file that goes away.                                                    *)

Watched == worker # "none"

(* Equal events next to each other are merged. *)
Queued(events, f) ==
  IF events # <<>> /\ Last(events) = f THEN events ELSE Append(events, f)

MayWrite(f) ==
  /\ writes < MaxWrites
  /\ Paced => f \notin recent /\ f \notin ToSet(kernel) /\ f \notin ToSet(buffer)

Write(f, state) ==
  /\ MayWrite(f)
  /\ disk' = [disk EXCEPT ![f] = [state |-> state, version |-> writes + 1]]
  /\ writes' = writes + 1
  /\ kernel' = IF Watched THEN Queued(kernel, f) ELSE kernel
  /\ notified' = IF Watched THEN notified \cup {f} ELSE notified
  /\ UNCHANGED <<worker, buffer, recent, queue, mainVars>>

SaveWhole(f) == Write(f, "whole")
SaveTorn(f)  == Write(f, "torn")

Delete(f) ==
  /\ writes < MaxWrites
  /\ disk[f].state # "missing"
  /\ disk' = [disk EXCEPT ![f].state = "missing"]
  /\ writes' = writes + 1
  /\ UNCHANGED <<notified, watcherVars, queue, mainVars>>

----------------------------------------------------------------------------
(* The watcher thread. *)

(* Mutant: the thread waits for events without looking at running_. *)
WatchLoopDeaf ==
  /\ worker = "loop"
  /\ kernel # <<>>
  /\ worker' = "buffer" /\ buffer' = kernel /\ kernel' = <<>>
  /\ UNCHANGED <<editorVars, recent, queue, mainVars>>

(* WatchLoop: leave when the flag is down, otherwise read what there is.   *)
WatchLoop ==
  /\ worker = "loop"
  /\ \/ /\ ~running
        /\ worker' = "none"
        /\ UNCHANGED <<kernel, buffer>>
     \/ /\ running /\ kernel # <<>>
        /\ worker' = "buffer"
        /\ buffer' = kernel
        /\ kernel' = <<>>
  /\ UNCHANGED <<editorVars, recent, queue, mainVars>>

(* A read that fails ends the thread; the flag and the watch stay.         *)
ReadFails ==
  /\ worker = "loop" /\ running
  /\ worker' = "failed"
  /\ UNCHANGED <<editorVars, kernel, buffer, recent, queue, mainVars>>

(* ProcessBuffer, one event: a file that cannot be resolved is skipped,    *)
(* one handled within the debounce interval is dropped, any other goes     *)
(* through the callback into the queue. The flag is not looked at.         *)
ProcessEvent ==
  /\ worker = "buffer" /\ buffer # <<>>
  /\ LET f == Head(buffer)
         pass == disk[f].state # "missing" /\ f \notin recent
     IN /\ recent' = IF pass THEN recent \cup {f} ELSE recent
        /\ queue' = IF pass THEN Append(queue, f) ELSE queue
  /\ buffer' = Tail(buffer)
  /\ UNCHANGED <<editorVars, kernel, worker, mainVars>>

EndBuffer ==
  /\ worker = "buffer" /\ buffer = <<>>
  /\ worker' = "loop"
  /\ UNCHANGED <<editorVars, kernel, buffer, recent, queue, mainVars>>

(* kDebounceMs go by. *)
DebounceOver ==
  /\ \E f \in recent : recent' = recent \ {f}
  /\ UNCHANGED <<editorVars, kernel, worker, buffer, queue, mainVars>>

----------------------------------------------------------------------------
(* The main thread. *)

(* Detach, and the one Attach begins with: running_ goes down and the      *)
(* thread is joined.                                                       *)
Detach ==
  /\ main = "idle"
  /\ main' = "join"
  /\ running' = FALSE
  /\ thenAttach' \in BOOLEAN
  /\ watches + (IF thenAttach' THEN 1 ELSE 0) <= MaxWatches
  /\ watches' = watches + (IF thenAttach' THEN 1 ELSE 0)
  /\ UNCHANGED <<editorVars, watcherVars, queue, local, loaded>>

Ended == worker \in {"none", "failed"}

(* Mutant: pending events survive the watch they came from. *)
JoinedKeepsQueue ==
  /\ main = "join" /\ Ended
  /\ main' = "idle" /\ kernel' = <<>> /\ recent' = {} /\ notified' = {}
  /\ \/ running' = FALSE /\ worker' = "none"
     \/ thenAttach /\ running' = TRUE /\ worker' = "loop"
  /\ UNCHANGED <<disk, writes, buffer, queue, thenAttach, local, loaded, watches>>

(* The thread has ended: the descriptor is closed and the queue emptied.   *)
(* Attach then starts a new watch, unless Start fails.                     *)
Joined ==
  /\ main = "join" /\ Ended
  /\ main' = "idle"
  /\ kernel' = <<>>
  /\ recent' = {}
  /\ queue' = <<>>
  /\ notified' = {}
  /\ \/ running' = FALSE /\ worker' = "none"
     \/ thenAttach /\ running' = TRUE /\ worker' = "loop"
  /\ UNCHANGED <<disk, writes, buffer, thenAttach, local, loaded, watches>>

(* DrainEvents takes the whole queue under its mutex. *)
DrainBegin ==
  /\ main = "idle" /\ queue # <<>>
  /\ main' = "drain"
  /\ local' = queue
  /\ queue' = <<>>
  /\ UNCHANGED <<editorVars, watcherVars, running, thenAttach, loaded, watches>>

(* Mutant: a file that fails ends the drain. *)
DrainOneStopsEarly ==
  /\ main = "drain" /\ local # <<>>
  /\ LET f == Head(local) IN
       IF disk[f].state = "whole"
       THEN loaded' = [loaded EXCEPT ![f] = disk[f].version] /\ local' = Tail(local)
       ELSE local' = <<>> /\ UNCHANGED loaded
  /\ UNCHANGED <<editorVars, watcherVars, queue, running, main, thenAttach, watches>>

(* One file: opened, checked for balanced braces and given to LoadCSS; a   *)
(* file that fails is passed over and the drain goes on.                   *)
DrainOne ==
  /\ main = "drain" /\ local # <<>>
  /\ LET f == Head(local) IN
       loaded' = IF disk[f].state = "whole" THEN [loaded EXCEPT ![f] = disk[f].version] ELSE loaded
  /\ local' = Tail(local)
  /\ UNCHANGED <<editorVars, watcherVars, queue, running, main, thenAttach, watches>>

DrainEnd ==
  /\ main = "drain" /\ local = <<>>
  /\ main' = "idle"
  /\ UNCHANGED <<editorVars, watcherVars, queue, running, thenAttach, local, loaded, watches>>

Drain  == DrainBegin \/ DrainOne \/ DrainEnd
Worker == WatchLoop \/ ProcessEvent \/ EndBuffer

Next ==
  \/ \E f \in Files : SaveWhole(f) \/ SaveTorn(f) \/ Delete(f)
  \/ Worker \/ ReadFails \/ DebounceOver
  \/ Detach \/ Joined
  \/ Drain

Spec == Init /\ [][Next]_vars

(* The thread runs (no read need fail), the frame timer goes on draining,  *)
(* and a main thread that waits in join goes on when the thread has ended. *)
FairSpec == Spec /\ WF_vars(Worker) /\ WF_vars(Drain) /\ WF_vars(Joined)

----------------------------------------------------------------------------
Contents == [state: {"whole", "torn", "missing"}, version: 0..MaxWrites]

(* Every variable holds a value of its kind; events are left in a buffer   *)
(* or in DrainEvents' queue only while they are being handled.             *)
TypeOK ==
  /\ disk \in [Files -> Contents]
  /\ writes \in 0..MaxWrites
  /\ notified \subseteq Files /\ recent \subseteq Files
  /\ kernel \in Seq(Files) /\ buffer \in Seq(Files) /\ queue \in Seq(Files) /\ local \in Seq(Files)
  /\ running \in BOOLEAN /\ thenAttach \in BOOLEAN
  /\ worker \in {"none", "loop", "buffer", "failed"}
  /\ main \in {"idle", "join", "drain"}
  /\ loaded \in [Files -> 0..MaxWrites]
  /\ watches \in 0..MaxWatches
  /\ buffer # <<>> => worker = "buffer"
  /\ local # <<>> => main = "drain"

(* Stop() joins the thread, "which guarantees no callback fires after      *)
(* Stop() returns": once Detach has returned, no event of the old watch is *)
(* anywhere on its way to LoadCSS.                                         *)
QuietAfterDetach ==
  main = "idle" /\ ~running =>
    worker = "none" /\ buffer = <<>> /\ queue = <<>> /\ kernel = <<>> /\ local = <<>>

OnItsWay(f) == f \in ToSet(kernel) \cup ToSet(buffer) \cup ToSet(queue) \cup ToSet(local)

Behind(f) == running /\ f \in notified /\ disk[f].state = "whole" /\ loaded[f] # disk[f].version

(* No edit is forgotten: if a file was written during this watch, is whole *)
(* and is not what the page has, then it will be read again. An edit made  *)
(* while an earlier event of the file is anywhere between the kernel and   *)
(* the drain counts on that event.                                         *)
EditsAccounted == \A f \in Files : Behind(f) => OnItsWay(f)

(* The page catches up with every file the editor leaves alone, unless the *)
(* watch ends or its thread has given up.                                  *)
EditsLoaded == \A f \in Files : Behind(f) ~> (~Behind(f) \/ worker = "failed")

(* Detach returns: the thread always sees the flag. *)
DetachReturns == (main = "join") ~> (main = "idle")

=============================================================================
