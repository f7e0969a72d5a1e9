-------------------------- MODULE HotReloadProofs --------------------------
(***************************************************************************)
(* Proofs about module HotReload for any set of files and any number of    *)
(* writes and watches: nothing of an old watch survives Detach, and with   *)
(* paced writes no edit is forgotten.                                      *)
(***************************************************************************)
EXTENDS HotReload, TLAPS

(* What a queue operation does to the set of files in the queue. *)
LEMMA AppendFiles ==
  ASSUME NEW s \in Seq(Files), NEW f \in Files
  PROVE  Append(s, f) \in Seq(Files) /\ ToSet(Append(s, f)) = ToSet(s) \cup {f}
<1>1. /\ Append(s, f) \in Seq(Files) /\ Len(Append(s, f)) = Len(s) + 1
      /\ \A i \in 1..Len(s) : Append(s, f)[i] = s[i]
      /\ Append(s, f)[Len(s) + 1] = f /\ Len(s) \in Nat
  OBVIOUS
<1>2. ToSet(Append(s, f)) \subseteq ToSet(s) \cup {f}
  BY <1>1 DEF ToSet
<1>3. ToSet(s) \cup {f} \subseteq ToSet(Append(s, f))
  <2>1. \A i \in DOMAIN s : s[i] \in ToSet(Append(s, f))
    BY <1>1 DEF ToSet
  <2>2. f \in ToSet(Append(s, f))
    <3>1. Len(s) + 1 \in DOMAIN Append(s, f)
      BY <1>1
    <3> QED
      BY <1>1, <3>1 DEF ToSet
  <2> QED
    BY <2>1, <2>2 DEF ToSet
<1> QED
  BY <1>1, <1>2, <1>3

LEMMA HeadTail ==
  ASSUME NEW s \in Seq(Files), s # <<>>
  PROVE  /\ Head(s) \in Files /\ Tail(s) \in Seq(Files)
         /\ ToSet(s) = {Head(s)} \cup ToSet(Tail(s))
<1>1. /\ Head(s) = s[1] /\ Tail(s) \in Seq(Files) /\ Len(s) \in Nat \ {0}
      /\ Len(Tail(s)) = Len(s) - 1 /\ \A i \in 1..(Len(s) - 1) : Tail(s)[i] = s[i + 1]
  OBVIOUS
<1>2. ToSet(s) \subseteq {Head(s)} \cup ToSet(Tail(s))
  <2> SUFFICES ASSUME NEW i \in 1..Len(s), i # 1 PROVE s[i] \in ToSet(Tail(s))
    BY <1>1 DEF ToSet
  <2>1. i - 1 \in DOMAIN Tail(s) /\ Tail(s)[i - 1] = s[i]
    BY <1>1
  <2> QED
    BY <2>1 DEF ToSet
<1>3. ToSet(Tail(s)) \subseteq ToSet(s) /\ Head(s) \in ToSet(s)
  BY <1>1 DEF ToSet
<1> QED
  BY <1>1, <1>2, <1>3

LEMMA EmptyFiles == ToSet(<<>>) = {}
  BY DEF ToSet

LEMMA QueuedFiles ==
  ASSUME NEW s \in Seq(Files), NEW f \in Files
  PROVE  Queued(s, f) \in Seq(Files) /\ ToSet(Queued(s, f)) = ToSet(s) \cup {f}
<1>1. CASE s # <<>> /\ Last(s) = f
  <2>1. Last(s) = s[Len(s)] /\ Len(s) \in DOMAIN s
    BY <1>1 DEF Last
  <2>2. f \in ToSet(s)
    BY <1>1, <2>1 DEF ToSet
  <2> QED
    BY <1>1, <2>2 DEF Queued
<1>2. CASE ~(s # <<>> /\ Last(s) = f)
  BY <1>2, AppendFiles DEF Queued
<1> QED
  BY <1>1, <1>2

----------------------------------------------------------------------------
(* The inductive invariant behind QuietAfterDetach: without a thread there *)
(* is no buffer, and without a watch, outside the join, there is nothing.  *)
Quiet ==
  /\ TypeOK
  /\ running => worker # "none"
  /\ ~running /\ main # "join" =>
       worker = "none" /\ queue = <<>> /\ kernel = <<>> /\ local = <<>>

LEMMA QuietInit == HotReloadAssumption /\ Init => Quiet
<1> SUFFICES ASSUME HotReloadAssumption, Init PROVE Quiet
  OBVIOUS
<1>1. disk \in [Files -> Contents] /\ loaded \in [Files -> 0..MaxWrites]
  BY DEF HotReloadAssumption, Init, Contents
<1>2. <<>> \in Seq(Files) /\ writes \in 0..MaxWrites /\ watches \in 0..MaxWatches
  BY DEF HotReloadAssumption, Init
<1> QED
  BY <1>1, <1>2 DEF Init, Quiet, TypeOK

LEMMA QuietWrite ==
  ASSUME HotReloadAssumption, Quiet, NEW f \in Files, SaveWhole(f) \/ SaveTorn(f) \/ Delete(f)
  PROVE  Quiet'
<1> USE DEF Quiet
<1>1. CASE Delete(f)
  <2>1. disk' \in [Files -> Contents] /\ writes' \in 0..MaxWrites
    <3>1. disk[f] \in Contents /\ disk' = [disk EXCEPT ![f] = [disk[f] EXCEPT !.state = "missing"]]
      BY <1>1 DEF Delete, TypeOK
    <3>2. [disk[f] EXCEPT !.state = "missing"] \in Contents
      BY <3>1 DEF Contents
    <3> QED
      BY <1>1, <3>1, <3>2 DEF HotReloadAssumption, Delete, TypeOK
  <2> QED
    BY <1>1, <2>1 DEF Delete, TypeOK, watcherVars, mainVars
<1>2. ASSUME NEW state \in {"whole", "torn"}, Write(f, state)
      PROVE  Quiet'
  <2>1. disk' \in [Files -> Contents] /\ writes' \in 0..MaxWrites
    BY <1>2 DEF HotReloadAssumption, Write, MayWrite, TypeOK, Contents
  <2>2. kernel' \in Seq(Files) /\ notified' \subseteq Files
    BY <1>2, QueuedFiles DEF Write, TypeOK
  <2>3. worker = "none" => kernel' = kernel
    BY <1>2 DEF Write, Watched
  <2> QED
    BY <1>2, <2>1, <2>2, <2>3 DEF Write, TypeOK, mainVars
<1> QED
  BY <1>1, <1>2 DEF SaveWhole, SaveTorn

LEMMA QuietWorker ==
  ASSUME HotReloadAssumption, Quiet, Worker \/ ReadFails \/ DebounceOver
  PROVE  Quiet'
<1> USE DEF Quiet
<1>1. CASE WatchLoop
  <2>1. buffer' \in Seq(Files) /\ kernel' \in Seq(Files) /\ worker' \in {"none", "loop", "buffer", "failed"}
    BY <1>1 DEF WatchLoop, TypeOK
  <2>2. /\ UNCHANGED <<editorVars, recent, queue, mainVars>>
        /\ buffer' # <<>> => worker' = "buffer"
        /\ running => worker' # "none"
        /\ worker # "none"
    BY <1>1 DEF WatchLoop, TypeOK
  <2> QED
    BY <2>1, <2>2 DEF TypeOK, editorVars, mainVars
<1>2. CASE ProcessEvent
  <2>1. Head(buffer) \in Files /\ Tail(buffer) \in Seq(Files)
    BY <1>2, HeadTail DEF ProcessEvent, TypeOK
  <2>2. recent' \subseteq Files /\ queue' \in Seq(Files) /\ buffer' \in Seq(Files)
    BY <1>2, <2>1, AppendFiles DEF ProcessEvent, TypeOK
  <2>3. worker = "buffer" /\ UNCHANGED <<editorVars, kernel, worker, mainVars>>
    BY <1>2 DEF ProcessEvent
  <2> QED
    BY <2>2, <2>3 DEF TypeOK, editorVars, mainVars
<1>3. CASE EndBuffer
  BY <1>3 DEF EndBuffer, TypeOK, editorVars, mainVars
<1>4. CASE DebounceOver
  BY <1>4 DEF DebounceOver, TypeOK, editorVars, mainVars
<1>5. CASE ReadFails
  BY <1>5 DEF ReadFails, TypeOK, editorVars, mainVars
<1> QED
  BY <1>1, <1>2, <1>3, <1>4, <1>5 DEF Worker

LEMMA QuietMain ==
  ASSUME HotReloadAssumption, Quiet, Detach \/ Joined \/ Drain
  PROVE  Quiet'
<1> USE DEF Quiet
<1>1. CASE Detach
  <2>1. watches' \in 0..MaxWatches /\ thenAttach' \in BOOLEAN
    BY <1>1 DEF Detach, TypeOK, HotReloadAssumption
  <2>2. local = <<>>
    BY <1>1 DEF Detach, TypeOK
  <2> QED
    BY <1>1, <2>1, <2>2 DEF Detach, TypeOK, editorVars, watcherVars
<1>2. CASE Joined
  BY <1>2 DEF Joined, Ended, TypeOK
<1>3. CASE DrainBegin
  BY <1>3 DEF DrainBegin, TypeOK, editorVars, watcherVars
<1>4. CASE DrainOne
  <2>1. Head(local) \in Files /\ Tail(local) \in Seq(Files)
    BY <1>4, HeadTail DEF DrainOne, TypeOK
  <2>2. loaded' \in [Files -> 0..MaxWrites]
    BY <1>4, <2>1 DEF DrainOne, TypeOK, Contents
  <2>3. main = "drain" /\ local # <<>> /\ local' \in Seq(Files)
        /\ UNCHANGED <<editorVars, watcherVars, queue, running, main, thenAttach, watches>>
    BY <1>4, <2>1 DEF DrainOne
  <2> QED
    BY <2>2, <2>3 DEF TypeOK, editorVars, watcherVars
<1>5. CASE DrainEnd
  BY <1>5 DEF DrainEnd, TypeOK, editorVars, watcherVars
<1> QED
  BY <1>1, <1>2, <1>3, <1>4, <1>5 DEF Drain

LEMMA QuietStep == HotReloadAssumption /\ Quiet /\ [Next]_vars => Quiet'
<1> SUFFICES ASSUME HotReloadAssumption, Quiet, [Next]_vars PROVE Quiet'
  OBVIOUS
<1>1. CASE UNCHANGED vars
  BY <1>1 DEF Quiet, TypeOK, vars, editorVars, watcherVars, mainVars
<1>2. CASE Next
  BY <1>2, QuietWrite, QuietWorker, QuietMain DEF Next
<1> QED
  BY <1>1, <1>2

LEMMA AlwaysQuiet == Spec => []Quiet
<1>1. Init => Quiet
  BY QuietInit, HotReloadAssumption
<1>2. Quiet /\ [Next]_vars => Quiet'
  BY QuietStep, HotReloadAssumption
<1> QED
  BY <1>1, <1>2, PTL DEF Spec

(* Every variable keeps its type, in every interleaving of the threads. *)
THEOREM HotReloadTyped == Spec => []TypeOK
<1>1. Quiet => TypeOK
  BY DEF Quiet
<1> QED
  BY <1>1, AlwaysQuiet, PTL

(* When Detach has returned nothing of the old watch is on its way.        *)
THEOREM DetachIsFinal == Spec => []QuietAfterDetach
<1>1. Quiet => QuietAfterDetach
  BY DEF Quiet, QuietAfterDetach, TypeOK
<1> QED
  BY <1>1, AlwaysQuiet, PTL

----------------------------------------------------------------------------
(* With paced writes a file has at most one event between the kernel and   *)
(* the watcher, and none within its debounce interval: no event is dropped *)
(* that an edit counts on.                                                 *)
Once(s) == \A i, j \in DOMAIN s : s[i] = s[j] => i = j

Spaced ==
  /\ Quiet
  /\ worker # "buffer" => buffer = <<>>
  /\ Once(kernel) /\ Once(buffer)
  /\ ToSet(kernel) \cap ToSet(buffer) = {}
  /\ (ToSet(kernel) \cup ToSet(buffer)) \cap recent = {}
  /\ EditsAccounted

LEMMA OnceAppend ==
  ASSUME NEW s \in Seq(Files), NEW f \in Files, Once(s), f \notin ToSet(s)
  PROVE  Once(Append(s, f))
<1>1. /\ Len(Append(s, f)) = Len(s) + 1 /\ Len(s) \in Nat
      /\ \A i \in 1..Len(s) : Append(s, f)[i] = s[i] /\ s[i] # f
      /\ Append(s, f)[Len(s) + 1] = f
  BY DEF ToSet
<1> QED
  BY <1>1 DEF Once

LEMMA OnceTail ==
  ASSUME NEW s \in Seq(Files), s # <<>>, Once(s)
  PROVE  Once(Tail(s)) /\ Head(s) \notin ToSet(Tail(s))
<1>1. /\ Head(s) = s[1] /\ Tail(s) \in Seq(Files) /\ Len(s) \in Nat \ {0}
      /\ Len(Tail(s)) = Len(s) - 1 /\ \A i \in 1..(Len(s) - 1) : Tail(s)[i] = s[i + 1]
  OBVIOUS
<1>2. \A i \in 1..(Len(s) - 1) : i + 1 \in DOMAIN s /\ i + 1 # 1 /\ 1 \in DOMAIN s
  BY <1>1
<1>3. Head(s) \notin ToSet(Tail(s))
  BY <1>1, <1>2 DEF Once, ToSet
<1>4. Once(Tail(s))
  BY <1>1, <1>2 DEF Once
<1> QED
  BY <1>3, <1>4

LEMMA OnceEmpty == Once(<<>>)
  BY DEF Once

LEMMA SpacedInit == HotReloadAssumption /\ Init => Spaced
<1> SUFFICES ASSUME HotReloadAssumption, Init PROVE Spaced
  OBVIOUS
<1>1. Quiet
  BY QuietInit
<1>2. EditsAccounted
  BY DEF Init, EditsAccounted, Behind
<1> QED
  BY <1>1, <1>2, OnceEmpty, EmptyFiles DEF Init, Spaced

(* A file that is on its way stays on its way, or is read.                 *)
LEMMA AccountedKept ==
  ASSUME EditsAccounted,
         UNCHANGED <<disk, loaded, notified>>, running' => running,
         ToSet(kernel) \cup ToSet(buffer) \cup ToSet(queue) \cup ToSet(local)
           \subseteq ToSet(kernel') \cup ToSet(buffer') \cup ToSet(queue') \cup ToSet(local')
  PROVE  EditsAccounted'
  BY DEF EditsAccounted, Behind, OnItsWay

LEMMA SpacedWrite ==
  ASSUME HotReloadAssumption, Paced, Spaced, NEW f \in Files,
         SaveWhole(f) \/ SaveTorn(f) \/ Delete(f)
  PROVE  Spaced'
<1> USE DEF Spaced
<1>0. Quiet'
  BY QuietWrite
<1>1. CASE Delete(f)
  <2>1. EditsAccounted'
    <3> SUFFICES ASSUME NEW g \in Files, Behind(g)' PROVE OnItsWay(g)'
      BY DEF EditsAccounted
    <3>1. disk'[g] = IF g = f THEN [disk[f] EXCEPT !.state = "missing"] ELSE disk[g]
      BY <1>1 DEF Delete, Quiet, TypeOK
    <3>2. g # f
      <4>1. CASE g = f
        <5>1. disk'[g].state = "missing"
          BY <3>1, <4>1 DEF Quiet, TypeOK, Contents
        <5> QED
          BY <5>1 DEF Behind
      <4> QED
        BY <4>1
    <3>3. Behind(g)
      BY <1>1, <3>1, <3>2 DEF Behind, Delete, mainVars
    <3> QED
      BY <1>1, <3>3 DEF EditsAccounted, OnItsWay, Delete, watcherVars, mainVars
  <2> QED
    BY <1>0, <1>1, <2>1 DEF Delete, watcherVars
<1>2. ASSUME NEW state \in {"whole", "torn"}, Write(f, state)
      PROVE  Spaced'
  <2>1. f \notin recent /\ f \notin ToSet(kernel) /\ f \notin ToSet(buffer)
    BY <1>2 DEF Write, MayWrite
  <2>2. UNCHANGED <<worker, buffer, recent, queue, local, loaded, running>>
    BY <1>2 DEF Write, mainVars
  <2>3. \A g \in Files \ {f} : disk'[g] = disk[g]
    BY <1>2 DEF Write, Quiet, TypeOK
  <2>4. CASE Watched
    <3>1. kernel' = Queued(kernel, f) /\ notified' = notified \cup {f}
      BY <1>2, <2>4 DEF Write
    <3>2. ~(kernel # <<>> /\ Last(kernel) = f)
      <4> SUFFICES ASSUME kernel # <<>> PROVE Last(kernel) # f
        OBVIOUS
      <4>1. Last(kernel) = kernel[Len(kernel)] /\ Len(kernel) \in DOMAIN kernel
        BY DEF Last, Quiet, TypeOK
      <4> QED
        BY <2>1, <4>1 DEF ToSet
    <3>3. kernel' = Append(kernel, f)
      BY <3>1, <3>2 DEF Queued
    <3>4. Once(kernel') /\ ToSet(kernel') = ToSet(kernel) \cup {f}
      BY <2>1, <3>3, OnceAppend, AppendFiles DEF Quiet, TypeOK
    <3>5. EditsAccounted'
      <4> SUFFICES ASSUME NEW g \in Files, Behind(g)' PROVE OnItsWay(g)'
        BY DEF EditsAccounted
      <4>1. CASE g = f
        BY <3>4, <4>1 DEF OnItsWay
      <4>2. CASE g # f
        <5>1. Behind(g)
          BY <2>2, <2>3, <3>1, <4>2 DEF Behind
        <5> QED
          BY <2>2, <3>4, <5>1 DEF EditsAccounted, OnItsWay
      <4> QED
        BY <4>1, <4>2
    <3> QED
      BY <1>0, <2>1, <2>2, <3>4, <3>5
  <2>5. CASE ~Watched
    <3>1. kernel' = kernel /\ ~running
      BY <1>2, <2>5 DEF Write, Watched, Quiet
    <3>2. EditsAccounted'
      BY <2>2, <3>1 DEF EditsAccounted, Behind
    <3> QED
      BY <1>0, <2>2, <3>1, <3>2
  <2> QED
    BY <2>4, <2>5
<1> QED
  BY <1>1, <1>2 DEF SaveWhole, SaveTorn

LEMMA SpacedWorker ==
  ASSUME HotReloadAssumption, Spaced, Worker \/ ReadFails \/ DebounceOver
  PROVE  Spaced'
<1> USE DEF Spaced
<1>0. Quiet'
  BY QuietWorker
<1>1. CASE WatchLoop
  <2>1. UNCHANGED <<disk, notified, recent, queue, running, local, loaded>> /\ buffer = <<>>
    BY <1>1 DEF WatchLoop, editorVars, mainVars
  <2>2. CASE UNCHANGED <<kernel, buffer>>
    BY <1>0, <2>1, <2>2, AccountedKept
  <2>3. CASE worker' = "buffer" /\ buffer' = kernel /\ kernel' = <<>>
    <3>1. ToSet(buffer) = {} /\ ToSet(kernel') = {} /\ Once(kernel')
      BY <2>1, <2>3, EmptyFiles, OnceEmpty
    <3>2. EditsAccounted'
      BY <2>1, <2>3, <3>1, AccountedKept
    <3> QED
      BY <1>0, <2>1, <2>3, <3>1, <3>2
  <2> QED
    BY <1>1, <2>2, <2>3 DEF WatchLoop
<1>2. CASE ProcessEvent
  <2> DEFINE h == Head(buffer)
             pass == disk[h].state # "missing" /\ h \notin recent
  <2>1. /\ h \in Files /\ ToSet(buffer) = {h} \cup ToSet(buffer') /\ buffer' = Tail(buffer)
        /\ Once(buffer') /\ h \notin ToSet(buffer')
    BY <1>2, HeadTail, OnceTail DEF ProcessEvent, Quiet, TypeOK
  <2>2. /\ recent' = IF pass THEN recent \cup {h} ELSE recent
        /\ queue' = IF pass THEN Append(queue, h) ELSE queue
        /\ worker = "buffer"
        /\ UNCHANGED <<disk, notified, kernel, worker, running, local, loaded>>
    BY <1>2 DEF ProcessEvent, editorVars, mainVars
  <2>3. h \notin recent /\ h \notin ToSet(kernel)
    BY <2>1
  <2>4. ToSet(queue') = IF pass THEN ToSet(queue) \cup {h} ELSE ToSet(queue)
    BY <2>1, <2>2, AppendFiles DEF Quiet, TypeOK
  <2>5. EditsAccounted'
    <3> SUFFICES ASSUME NEW g \in Files, Behind(g)' PROVE OnItsWay(g)'
      BY DEF EditsAccounted
    <3>1. Behind(g) /\ disk[g].state = "whole"
      BY <2>2 DEF Behind
    <3>2. CASE g = h
      <4>1. pass
        BY <2>3, <3>1, <3>2
      <4> QED
        BY <2>4, <3>2, <4>1 DEF OnItsWay
    <3>3. CASE g # h
      BY <2>1, <2>2, <2>4, <3>1, <3>3 DEF EditsAccounted, OnItsWay
    <3> QED
      BY <3>2, <3>3
  <2> HIDE DEF h, pass
  <2> QED
    BY <1>0, <2>1, <2>2, <2>3, <2>5
<1>3. CASE EndBuffer
  BY <1>0, <1>3, AccountedKept DEF EndBuffer, editorVars, mainVars
<1>4. CASE DebounceOver
  BY <1>0, <1>4, AccountedKept DEF DebounceOver, editorVars, mainVars
<1>5. CASE ReadFails
  BY <1>0, <1>5, AccountedKept DEF ReadFails, editorVars, mainVars
<1> QED
  BY <1>1, <1>2, <1>3, <1>4, <1>5 DEF Worker

LEMMA SpacedMain ==
  ASSUME HotReloadAssumption, Spaced, Detach \/ Joined \/ Drain
  PROVE  Spaced'
<1> USE DEF Spaced
<1>0. Quiet'
  BY QuietMain
<1>1. CASE Detach
  BY <1>0, <1>1 DEF Detach, editorVars, watcherVars, EditsAccounted, Behind
<1>2. CASE Joined
  <2>1. kernel' = <<>> /\ buffer' = <<>> /\ recent' = {} /\ notified' = {}
    BY <1>2 DEF Joined, Ended
  <2> QED
    BY <1>0, <2>1, OnceEmpty, EmptyFiles DEF EditsAccounted, Behind
<1>3. CASE DrainBegin
  <2>1. local = <<>> /\ local' = queue /\ queue' = <<>>
        /\ UNCHANGED <<editorVars, watcherVars, running, loaded>>
    BY <1>3 DEF DrainBegin, Quiet, TypeOK
  <2>2. EditsAccounted'
    BY <2>1, EmptyFiles, AccountedKept DEF editorVars, watcherVars
  <2> QED
    BY <1>0, <2>1, <2>2 DEF watcherVars
<1>4. CASE DrainOne
  <2> DEFINE h == Head(local)
  <2>1. h \in Files /\ ToSet(local) = {h} \cup ToSet(local')
    BY <1>4, HeadTail DEF DrainOne, Quiet, TypeOK
  <2>2. /\ loaded' = IF disk[h].state = "whole" THEN [loaded EXCEPT ![h] = disk[h].version] ELSE loaded
        /\ UNCHANGED <<editorVars, watcherVars, queue, running>>
    BY <1>4 DEF DrainOne
  <2>3. EditsAccounted'
    <3> SUFFICES ASSUME NEW g \in Files, Behind(g)' PROVE OnItsWay(g)'
      BY DEF EditsAccounted
    <3>1. g # h
      <4>1. CASE g = h
        <5>1. disk'[g].state = "whole" => loaded'[g] = disk'[g].version
          BY <2>1, <2>2, <4>1 DEF editorVars, Quiet, TypeOK
        <5> QED
          BY <5>1 DEF Behind
      <4> QED
        BY <4>1
    <3>2. loaded'[g] = loaded[g]
      BY <2>1, <2>2, <3>1 DEF Quiet, TypeOK
    <3>3. Behind(g)
      BY <2>2, <3>2 DEF Behind, editorVars
    <3> QED
      BY <2>1, <2>2, <3>1, <3>3 DEF EditsAccounted, OnItsWay, watcherVars
  <2> QED
    BY <1>0, <2>2, <2>3 DEF watcherVars
<1>5. CASE DrainEnd
  BY <1>0, <1>5, AccountedKept DEF DrainEnd, editorVars, watcherVars
<1> QED
  BY <1>1, <1>2, <1>3, <1>4, <1>5 DEF Drain

(* An editor that leaves the watcher time for each write never has an edit *)
(* forgotten: what is on disk and not on the page will be read again.      *)
THEOREM NoEditForgotten ==
  ASSUME Paced
  PROVE  Spec => []EditsAccounted
<1>1. Init => Spaced
  BY SpacedInit, HotReloadAssumption
<1>2. Spaced /\ [Next]_vars => Spaced'
  <2> SUFFICES ASSUME Spaced, [Next]_vars PROVE Spaced'
    OBVIOUS
  <2>1. CASE UNCHANGED vars
    <3>1. Quiet'
      BY QuietStep, HotReloadAssumption DEF Spaced
    <3>2. EditsAccounted'
      BY <2>1, AccountedKept DEF Spaced, vars, editorVars, watcherVars, mainVars
    <3> QED
      BY <2>1, <3>1, <3>2 DEF Spaced, vars, watcherVars
  <2>2. CASE Next
    BY <2>2, SpacedWrite, SpacedWorker, SpacedMain, HotReloadAssumption DEF Next
  <2> QED
    BY <2>1, <2>2
<1>3. Spaced => EditsAccounted
  BY DEF Spaced
<1> QED
  BY <1>1, <1>2, <1>3, PTL DEF Spec

=============================================================================
