-------------------------- MODULE SessionFileProofs --------------------------
(***************************************************************************)
(* Proofs about SessionFile, for every set of tasks, every choice of       *)
(* assistant messages and every bound: the order of the file's entries,    *)
(* the replacement of old formats, and that only an overlap with a full    *)
(* rewrite makes the file fall behind the memory.                          *)
(***************************************************************************)
EXTENDS SessionFile, TLAPS

\* No entry is newer than the n-th, and none is out of order.
Good(es, n) == Increasing(es) /\ \A i \in DOMAIN es : es[i] <= n

Ordered ==
    /\ Good(entries, minted) /\ Good(disk.ents, minted)
    /\ \A t \in Tasks : Good(task[t].body.ents, minted)

\* An old file is known to need its rewrite; no body is in the old format.
Formats ==
    /\ disk.old => disk.there
    /\ up /\ disk.old => rewriteRequired
    /\ \A t \in Tasks : ~task[t].body.old
    /\ \A t \in Tasks : task[t].st = "writing" => task[t].body.there
    /\ \A t \in Tasks : UnderWay(t) => task[t].kind = "rewrite"

\* Nothing is under way in a program that does not run.
Down ==
    ~up => /\ writer = "none" /\ ~overlapped /\ ~diskFailure /\ ~fileIsCurrent
           /\ \A t \in Tasks : task[t] = Idle

\* While the program runs, fileIsCurrent says whether there is a file.
Present ==
    /\ up => (fileIsCurrent <=> disk.there)
    /\ writer # "none" => disk.there
    /\ ~disk.there => disk.ents = <<>>

\* Only the head of the chain is ever under way, unless a synchronous
\* rewrite cut it off, which counts as an overlap.
Chained ==
    /\ \A i \in DOMAIN queue : i > 1 => task[queue[i]].st = "queued"
    /\ ~overlapped => \A t \in Tasks : UnderWay(t) => queue # <<>> /\ Head(queue) = t

Unspoilt == up /\ ~diskFailure /\ ~overlapped

\* The file has the session's entries, and so has a rewrite on its way.
InSync ==
    /\ disk.there => disk.ents = entries
    /\ HasAssistant(entries) => disk.there
    /\ writer # "replaced"
    /\ \A t \in Tasks : UnderWay(t) => writer = "none"
    /\ \A t \in Tasks : task[t].st = "writing" => task[t].body.ents = entries

Synced == Unspoilt => InSync

Awaited == \E t \in Tasks : task[t].kind = "rewrite" /\ task[t].st = "queued"

\* What was changed in place is on the file, or on its way there.
InCover ==
    /\ disk.there => \/ disk.rev = rev \/ Awaited
                     \/ \E t \in Tasks : \/ task[t].st = "closing"
                                         \/ task[t].st = "writing" /\ task[t].body.rev = rev
    /\ \A t \in Tasks : task[t].st = "writing" => task[t].body.rev = rev \/ Awaited

Covered == Unspoilt => InCover

IInv == TypeOK /\ Ordered /\ Formats /\ Down /\ Present /\ Chained /\ Synced /\ Covered

-----------------------------------------------------------------------------
(* Lemmas on the operators. *)

LEMMA BodyTypes == NoFile \in Bodies /\ (TypeOK => \A es \in Seq(Nat) : FileBody(es) \in Bodies)
  BY DEF NoFile, Bodies, FileBody, TypeOK

LEMMA EmptyQueue ==
  ASSUME NEW S PROVE <<>> \in Seq(S) /\ \A i \in DOMAIN <<>> : FALSE
  OBVIOUS

\* A session that starts has no history.
LEMMA InitHolds == Init => IInv
<1> SUFFICES ASSUME Init PROVE IInv OBVIOUS
<1> USE DEF Init, NoFile, OldFile, Idle, Work
<1>1. TypeOK
  <2>0. <<>> \in Seq(Nat) /\ <<1>> \in Seq(Nat) /\ <<>> \in Seq(Tasks) /\ minted \in Nat
    OBVIOUS
  <2>1. disk \in Bodies /\ NoFile \in Bodies
    <3>1. NoFile \in Bodies /\ OldFile \in Bodies
      BY <2>0 DEF Bodies
    <3> QED BY <3>1
  <2>2. task \in [Tasks -> [kind : {"rewrite", "close"},
                           st : {"idle", "queued", "closing", "writing"}, body : Bodies]]
    BY <2>1
  <2>3. \A i \in DOMAIN queue : FALSE
    OBVIOUS
  <2>4. /\ entries \in Seq(Nat) /\ rev \in Nat /\ queue \in Seq(Tasks)
        /\ up \in BOOLEAN /\ fileIsCurrent \in BOOLEAN /\ rewriteRequired \in BOOLEAN
        /\ forceFileCreation \in BOOLEAN /\ diskFailure \in BOOLEAN /\ overlapped \in BOOLEAN
        /\ writer \in {"none", "file", "replaced"}
    BY <2>0
  <2> QED BY <2>0, <2>1, <2>2, <2>3, <2>4 DEF TypeOK
<1>2. Ordered
  BY DEF Ordered, Good, Increasing
<1>3. Formats /\ Down /\ Present
  BY DEF Formats, Down, Present, UnderWay
<1>4. Chained /\ Synced /\ Covered
  BY DEF Chained, Synced, Covered, Unspoilt, UnderWay
<1> QED BY <1>1, <1>2, <1>3, <1>4 DEF IInv

-----------------------------------------------------------------------------
(* Types. *)

\* A slot taken from the head of the chain, or cut off from it, is freed.
LEMMA DoneTypes ==
  ASSUME TypeOK, Chained, NEW t \in Tasks, Done(t), AtHead(t) \/ UnderWay(t)
  PROVE  /\ task' \in [Tasks -> [kind : {"rewrite", "close"},
                                 st : {"idle", "queued", "closing", "writing"}, body : Bodies]]
         /\ queue' \in Seq(Tasks)
         /\ \A i \in DOMAIN queue' : task'[queue'[i]].st # "idle"
         /\ \A i, j \in DOMAIN queue' : queue'[i] = queue'[j] => i = j
<1>1. /\ queue \in Seq(Tasks)
      /\ task \in [Tasks -> [kind : {"rewrite", "close"},
                             st : {"idle", "queued", "closing", "writing"}, body : Bodies]]
      /\ \A i \in DOMAIN queue : task[queue[i]].st # "idle"
      /\ \A i, j \in DOMAIN queue : queue[i] = queue[j] => i = j
  BY DEF TypeOK
<1>2. task' = [task EXCEPT ![t] = Idle]
  BY DEF Done
<1>3. task' \in [Tasks -> [kind : {"rewrite", "close"},
                          st : {"idle", "queued", "closing", "writing"}, body : Bodies]]
  BY <1>1, <1>2, BodyTypes DEF Idle, Work
<1>4. CASE queue # <<>> /\ Head(queue) = t
  <2>1. queue' = Tail(queue)
    BY <1>4 DEF Done
  <2>2. /\ queue' \in Seq(Tasks)
        /\ \A i \in DOMAIN queue' : i + 1 \in DOMAIN queue /\ queue'[i] = queue[i + 1]
        /\ 1 \in DOMAIN queue /\ queue[1] = t
    BY <1>1, <1>4, <2>1
  <2>3. \A i \in DOMAIN queue' : queue'[i] # t
    BY <1>1, <2>2
  <2> QED BY <1>1, <1>2, <1>3, <2>2, <2>3
<1>5. CASE ~(queue # <<>> /\ Head(queue) = t)
  <2>1. queue' = queue
    BY <1>5 DEF Done
  <2>2. UnderWay(t)
    BY <1>5 DEF AtHead
  <2>3. \A i \in DOMAIN queue : queue[i] # t
    <3>1. \A i \in DOMAIN queue : queue[i] = t => ~(i > 1)
      BY <2>2 DEF Chained, UnderWay
    <3>2. \A i \in DOMAIN queue : ~(i > 1) => queue # <<>> /\ Head(queue) = queue[i]
      BY <1>1
    <3> QED BY <1>5, <3>1, <3>2
  <2> QED BY <1>1, <1>2, <1>3, <2>1, <2>3
<1> QED BY <1>4, <1>5

Slots == [Tasks -> [kind : {"rewrite", "close"},
                    st : {"idle", "queued", "closing", "writing"}, body : Bodies]]

LEMMA ScheduleTypes ==
  ASSUME TypeOK, NEW k \in {"rewrite", "close"}, Schedule(k)
  PROVE  /\ task' \in Slots
         /\ queue' \in Seq(Tasks)
         /\ \A i \in DOMAIN queue' : task'[queue'[i]].st # "idle"
         /\ \A i, j \in DOMAIN queue' : queue'[i] = queue'[j] => i = j
<1>1. PICK t \in Tasks : /\ task[t] = Idle
                         /\ task' = [task EXCEPT ![t] = Work(k, "queued", NoFile)]
                         /\ queue' = Append(queue, t)
  BY DEF Schedule
<1>2. task \in Slots /\ queue \in Seq(Tasks)
  BY DEF TypeOK, Slots
<1>3. task' \in Slots
  BY <1>1, <1>2, BodyTypes DEF Slots, Work
<1>4. \A i \in DOMAIN queue : queue[i] # t
  BY <1>1 DEF TypeOK, Idle, Work
<1>5. /\ queue' \in Seq(Tasks)
      /\ DOMAIN queue' = DOMAIN queue \cup {Len(queue) + 1}
      /\ \A i \in DOMAIN queue : queue'[i] = queue[i]
      /\ queue'[Len(queue) + 1] = t
  BY <1>1, <1>2
<1>6. \A i \in DOMAIN queue' : task'[queue'[i]].st # "idle"
  <2>1. task'[t].st = "queued"
    BY <1>1, <1>2 DEF Slots, Work
  <2>2. \A i \in DOMAIN queue : task'[queue[i]] = task[queue[i]]
    BY <1>1, <1>2, <1>4 DEF Slots
  <2> QED BY <1>5, <2>1, <2>2 DEF TypeOK
<1>7. \A i, j \in DOMAIN queue' : queue'[i] = queue'[j] => i = j
  BY <1>4, <1>5 DEF TypeOK
<1> QED BY <1>3, <1>5, <1>6, <1>7

LEMMA RewriteTypes ==
  ASSUME TypeOK, NEW es \in Seq(Nat), RewriteSynchronously(es)
  PROVE  /\ task' \in Slots /\ queue' = <<>> /\ queue' \in Seq(Tasks)
         /\ \A i \in DOMAIN queue' : FALSE
         /\ disk' \in Bodies /\ writer' = "none"
         /\ fileIsCurrent' \in BOOLEAN /\ rewriteRequired' \in BOOLEAN
         /\ diskFailure' \in BOOLEAN /\ overlapped' \in BOOLEAN
<1>1. task' = [t \in Tasks |-> IF task[t].st = "queued" THEN Idle ELSE task[t]]
  BY DEF RewriteSynchronously
<1>2. task' \in Slots
  BY <1>1, BodyTypes DEF TypeOK, Slots, Idle, Work
<1>3. disk' \in Bodies /\ diskFailure' \in BOOLEAN
  BY BodyTypes DEF TypeOK, RewriteSynchronously
<1>4. overlapped' \in BOOLEAN
  BY DEF RewriteSynchronously, Rewriting
<1> QED BY <1>2, <1>3, <1>4, EmptyQueue DEF RewriteSynchronously, TypeOK

LEMMA TypesStep ==
  ASSUME IInv, [Next]_vars
  PROVE  TypeOK'
<1> USE DEF IInv
<1>0. TypeOK /\ Chained
  OBVIOUS
<1>1. CASE Open
  BY <1>0, <1>1 DEF Open, TypeOK, Bodies
<1>2. CASE Crash
  <2>1. task' \in Slots /\ queue' = <<>>
    BY <1>2, BodyTypes DEF Crash, Slots, Idle, Work
  <2> QED BY <1>0, <1>2, <2>1, EmptyQueue DEF Crash, TypeOK, Slots
<1>3. CASE AppendEntry
  <2>1. entries' \in Seq(Nat) /\ minted' \in Nat /\ minted + 1 \in Nat
    BY <1>0, <1>3 DEF AppendEntry, TypeOK
  <2>2. CASE UNCHANGED <<disk, rewriteRequired, diskFailure, writer, task, queue>>
             /\ fileIsCurrent' \in BOOLEAN /\ overlapped' \in BOOLEAN
    BY <1>0, <1>3, <2>1, <2>2 DEF AppendEntry, TypeOK
  <2>3. CASE RewriteSynchronously(entries')
    <3>1. /\ task' \in Slots /\ queue' \in Seq(Tasks)
          /\ \A i \in DOMAIN queue' : FALSE
          /\ disk' \in Bodies /\ writer' = "none"
          /\ fileIsCurrent' \in BOOLEAN /\ rewriteRequired' \in BOOLEAN
          /\ diskFailure' \in BOOLEAN /\ overlapped' \in BOOLEAN
      BY <1>0, <2>1, <2>3, RewriteTypes
    <3> QED BY <1>0, <1>3, <2>1, <3>1 DEF AppendEntry, TypeOK, Slots
  <2>4. CASE AppendLine(minted + 1)
    <3>1. disk' \in Bodies
      <4>1. disk.ents \in Seq(Nat) /\ Append(disk.ents, minted + 1) \in Seq(Nat)
        BY <1>0, <2>1 DEF TypeOK, Bodies
      <4>2. [disk EXCEPT !.ents = Append(disk.ents, minted + 1)] \in Bodies
        BY <1>0, <4>1 DEF TypeOK, Bodies
      <4> QED BY <1>0, <2>4, <4>2 DEF AppendLine, TypeOK
    <3>2. overlapped' \in BOOLEAN
      BY <1>0, <2>4 DEF AppendLine, Rewriting
    <3> QED BY <1>0, <1>3, <2>1, <2>4, <3>1, <3>2 DEF AppendLine, AppendEntry, TypeOK
  <2>5. (overlapped \/ Rewriting) \in BOOLEAN /\ overlapped \in BOOLEAN
    BY <1>0 DEF TypeOK, Rewriting
  <2> QED BY <1>0, <1>3, <2>2, <2>3, <2>4, <2>5 DEF AppendEntry, Persist, TypeOK
<1>4. CASE FlushSync
  <2>1. entries \in Seq(Nat)
    BY <1>0 DEF TypeOK
  <2>2. /\ task' \in Slots /\ queue' \in Seq(Tasks)
        /\ \A i \in DOMAIN queue' : FALSE
        /\ disk' \in Bodies /\ writer' = "none"
        /\ fileIsCurrent' \in BOOLEAN /\ rewriteRequired' \in BOOLEAN
        /\ diskFailure' \in BOOLEAN /\ overlapped' \in BOOLEAN
    BY <1>0, <1>4, <2>1, RewriteTypes DEF FlushSync
  <2> QED BY <1>0, <1>4, <2>2 DEF FlushSync, TypeOK, Slots, memory
<1>5. CASE SetSessionName
  <2>1. /\ task' \in Slots
        /\ queue' \in Seq(Tasks)
        /\ \A i \in DOMAIN queue' : task'[queue'[i]].st # "idle"
        /\ \A i, j \in DOMAIN queue' : queue'[i] = queue'[j] => i = j
    BY <1>0, <1>5, ScheduleTypes DEF SetSessionName, TypeOK, Slots
  <2>2. overlapped' \in BOOLEAN
    BY <1>0, <1>5 DEF SetSessionName, Rewriting
  <2> QED BY <1>0, <1>5, <2>1, <2>2 DEF SetSessionName, TypeOK, Slots, flags
<1>6. CASE RewriteEntries
  BY <1>0, <1>6, ScheduleTypes DEF RewriteEntries, TypeOK, Slots, flags
<1>7. CASE EnsureOnDisk
  <2>1. /\ task' \in Slots
        /\ queue' \in Seq(Tasks)
        /\ \A i \in DOMAIN queue' : task'[queue'[i]].st # "idle"
        /\ \A i, j \in DOMAIN queue' : queue'[i] = queue'[j] => i = j
    BY <1>0, <1>7, ScheduleTypes DEF EnsureOnDisk, TypeOK, Slots
  <2> QED BY <1>0, <1>7, <2>1 DEF EnsureOnDisk, TypeOK, Slots, memory
<1>8. CASE Close
  BY <1>0, <1>8, ScheduleTypes DEF Close, TypeOK, Slots, memory, flags
<1>9. ASSUME NEW t \in Tasks, TaskThrows(t) PROVE TypeOK'
  BY <1>0, <1>9, DoneTypes DEF TaskThrows, TypeOK, memory, flags
<1>10. ASSUME NEW t \in Tasks, CloseRuns(t) PROVE TypeOK'
  BY <1>0, <1>10, DoneTypes DEF CloseRuns, TypeOK, memory
<1>11. ASSUME NEW t \in Tasks, RewriteBegins(t) PROVE TypeOK'
  <2>1. task' \in Slots /\ task' = [task EXCEPT ![t] = Work("rewrite", "closing", NoFile)]
    BY <1>0, <1>11, BodyTypes DEF RewriteBegins, TypeOK, Slots, Work
  <2>2. \A u \in Tasks : task[u].st # "idle" => task'[u].st # "idle"
    BY <1>0, <2>1 DEF TypeOK, Work
  <2> QED BY <1>0, <1>11, <2>1, <2>2 DEF RewriteBegins, TypeOK, Slots, memory, flags
<1>12. ASSUME NEW t \in Tasks, RewriteSerializes(t) PROVE TypeOK'
  <2>1. task' \in Slots /\ task' = [task EXCEPT ![t] = Work("rewrite", "writing", FileBody(entries))]
    BY <1>0, <1>12, BodyTypes DEF RewriteSerializes, TypeOK, Slots, Work
  <2>2. \A u \in Tasks : task[u].st # "idle" => task'[u].st # "idle"
    BY <1>0, <2>1 DEF TypeOK, Work
  <2> QED BY <1>0, <1>12, <2>1, <2>2 DEF RewriteSerializes, TypeOK, Slots, memory, flags
<1>13. ASSUME NEW t \in Tasks, RewriteRenames(t) PROVE TypeOK'
  <2>1. disk' \in Bodies /\ overlapped' \in BOOLEAN
    BY <1>0, <1>13 DEF RewriteRenames, TypeOK
  <2>2. UnderWay(t)
    BY <1>13 DEF RewriteRenames, UnderWay
  <2> QED BY <1>0, <1>13, <2>1, <2>2, DoneTypes DEF RewriteRenames, TypeOK, memory
<1>14. ASSUME NEW t \in Tasks, RewriteFails(t) PROVE TypeOK'
  <2>1. UnderWay(t)
    BY <1>14 DEF RewriteFails, UnderWay
  <2> QED BY <1>0, <1>14, <2>1, DoneTypes DEF RewriteFails, TypeOK, memory, flags
<1>15. CASE UNCHANGED vars
  BY <1>0, <1>15 DEF vars, TypeOK
<1> QED
  BY <1>1, <1>2, <1>3, <1>4, <1>5, <1>6, <1>7, <1>8, <1>9, <1>10, <1>11, <1>12, <1>13, <1>14,
     <1>15 DEF Next

-----------------------------------------------------------------------------
(* What a step may do to the pending work, to the memory and to the file.   *)

TaskMoves(t) ==
    \/ task'[t] = task[t]
    \/ task'[t] = Idle
    \/ task[t] = Idle /\ (\E k \in {"rewrite", "close"} : task'[t] = Work(k, "queued", NoFile))
    \/ AtHead(t) /\ ~diskFailure /\ task'[t] = Work("rewrite", "closing", NoFile) /\ writer' = "none"
       /\ task[t].kind = "rewrite"
    \/ task[t].st = "closing" /\ task'[t] = Work("rewrite", "writing", FileBody(entries))
       /\ UNCHANGED <<entries, rev, disk, writer>>

LEMMA TaskSteps ==
  ASSUME TypeOK, [Next]_vars, NEW t \in Tasks
  PROVE  TaskMoves(t)
<1> DEFINE Same == task' = task
<1>0. task = [u \in Tasks |-> task[u]]
  BY DEF TypeOK
<1>1. CASE Open \/ UNCHANGED vars
  BY <1>1 DEF Open, vars, TaskMoves
<1>2. CASE Crash
  BY <1>2 DEF Crash, TaskMoves
<1>3. ASSUME NEW es, RewriteSynchronously(es) PROVE TaskMoves(t)
  BY <1>3 DEF RewriteSynchronously, TaskMoves
<1>4. CASE AppendEntry
  BY <1>3, <1>4 DEF AppendEntry, Persist, AppendLine, TaskMoves
<1>5. CASE FlushSync
  BY <1>3, <1>5 DEF FlushSync
<1>6. ASSUME NEW k \in {"rewrite", "close"}, Schedule(k) PROVE TaskMoves(t)
  BY <1>0, <1>6 DEF Schedule, TaskMoves
<1>7. CASE SetSessionName \/ RewriteEntries \/ EnsureOnDisk \/ Close
  BY <1>6, <1>7 DEF SetSessionName, RewriteEntries, EnsureOnDisk, Close, TaskMoves
<1>8. ASSUME NEW u \in Tasks, Done(u) PROVE TaskMoves(t)
  BY <1>0, <1>8 DEF Done, TaskMoves
<1>9. ASSUME NEW u \in Tasks, TaskThrows(u) \/ CloseRuns(u) \/ RewriteRenames(u) \/ RewriteFails(u)
      PROVE TaskMoves(t)
  BY <1>8, <1>9 DEF TaskThrows, CloseRuns, RewriteRenames, RewriteFails
<1>10. ASSUME NEW u \in Tasks, RewriteBegins(u) PROVE TaskMoves(t)
  BY <1>0, <1>10 DEF RewriteBegins, TaskMoves
<1>11. ASSUME NEW u \in Tasks, RewriteSerializes(u) PROVE TaskMoves(t)
  BY <1>0, <1>11 DEF RewriteSerializes, TaskMoves, memory
<1> QED
  BY <1>1, <1>2, <1>4, <1>5, <1>7, <1>9, <1>10, <1>11 DEF Next

MemoryMoves ==
    \/ entries' = entries /\ minted' = minted
    \/ entries' = <<>> /\ minted' = minted
    \/ entries' = disk.ents /\ minted' = minted
    \/ entries' = Append(entries, minted + 1) /\ minted' = minted + 1

DiskMoves ==
    \/ disk' = disk
    \/ up /\ disk' = FileBody(entries') /\ rev' = rev /\ rewriteRequired' = FALSE
    \/ up /\ fileIsCurrent /\ ~rewriteRequired /\ minted' = minted + 1
       /\ disk' = [disk EXCEPT !.ents = Append(disk.ents, minted + 1)]
    \/ \E t \in Tasks : RewriteRenames(t)

LEMMA MemorySteps ==
  ASSUME TypeOK, [Next]_vars
  PROVE  MemoryMoves /\ DiskMoves
<1>1. CASE Open \/ Crash \/ UNCHANGED vars
  BY <1>1 DEF Open, Crash, vars, MemoryMoves, DiskMoves
<1>2. CASE AppendEntry
  <2>1. MemoryMoves
    BY <1>2 DEF AppendEntry, MemoryMoves
  <2>2. CASE RewriteSynchronously(entries')
    <3>1. disk' = disk \/ (disk' = FileBody(entries') /\ rewriteRequired' = FALSE)
      BY <2>2 DEF RewriteSynchronously
    <3>2. up /\ rev' = rev
      BY <1>2 DEF AppendEntry
    <3> QED BY <2>1, <3>1, <3>2 DEF DiskMoves
  <2>3. CASE AppendLine(minted + 1) /\ fileIsCurrent /\ ~rewriteRequired
    <3>1. disk' = disk \/ disk' = [disk EXCEPT !.ents = Append(disk.ents, minted + 1)]
      BY <2>3 DEF AppendLine
    <3>2. up /\ minted' = minted + 1
      BY <1>2 DEF AppendEntry
    <3> QED BY <2>1, <2>3, <3>1, <3>2 DEF DiskMoves
  <2> QED BY <1>2, <2>1, <2>2, <2>3 DEF AppendEntry, Persist, DiskMoves
<1>3. CASE FlushSync
  <2>1. entries' = entries /\ minted' = minted
    BY <1>3 DEF FlushSync, memory
  <2> QED BY <1>3, <2>1 DEF FlushSync, RewriteSynchronously, MemoryMoves, DiskMoves, memory
<1>4. CASE SetSessionName \/ RewriteEntries \/ EnsureOnDisk \/ Close
  BY <1>4 DEF SetSessionName, RewriteEntries, EnsureOnDisk, Close, MemoryMoves, DiskMoves, memory
<1>5. ASSUME NEW t \in Tasks, \/ TaskThrows(t) \/ CloseRuns(t) \/ RewriteBegins(t)
                              \/ RewriteSerializes(t) \/ RewriteFails(t)
      PROVE MemoryMoves /\ DiskMoves
  BY <1>5 DEF TaskThrows, CloseRuns, RewriteBegins, RewriteSerializes, RewriteFails, MemoryMoves,
              DiskMoves, memory
<1>6. ASSUME NEW t \in Tasks, RewriteRenames(t) PROVE MemoryMoves /\ DiskMoves
  BY <1>6 DEF RewriteRenames, MemoryMoves, DiskMoves, memory
<1> QED BY <1>1, <1>2, <1>3, <1>4, <1>5, <1>6 DEF Next

-----------------------------------------------------------------------------
(* The order of the entries, and old formats. *)

LEMMA GoodLater ==
  ASSUME NEW es \in Seq(Nat), NEW n \in Nat, Good(es, n)
  PROVE  Good(es, n + 1) /\ Good(Append(es, n + 1), n + 1)
<1>1. \A i \in DOMAIN es : es[i] \in Nat
  OBVIOUS
<1>2. Good(es, n + 1)
  BY <1>1 DEF Good
<1>3. /\ DOMAIN Append(es, n + 1) = DOMAIN es \cup {Len(es) + 1}
      /\ \A i \in DOMAIN es : Append(es, n + 1)[i] = es[i] /\ i \in Nat /\ i < Len(es) + 1
      /\ Append(es, n + 1)[Len(es) + 1] = n + 1
  OBVIOUS
<1> QED BY <1>1, <1>2, <1>3 DEF Good, Increasing

LEMMA OrderStep ==
  ASSUME TypeOK, Ordered, [Next]_vars
  PROVE  Ordered'
<1>0. /\ entries \in Seq(Nat) /\ disk.ents \in Seq(Nat) /\ minted \in Nat
      /\ \A t \in Tasks : task[t].body.ents \in Seq(Nat)
  BY DEF TypeOK, Bodies
<1>1. minted' \in {minted, minted + 1} /\ Good(<<>>, minted')
  BY MemorySteps DEF MemoryMoves, Good, Increasing
<1>2. /\ Good(entries, minted') /\ Good(disk.ents, minted')
      /\ \A t \in Tasks : Good(task[t].body.ents, minted')
  BY <1>0, <1>1, GoodLater DEF Ordered
<1>3. Good(entries', minted')
  BY <1>0, <1>1, <1>2, GoodLater, MemorySteps DEF MemoryMoves, Ordered
<1>4. Good(disk'.ents, minted')
  <2>1. CASE disk' = [disk EXCEPT !.ents = Append(disk.ents, minted + 1)] /\ minted' = minted + 1
    <3>1. disk'.ents = Append(disk.ents, minted + 1)
      BY <2>1 DEF TypeOK, Bodies
    <3> QED BY <1>0, <2>1, <3>1, GoodLater DEF Ordered
  <2>2. CASE disk' = FileBody(entries')
    BY <1>3, <2>2 DEF FileBody
  <2> QED BY <1>2, <2>1, <2>2, MemorySteps DEF DiskMoves, RewriteRenames
<1>5. ASSUME NEW t \in Tasks PROVE Good(task'[t].body.ents, minted')
  BY <1>1, <1>2, TaskSteps DEF TaskMoves, Idle, Work, NoFile, FileBody
<1> QED BY <1>3, <1>4, <1>5 DEF Ordered

LEMMA FormatStep ==
  ASSUME TypeOK, Formats, Down, [Next]_vars
  PROVE  Formats' /\ (disk.old /\ disk'.old => disk'.ents = disk.ents)
<1>1. ASSUME NEW t \in Tasks PROVE /\ ~task'[t].body.old
                                   /\ task'[t].st = "writing" => task'[t].body.there
                                   /\ UnderWay(t)' => task'[t].kind = "rewrite"
  BY TaskSteps DEF TaskMoves, Idle, Work, NoFile, FileBody, Formats, UnderWay
<1>2. \/ disk' = disk
      \/ disk'.there /\ ~disk'.old /\ rewriteRequired' = FALSE
      \/ ~disk.old /\ disk'.old = disk.old /\ disk'.there = disk.there
  <2>1. CASE \E t \in Tasks : RewriteRenames(t)
    BY <2>1 DEF RewriteRenames, Formats
  <2>2. CASE up /\ ~rewriteRequired /\ disk' = [disk EXCEPT !.ents = Append(disk.ents, minted + 1)]
    BY <2>2 DEF TypeOK, Bodies, Formats
  <2>3. CASE disk' = FileBody(entries') /\ rewriteRequired' = FALSE
    BY <2>3 DEF FileBody
  <2> QED BY <2>1, <2>2, <2>3, MemorySteps DEF DiskMoves
<1>3. disk'.old => disk'.there
  BY <1>2 DEF Formats
<1>4. up' /\ disk'.old => rewriteRequired'
  <2>1. CASE Open
    BY <2>1 DEF Open, Formats
  <2>2. CASE ~Open
    <3>1. up' => up
      BY <2>2 DEF Next, Crash, AppendEntry, FlushSync, SetSessionName, RewriteEntries, EnsureOnDisk,
            Close, TaskThrows, CloseRuns, RewriteBegins, RewriteSerializes, RewriteRenames,
            RewriteFails, vars
    <3>2. rewriteRequired' = rewriteRequired \/ ~up' \/ ~disk'.old
      BY <2>2, <1>1 DEF Next, Crash, AppendEntry, Persist, AppendLine, RewriteSynchronously, FlushSync,
            SetSessionName, RewriteEntries, EnsureOnDisk, Close, TaskThrows, CloseRuns, RewriteBegins,
            RewriteSerializes, RewriteRenames, RewriteFails, vars, flags, FileBody, Formats
    <3> QED BY <1>2, <3>1, <3>2 DEF Formats
  <2> QED BY <2>1, <2>2
<1> QED BY <1>1, <1>2, <1>3, <1>4 DEF Formats

-----------------------------------------------------------------------------
(* What runs, and whether there is a file. *)

LEMMA PresentStep ==
  ASSUME TypeOK, Formats, Down, Present, [Next]_vars
  PROVE  Down' /\ Present'
<1>1. CASE Open
  <2>1. Down'
    BY <1>1 DEF Open, Down
  <2> QED BY <1>1, <2>1 DEF Open, Down, Present
<1>2. CASE Crash
  BY <1>2 DEF Crash, Down, Present
<1>3. ASSUME NEW es, RewriteSynchronously(es), up, up'
      PROVE  Down' /\ Present'
  BY <1>3 DEF RewriteSynchronously, Down, Present, FileBody
<1>4. CASE AppendEntry
  <2>1. CASE fileIsCurrent /\ AppendLine(minted + 1)
    <3>1. disk'.there = disk.there
      BY <2>1 DEF AppendLine, TypeOK, Bodies
    <3> QED BY <1>4, <2>1, <3>1 DEF AppendEntry, AppendLine, Down, Present
  <2>2. CASE UNCHANGED <<disk, fileIsCurrent, writer>>
    BY <1>4, <2>2 DEF AppendEntry, Down, Present
  <2> QED BY <1>3, <1>4, <2>1, <2>2 DEF AppendEntry, Persist, ShouldHaveSessionFile, TypeOK
<1>5. CASE FlushSync
  BY <1>3, <1>5 DEF FlushSync
<1>6. CASE SetSessionName \/ RewriteEntries \/ EnsureOnDisk \/ Close
  BY <1>6 DEF SetSessionName, RewriteEntries, EnsureOnDisk, Close, Down, Present, flags
<1>7. ASSUME NEW t \in Tasks, task[t] # Idle PROVE up
  BY <1>7 DEF Down, TypeOK
<1>8. ASSUME NEW t \in Tasks, \/ TaskThrows(t) \/ CloseRuns(t) \/ RewriteBegins(t)
                              \/ RewriteSerializes(t) \/ RewriteFails(t)
      PROVE Down' /\ Present'
  <2>1. up
    BY <1>7, <1>8 DEF TaskThrows, CloseRuns, RewriteBegins, RewriteSerializes, RewriteFails, AtHead,
                      Idle, Work
  <2>2. up' /\ disk' = disk
    BY <1>8, <2>1 DEF TaskThrows, CloseRuns, RewriteBegins, RewriteSerializes, RewriteFails
  <2>3. (fileIsCurrent' <=> disk.there) /\ (writer' # "none" => disk.there)
    <3>1. CASE CloseRuns(t)
      BY <2>1, <3>1 DEF CloseRuns, Present, TypeOK, Bodies
    <3>2. CASE ~CloseRuns(t)
      <4>1. fileIsCurrent' = fileIsCurrent /\ writer' \in {writer, "none"}
        BY <1>8, <3>2 DEF TaskThrows, RewriteBegins, RewriteSerializes, RewriteFails, flags
      <4> QED BY <2>1, <4>1 DEF Present
    <3> QED BY <3>1, <3>2
  <2> QED BY <2>2, <2>3 DEF Down, Present
<1>9. ASSUME NEW t \in Tasks, RewriteRenames(t) PROVE Down' /\ Present'
  <2>1. up /\ task[t].body.there
    BY <1>7, <1>9 DEF RewriteRenames, Idle, Work, Formats
  <2> QED BY <1>9, <2>1 DEF RewriteRenames, Down, Present
<1>10. CASE UNCHANGED vars
  BY <1>10 DEF vars, Down, Present
<1> QED BY <1>1, <1>2, <1>4, <1>5, <1>6, <1>8, <1>9, <1>10 DEF Next

-----------------------------------------------------------------------------
(* The chain. *)

LEMMA ChainStep ==
  ASSUME TypeOK, Down, Chained, [Next]_vars
  PROVE  Chained'
<1> DEFINE Queued == \A i \in DOMAIN queue : i > 1 => task[queue[i]].st = "queued"
           Heads == ~overlapped => \A t \in Tasks : UnderWay(t) => queue # <<>> /\ Head(queue) = t
<1>0. Queued /\ Heads /\ queue \in Seq(Tasks) /\ task = [t \in Tasks |-> task[t]]
  BY DEF Chained, TypeOK
<1>1. CASE UNCHANGED <<task, queue, overlapped>>
  BY <1>0, <1>1 DEF Chained, UnderWay
<1>2. CASE Crash
  BY <1>2, EmptyQueue DEF Crash, Chained, UnderWay, Idle, Work
<1>3. ASSUME NEW es, RewriteSynchronously(es) PROVE Chained'
  <2>1. queue' = <<>> /\ (\A i \in DOMAIN queue' : FALSE)
    BY <1>3, EmptyQueue DEF RewriteSynchronously
  <2>2. ASSUME ~overlapped', NEW t \in Tasks PROVE ~UnderWay(t)'
    BY <1>3, <2>2 DEF RewriteSynchronously, Rewriting, UnderWay, Idle, Work
  <2> QED BY <2>1, <2>2 DEF Chained
<1>4. CASE AppendEntry
  <2>1. CASE AppendLine(minted + 1)
    BY <1>0, <2>1 DEF AppendLine, Chained, UnderWay
  <2>2. CASE UNCHANGED <<task, queue>> /\ overlapped' = (overlapped \/ Rewriting)
    BY <1>0, <2>2 DEF Chained, UnderWay
  <2> QED BY <1>1, <1>3, <1>4, <2>1, <2>2 DEF AppendEntry, Persist
<1>5. CASE FlushSync
  BY <1>3, <1>5 DEF FlushSync
<1>6. ASSUME NEW k \in {"rewrite", "close"}, Schedule(k), overlapped' \in BOOLEAN,
             ~overlapped' => ~overlapped
      PROVE  Chained'
  <2>1. PICK t \in Tasks : /\ task[t] = Idle
                           /\ task' = [task EXCEPT ![t] = Work(k, "queued", NoFile)]
                           /\ queue' = Append(queue, t)
    BY <1>6 DEF Schedule
  <2>2. /\ DOMAIN queue' = DOMAIN queue \cup {Len(queue) + 1}
        /\ \A i \in DOMAIN queue : queue'[i] = queue[i] /\ queue[i] \in Tasks
        /\ queue'[Len(queue) + 1] = t
        /\ queue # <<>> => queue' # <<>> /\ Head(queue') = Head(queue)
    BY <1>0, <2>1
  <2>3. task'[t].st = "queued" /\ \A u \in Tasks \ {t} : task'[u] = task[u]
    BY <1>0, <2>1 DEF Work
  <2>4. \A i \in DOMAIN queue' : i > 1 => task'[queue'[i]].st = "queued"
    BY <1>0, <2>2, <2>3
  <2>5. ASSUME ~overlapped', NEW u \in Tasks, UnderWay(u)'
        PROVE  queue' # <<>> /\ Head(queue') = u
    BY <1>0, <1>6, <2>2, <2>3, <2>5 DEF UnderWay
  <2> QED BY <2>4, <2>5 DEF Chained
<1>7. CASE SetSessionName
  <2>1. CASE Schedule("rewrite")
    BY <1>6, <1>7, <2>1 DEF SetSessionName, Rewriting, TypeOK
  <2>2. CASE UNCHANGED <<task, queue>>
    BY <1>0, <1>7, <2>2 DEF SetSessionName, Chained, UnderWay
  <2> QED BY <1>7, <2>1, <2>2 DEF SetSessionName
<1>8. CASE RewriteEntries \/ EnsureOnDisk \/ Close
  BY <1>1, <1>6, <1>8 DEF RewriteEntries, EnsureOnDisk, Close, TypeOK
<1>9. ASSUME NEW t \in Tasks, Done(t), queue # <<>> /\ Head(queue) = t, overlapped' = overlapped
      PROVE  Chained'
  <2>1. task' = [task EXCEPT ![t] = Idle] /\ queue' = Tail(queue)
    BY <1>9 DEF Done
  <2>2. /\ \A i \in DOMAIN queue' : i \in Nat /\ i >= 1 /\ i + 1 \in DOMAIN queue
                                 /\ queue'[i] = queue[i + 1] /\ queue[i + 1] \in Tasks
        /\ 1 \in DOMAIN queue /\ queue[1] = t
    BY <1>0, <1>9, <2>1
  <2>3. \A i \in DOMAIN queue' : i + 1 > 1 /\ queue'[i] # t
    BY <2>2 DEF TypeOK
  <2>4. \A i \in DOMAIN queue' : task'[queue'[i]].st = "queued"
    BY <1>0, <2>1, <2>2, <2>3
  <2>5. ~overlapped' => \A u \in Tasks : ~UnderWay(u)'
    BY <1>0, <1>9, <2>1 DEF UnderWay, Idle, Work
  <2> QED BY <2>4, <2>5 DEF Chained
<1>10. ASSUME NEW t \in Tasks, TaskThrows(t) \/ CloseRuns(t) PROVE Chained'
  BY <1>9, <1>10 DEF TaskThrows, CloseRuns, AtHead
<1>11. ASSUME NEW t \in Tasks, RewriteBegins(t) PROVE Chained'
  <2>1. /\ queue # <<>> /\ Head(queue) = t /\ task[t].st = "queued" /\ queue' = queue
        /\ task' = [task EXCEPT ![t] = Work("rewrite", "closing", NoFile)]
        /\ overlapped' = overlapped
    BY <1>11 DEF RewriteBegins, AtHead
  <2>2. \A i \in DOMAIN queue : i > 1 => queue[i] # t /\ queue[i] \in Tasks
    <3>1. 1 \in DOMAIN queue /\ queue[1] = t /\ \A i \in DOMAIN queue : queue[i] \in Tasks
      BY <1>0, <2>1
    <3> QED BY <3>1 DEF TypeOK
  <2>3. \A i \in DOMAIN queue' : i > 1 => task'[queue'[i]].st = "queued"
    BY <1>0, <2>1, <2>2
  <2>4. \A u \in Tasks \ {t} : task'[u] = task[u]
    BY <1>0, <2>1
  <2>5. ASSUME ~overlapped', NEW u \in Tasks, UnderWay(u)'
        PROVE  queue' # <<>> /\ Head(queue') = u
    BY <1>0, <2>1, <2>4, <2>5 DEF UnderWay
  <2> QED BY <2>3, <2>5 DEF Chained
<1>12. ASSUME NEW t \in Tasks, RewriteSerializes(t) PROVE Chained'
  <2>1. /\ task[t].st = "closing" /\ queue' = queue /\ overlapped' = overlapped
        /\ task' = [task EXCEPT ![t] = Work("rewrite", "writing", FileBody(entries))]
    BY <1>12 DEF RewriteSerializes
  <2>2. \A u \in Tasks \ {t} : task'[u] = task[u]
    BY <1>0, <2>1
  <2>3. \A u \in Tasks : UnderWay(u)' => UnderWay(u)
    BY <2>1, <2>2 DEF UnderWay
  <2>4. ASSUME NEW i \in DOMAIN queue, i > 1 PROVE queue[i] \in Tasks /\ queue[i] # t
    <3>1. task[queue[i]].st = "queued"
      BY <1>0, <2>4
    <3>2. queue[i] \in Tasks
      BY <1>0
    <3> QED BY <2>1, <3>1, <3>2
  <2> QED BY <1>0, <2>1, <2>2, <2>3, <2>4 DEF Chained
<1>13. ASSUME NEW t \in Tasks, UnderWay(t), Done(t),
              \/ overlapped' = overlapped
              \/ ~overlapped' /\ \A u \in Tasks \ {t} : ~UnderWay(u)
       PROVE  Chained'
  <2>1. task' = [task EXCEPT ![t] = Idle] /\ \A u \in Tasks \ {t} : task'[u] = task[u]
    BY <1>0, <1>13 DEF Done
  <2>2. CASE queue # <<>> /\ Head(queue) = t
    <3>1. queue' = Tail(queue)
      BY <1>13, <2>2 DEF Done
    <3>2. /\ \A i \in DOMAIN queue' : i \in Nat /\ i >= 1 /\ i + 1 \in DOMAIN queue
                                   /\ queue'[i] = queue[i + 1] /\ queue[i + 1] \in Tasks
          /\ 1 \in DOMAIN queue /\ queue[1] = t
      BY <1>0, <2>2, <3>1
    <3>3. \A i \in DOMAIN queue' : i + 1 > 1 /\ queue'[i] # t
      BY <3>2 DEF TypeOK
    <3>4. ASSUME NEW i \in DOMAIN queue' PROVE task'[queue'[i]].st = "queued"
      <4>1. task[queue[i + 1]].st = "queued"
        BY <1>0, <3>2, <3>3
      <4> QED BY <2>1, <3>2, <3>3, <4>1
    <3>5. ~overlapped' => \A u \in Tasks : ~UnderWay(u)'
      BY <1>0, <1>13, <2>1, <2>2 DEF UnderWay, Idle, Work
    <3> QED BY <3>4, <3>5 DEF Chained
  <2>3. CASE ~(queue # <<>> /\ Head(queue) = t)
    <3>1. queue' = queue /\ overlapped
      BY <1>0, <1>13, <2>3 DEF Done
    <3>2. \A i \in DOMAIN queue : i > 1 => queue[i] \in Tasks /\ queue[i] # t
      BY <1>0, <1>13 DEF UnderWay
    <3>3. ~overlapped' => \A u \in Tasks : ~UnderWay(u)'
      BY <1>0, <1>13, <2>1, <3>1 DEF UnderWay, Idle, Work
    <3> QED BY <1>0, <2>1, <3>1, <3>2, <3>3 DEF Chained
  <2> QED BY <2>2, <2>3
<1>14. ASSUME NEW t \in Tasks, RewriteRenames(t) \/ RewriteFails(t) PROVE Chained'
  <2>1. UnderWay(t) /\ Done(t)
    BY <1>14 DEF RewriteRenames, RewriteFails, UnderWay
  <2>2. \/ overlapped' = overlapped
        \/ ~overlapped' /\ \A u \in Tasks \ {t} : ~UnderWay(u)
    <3>1. CASE RewriteFails(t)
      BY <3>1 DEF RewriteFails
    <3>2. CASE RewriteRenames(t)
      BY <3>2 DEF RewriteRenames, TypeOK
    <3> QED BY <1>14, <3>1, <3>2
  <2> QED BY <1>13, <2>1, <2>2
<1> QED
  BY <1>1, <1>2, <1>4, <1>5, <1>7, <1>8, <1>10, <1>11, <1>12, <1>14 DEF Next, Open, vars

-----------------------------------------------------------------------------
(* Without an overlap the file keeps up with the memory. *)

\* Nothing is under way after a synchronous rewrite that nothing overlaps.
LEMMA RewriteClean ==
  ASSUME NEW es, RewriteSynchronously(es), ~overlapped', ~diskFailure'
  PROVE  /\ \A t \in Tasks : ~UnderWay(t)'
         /\ disk' = FileBody(es) /\ writer' = "none"
<1>1. ~Rewriting /\ (\A t \in Tasks : task'[t] = IF task[t].st = "queued" THEN Idle ELSE task[t])
  BY DEF RewriteSynchronously
<1>2. \A t \in Tasks : ~UnderWay(t)'
  BY <1>1 DEF Rewriting, UnderWay, Idle, Work
<1> QED BY <1>2 DEF RewriteSynchronously

\* Two steps that cannot disturb it.
LEMMA QuietInSync ==
  ASSUME InSync, entries' = entries, disk' = disk, writer' \in {writer, "none"},
         \A t \in Tasks : UnderWay(t)' => UnderWay(t) \/ writer' = "none",
         \A t \in Tasks : task'[t].st = "writing" =>
             task'[t] = task[t] \/ task'[t].body.ents = entries
  PROVE  InSync'
<1>1. \A t \in Tasks : UnderWay(t)' => writer' = "none"
  BY DEF InSync
<1>2. \A t \in Tasks : task'[t].st = "writing" => task'[t].body.ents = entries'
  BY DEF InSync
<1> QED BY <1>1, <1>2 DEF InSync, HasAssistant

\* Of the disk work only a rename can end an overlap, or mend a failure.
LEMMA UnspoiltTasks ==
  ASSUME Unspoilt', NEW t \in Tasks, \/ TaskThrows(t) \/ CloseRuns(t) \/ RewriteBegins(t)
                                     \/ RewriteSerializes(t) \/ RewriteFails(t)
  PROVE  Unspoilt /\ ~TaskThrows(t) /\ ~RewriteFails(t)
<1>1. CASE TaskThrows(t)
  BY <1>1 DEF TaskThrows, Unspoilt
<1>2. CASE CloseRuns(t)
  BY <1>2 DEF CloseRuns, TaskThrows, RewriteFails, AtHead, Unspoilt
<1>3. CASE RewriteBegins(t)
  BY <1>3 DEF RewriteBegins, TaskThrows, RewriteFails, AtHead, Unspoilt
<1>4. CASE RewriteSerializes(t)
  BY <1>4 DEF RewriteSerializes, TaskThrows, RewriteFails, AtHead, Unspoilt
<1>5. CASE RewriteFails(t)
  BY <1>5 DEF RewriteFails, Unspoilt
<1> QED BY <1>1, <1>2, <1>3, <1>4, <1>5

LEMMA SyncStep ==
  ASSUME IInv, [Next]_vars, Unspoilt'
  PROVE  InSync'
<1>0. /\ TypeOK /\ Formats /\ Present /\ Down
      /\ Unspoilt => InSync
      /\ \A t \in Tasks : TaskMoves(t)
  BY TaskSteps DEF IInv, Synced
<1>1. CASE Open
  <2>1. \A t \in Tasks : task'[t] = Idle /\ writer' = "none"
    BY <1>0, <1>1 DEF Open, Down
  <2>2. disk' = disk /\ entries' = disk.ents
    BY <1>1 DEF Open
  <2>3. HasAssistant(entries') => disk'.there
    BY <1>0, <2>2, EmptyQueue DEF Present, HasAssistant
  <2>4. \A t \in Tasks : ~UnderWay(t)' /\ task'[t].st # "writing"
    BY <2>1 DEF UnderWay, Idle, Work
  <2>5. writer' # "replaced"
    BY <1>0, <1>1 DEF Open, Down
  <2> QED BY <2>2, <2>3, <2>4, <2>5 DEF InSync
<1>2. ASSUME NEW es, RewriteSynchronously(es), entries' = es PROVE InSync'
  BY <1>2, RewriteClean DEF InSync, UnderWay, Unspoilt, FileBody
<1>3. ASSUME NEW t \in Tasks, RewriteRenames(t), ~overlapped' PROVE InSync'
  <2>1. /\ task[t].st = "writing" /\ disk' = task[t].body /\ entries' = entries
        /\ writer' = (IF writer = "file" THEN "replaced" ELSE writer)
        /\ task' = [task EXCEPT ![t] = Idle]
    BY <1>3 DEF RewriteRenames, Done, memory
  <2>2. disk'.there
    BY <1>0, <2>1 DEF Formats
  <2>3. UnderWay(t)
    BY <2>1 DEF UnderWay
  <2>4. /\ task[t].body.ents = entries /\ writer = "none"
        /\ \A u \in Tasks \ {t} : task[u].st = "writing" => task[u].body.ents = entries
    <3>1. CASE Unspoilt
      BY <1>0, <2>1, <2>3, <3>1 DEF InSync
    <3>2. CASE ~Unspoilt
      <4>1. overlapped
        BY <1>3, <3>2 DEF RewriteRenames, Unspoilt
      <4>2. /\ task[t].body = FileBody(entries) /\ writer = "none"
            /\ \A u \in Tasks \ {t} : ~UnderWay(u)
        BY <1>3, <4>1 DEF RewriteRenames
      <4> QED BY <4>2 DEF FileBody, UnderWay
    <3> QED BY <3>1, <3>2
  <2>5. /\ \A u \in Tasks \ {t} : task'[u] = task[u]
        /\ task'[t] = Idle
    BY <1>0, <2>1 DEF TypeOK
  <2>6. \A u \in Tasks : task'[u].st = "writing" => task'[u].body.ents = entries'
    BY <2>1, <2>4, <2>5 DEF Idle, Work
  <2> QED BY <2>1, <2>2, <2>4, <2>6 DEF InSync
<1>4. CASE AppendEntry
  <2>0. entries' = Append(entries, minted + 1) /\ entries \in Seq(Nat)
    BY <1>0, <1>4 DEF AppendEntry, TypeOK
  <2>1. CASE RewriteSynchronously(entries')
    BY <1>2, <2>1
  <2>2. CASE fileIsCurrent /\ AppendLine(minted + 1)
    <3>1. Unspoilt /\ ~Rewriting /\ up
      <4>1. overlapped' = (overlapped \/ Rewriting) /\ overlapped' = FALSE
        BY <2>2, TypesStep DEF AppendLine, Unspoilt, TypeOK
      <4>2. ~overlapped /\ ~Rewriting
        BY <4>1
      <4>3. up /\ ~diskFailure
        BY <1>0, <1>4, <2>2 DEF AppendEntry, AppendLine, Unspoilt, TypeOK
      <4> QED BY <4>2, <4>3 DEF Unspoilt
    <3>2. disk.there /\ disk.ents = entries /\ writer # "replaced"
      BY <1>0, <2>2, <3>1 DEF Present, InSync
    <3>3. disk' = [disk EXCEPT !.ents = Append(disk.ents, minted + 1)]
      BY <2>2, <3>2 DEF AppendLine, Unspoilt
    <3>4. disk'.there /\ disk'.ents = entries'
      BY <1>0, <2>0, <3>2, <3>3 DEF TypeOK, Bodies
    <3>5. \A t \in Tasks : task'[t] = task[t] /\ ~UnderWay(t)
      BY <2>2, <3>1 DEF AppendLine, Rewriting
    <3>6. writer' # "replaced"
      BY <2>2, <3>2 DEF AppendLine
    <3> QED BY <3>4, <3>5, <3>6 DEF InSync, UnderWay
  <2>3. CASE /\ ~ShouldHaveSessionFile(entries')
             /\ UNCHANGED <<disk, writer, task, diskFailure>>
             /\ overlapped' = (overlapped \/ Rewriting)
    <3>1. Unspoilt /\ up /\ ~Rewriting
      <4>1. overlapped' = FALSE
        BY TypesStep DEF Unspoilt, TypeOK
      <4> QED BY <1>4, <2>3, <4>1 DEF AppendEntry, Unspoilt
    <3>2. ~disk.there /\ ~HasAssistant(entries')
      BY <1>0, <1>4, <2>3, <3>1 DEF AppendEntry, ShouldHaveSessionFile, Present
    <3>3. \A t \in Tasks : task'[t] = task[t] /\ ~UnderWay(t)
      BY <2>3, <3>1 DEF Rewriting
    <3> QED BY <1>0, <2>3, <3>1, <3>2, <3>3 DEF InSync, UnderWay
  <2>4. CASE diskFailure
    BY <1>4, <2>4 DEF AppendEntry, Unspoilt
  <2> QED BY <1>4, <2>1, <2>2, <2>3, <2>4 DEF AppendEntry, Persist
<1>5. CASE FlushSync
  BY <1>2, <1>5 DEF FlushSync, memory
<1>6. CASE SetSessionName \/ RewriteEntries \/ EnsureOnDisk \/ Close
  <2>1. UNCHANGED <<entries, disk, writer>>
    BY <1>6 DEF SetSessionName, RewriteEntries, EnsureOnDisk, Close, memory
  <2>2. ASSUME NEW k, Schedule(k), NEW t \in Tasks PROVE task'[t] = task[t] \/ task'[t].st = "queued"
    BY <1>0, <2>2 DEF Schedule, Work, TypeOK
  <2>3. \A t \in Tasks : task'[t] = task[t] \/ task'[t].st = "queued"
    BY <1>6, <2>2 DEF SetSessionName, RewriteEntries, EnsureOnDisk, Close
  <2>4. Unspoilt
    BY <1>0, <1>6 DEF SetSessionName, RewriteEntries, EnsureOnDisk, Close, Unspoilt, TypeOK
  <2> QED BY <1>0, <2>1, <2>3, <2>4, QuietInSync DEF UnderWay
<1>7. ASSUME NEW t \in Tasks, \/ TaskThrows(t) \/ CloseRuns(t) \/ RewriteBegins(t)
                              \/ RewriteSerializes(t) \/ RewriteFails(t)
      PROVE  InSync'
  <2>1. entries' = entries /\ disk' = disk /\ writer' \in {writer, "none"}
    BY <1>7 DEF TaskThrows, CloseRuns, RewriteBegins, RewriteSerializes, RewriteFails, memory
  <2>2. Unspoilt
    BY <1>7, UnspoiltTasks
  <2>3. \A u \in Tasks : UnderWay(u)' => UnderWay(u) \/ writer' = "none"
    BY <1>0 DEF TaskMoves, UnderWay, Idle, Work
  <2>4. \A u \in Tasks : task'[u].st = "writing" =>
            task'[u] = task[u] \/ task'[u].body.ents = entries
    BY <1>0 DEF TaskMoves, Idle, Work, FileBody
  <2> QED BY <1>0, <2>1, <2>2, <2>3, <2>4, QuietInSync
<1>8. ASSUME NEW t \in Tasks, RewriteRenames(t) PROVE InSync'
  BY <1>3, <1>8 DEF Unspoilt
<1>9. CASE Crash
  BY <1>9 DEF Crash, Unspoilt
<1>10. CASE UNCHANGED vars
  <2>1. Unspoilt /\ UNCHANGED <<entries, disk, writer, task>>
    BY <1>10 DEF vars, Unspoilt
  <2> QED BY <1>0, <2>1 DEF InSync, UnderWay, HasAssistant
<1> QED BY <1>1, <1>4, <1>5, <1>6, <1>7, <1>8, <1>9, <1>10 DEF Next

\* An edit that is still to come covers whatever there is.
LEMMA AwaitedCovers == Awaited => InCover
  BY DEF InCover

LEMMA CoverStep ==
  ASSUME IInv, [Next]_vars, Unspoilt'
  PROVE  InCover'
<1>0. /\ TypeOK /\ Formats /\ Present /\ Down /\ Chained
      /\ Unspoilt => InCover
  BY DEF IInv, Covered
<1>1. ASSUME \A t \in Tasks : task'[t].st # "writing", disk'.rev = rev' PROVE InCover'
  BY <1>1 DEF InCover
<1>2. CASE Open
  <2>1. \A t \in Tasks : task'[t] = Idle
    BY <1>0, <1>2 DEF Open, Down
  <2> QED BY <1>1, <1>2, <2>1 DEF Open, Idle, Work
<1>3. ASSUME NEW es, RewriteSynchronously(es), rev' = rev PROVE InCover'
  BY <1>1, <1>3, RewriteClean DEF UnderWay, Unspoilt, FileBody
<1>4. ASSUME Unspoilt, rev' = rev, disk'.there => disk.there, disk'.rev = disk.rev,
             \A t \in Tasks : task'[t] = task[t] \/ (task[t].st = "idle" /\ task'[t].st = "queued")
      PROVE  InCover'
  <2>1. Awaited => Awaited'
    BY <1>4 DEF Awaited
  <2>2. \A t \in Tasks : task[t].st \in {"closing", "writing"} => task'[t] = task[t]
    BY <1>4
  <2>3. \A t \in Tasks : task'[t].st = "writing" => task'[t] = task[t]
    BY <1>4
  <2> QED BY <1>0, <1>4, <2>1, <2>2, <2>3 DEF InCover
<1>5. CASE AppendEntry
  <2>1. CASE RewriteSynchronously(entries')
    BY <1>3, <1>5, <2>1 DEF AppendEntry
  <2>2. CASE fileIsCurrent /\ AppendLine(minted + 1)
    <3>1. Unspoilt
      <4>1. overlapped' = (overlapped \/ Rewriting) /\ overlapped' = FALSE
        BY <2>2, TypesStep DEF AppendLine, Unspoilt, TypeOK
      <4>2. ~overlapped
        BY <4>1
      <4> QED BY <1>0, <1>5, <2>2, <4>2 DEF AppendEntry, AppendLine, Unspoilt, TypeOK
    <3>2. disk'.there = disk.there /\ disk'.rev = disk.rev
      BY <1>0, <2>2 DEF AppendLine, TypeOK, Bodies
    <3> QED BY <1>4, <1>5, <2>2, <3>1, <3>2 DEF AppendEntry, AppendLine
  <2>3. CASE UNCHANGED <<disk, task, diskFailure, overlapped>>
    BY <1>4, <1>5, <2>3 DEF AppendEntry, Unspoilt
  <2>4. CASE UNCHANGED <<disk, task, diskFailure>> /\ overlapped' = (overlapped \/ Rewriting)
    <3>1. ~overlapped
      BY <2>4, TypesStep DEF Unspoilt, TypeOK
    <3> QED BY <1>4, <1>5, <2>4, <3>1 DEF AppendEntry, Unspoilt
  <2> QED BY <1>5, <2>1, <2>2, <2>3, <2>4 DEF AppendEntry, Persist
<1>6. CASE FlushSync
  BY <1>3, <1>6 DEF FlushSync, memory
<1>7. ASSUME NEW k \in {"rewrite", "close"}, Schedule(k)
      PROVE  /\ \A t \in Tasks : \/ task'[t] = task[t]
                                 \/ task[t].st = "idle" /\ task'[t].st = "queued"
             /\ k = "rewrite" => Awaited'
  <2>1. PICK t \in Tasks : /\ task[t] = Idle
                           /\ task' = [task EXCEPT ![t] = Work(k, "queued", NoFile)]
    BY <1>7 DEF Schedule
  <2>2. task'[t] = Work(k, "queued", NoFile) /\ \A u \in Tasks \ {t} : task'[u] = task[u]
    BY <1>0, <2>1 DEF TypeOK
  <2> QED BY <2>1, <2>2 DEF Awaited, Idle, Work
<1>8. CASE SetSessionName
  <2>1. CASE disk.there
    BY <1>7, <1>8, <2>1, AwaitedCovers DEF SetSessionName, Awaited, InCover
  <2>2. CASE ~disk.there
    <3>1. ~Rewriting /\ task' = task /\ disk' = disk
      <4>1. overlapped' = (overlapped \/ (~disk.there /\ Rewriting)) /\ overlapped' = FALSE
        BY <1>8, TypesStep DEF SetSessionName, Unspoilt, TypeOK
      <4> QED BY <1>8, <2>2, <4>1 DEF SetSessionName
    <3> QED BY <2>2, <3>1 DEF InCover, Rewriting, UnderWay
  <2> QED BY <2>1, <2>2
<1>9. CASE RewriteEntries
  BY <1>7, <1>9 DEF RewriteEntries, Awaited, InCover
<1>10. CASE EnsureOnDisk \/ Close
  <2>1. Unspoilt /\ rev' = rev /\ disk' = disk
    <3>1. CASE EnsureOnDisk
      BY <3>1 DEF EnsureOnDisk, Unspoilt, memory
    <3>2. CASE Close
      BY <3>2 DEF Close, Unspoilt, memory
    <3> QED BY <1>10, <3>1, <3>2
  <2>2. \A t \in Tasks : task'[t] = task[t] \/ (task[t].st = "idle" /\ task'[t].st = "queued")
    BY <1>7, <1>10 DEF EnsureOnDisk, Close
  <2> QED BY <1>4, <2>1, <2>2
<1>11. ASSUME NEW t \in Tasks, CloseRuns(t) PROVE InCover'
  <2>1. Unspoilt /\ rev' = rev /\ disk' = disk
    BY <1>11, UnspoiltTasks DEF CloseRuns, memory
  <2>2. task[t].kind = "close" /\ task[t].st = "queued" /\ task'[t] = Idle
    BY <1>0, <1>11 DEF CloseRuns, AtHead, Done, TypeOK
  <2>3. \A u \in Tasks \ {t} : task'[u] = task[u]
    BY <1>0, <1>11 DEF CloseRuns, Done, TypeOK
  <2>4. Awaited => Awaited'
    BY <2>2, <2>3 DEF Awaited
  <2>5. \A u \in Tasks : task[u].st \in {"closing", "writing"} => task'[u] = task[u]
    BY <2>2, <2>3
  <2>6. \A u \in Tasks : task'[u].st = "writing" => task'[u] = task[u]
    BY <2>2, <2>3 DEF Idle, Work
  <2> QED BY <1>0, <2>1, <2>4, <2>5, <2>6 DEF InCover
<1>12. ASSUME NEW t \in Tasks, RewriteBegins(t) PROVE InCover'
  <2>1. Unspoilt /\ task'[t] = Work("rewrite", "closing", NoFile) /\ AtHead(t)
    BY <1>0, <1>12, UnspoiltTasks DEF RewriteBegins, TypeOK
  <2>2. \A u \in Tasks : ~UnderWay(u)
    BY <1>0, <2>1 DEF Chained, AtHead, Unspoilt, UnderWay
  <2>3. \A u \in Tasks : task'[u].st # "writing"
    BY <1>0, <1>12, <2>2 DEF RewriteBegins, UnderWay, Work, TypeOK
  <2> QED BY <2>1, <2>3 DEF InCover, Work
<1>13. ASSUME NEW t \in Tasks, RewriteSerializes(t) PROVE InCover'
  <2>1. /\ Unspoilt /\ task'[t] = Work("rewrite", "writing", FileBody(entries))
        /\ rev' = rev /\ UnderWay(t)
        /\ \A u \in Tasks \ {t} : task'[u] = task[u]
    BY <1>0, <1>13, UnspoiltTasks DEF RewriteSerializes, UnderWay, TypeOK, memory
  <2>2. \A u \in Tasks \ {t} : ~UnderWay(u)
    BY <1>0, <2>1 DEF Chained, Unspoilt
  <2>3. task'[t].st = "writing" /\ task'[t].body.rev = rev'
    BY <2>1 DEF Work, FileBody
  <2>4. \A u \in Tasks : task'[u].st = "writing" => u = t
    BY <2>1, <2>2 DEF UnderWay
  <2> QED BY <2>3, <2>4 DEF InCover
<1>14. ASSUME NEW t \in Tasks, RewriteRenames(t) PROVE InCover'
  <2>1. /\ task[t].st = "writing" /\ UnderWay(t) /\ disk' = task[t].body /\ rev' = rev
        /\ task'[t] = Idle /\ \A u \in Tasks \ {t} : task'[u] = task[u]
    BY <1>0, <1>14 DEF RewriteRenames, Done, UnderWay, TypeOK, memory
  <2>2. CASE Unspoilt
    <3>1. \A u \in Tasks \ {t} : ~UnderWay(u)
      BY <1>0, <2>1, <2>2 DEF Chained, Unspoilt
    <3>2. \A u \in Tasks : task'[u].st # "writing"
      BY <2>1, <3>1 DEF UnderWay, Idle, Work
    <3>3. task[t].body.rev = rev \/ Awaited
      BY <1>0, <2>1, <2>2 DEF InCover
    <3>4. Awaited => Awaited'
      BY <2>1 DEF Awaited
    <3> QED BY <1>1, <2>1, <3>2, <3>3, <3>4 DEF InCover
  <2>3. CASE ~Unspoilt
    <3>1. overlapped /\ ~overlapped'
      BY <1>14, <2>3 DEF RewriteRenames, Unspoilt
    <3>2. task[t].body = FileBody(entries) /\ \A u \in Tasks \ {t} : ~UnderWay(u)
      BY <1>14, <3>1 DEF RewriteRenames
    <3>3. \A u \in Tasks : task'[u].st # "writing"
      BY <2>1, <3>2 DEF UnderWay, Idle, Work
    <3> QED BY <1>1, <2>1, <3>2, <3>3 DEF FileBody
  <2> QED BY <2>2, <2>3
<1>15. CASE Crash
  BY <1>15 DEF Crash, Unspoilt
<1>16. CASE UNCHANGED vars
  BY <1>4, <1>16 DEF vars, Unspoilt
<1> QED
  BY <1>2, <1>5, <1>6, <1>8, <1>9, <1>10, <1>11, <1>12, <1>13, <1>14, <1>15, <1>16,
     UnspoiltTasks DEF Next

LEMMA StepIInv == IInv /\ [Next]_vars => IInv'
<1> SUFFICES ASSUME IInv, [Next]_vars PROVE IInv' OBVIOUS
<1>1. TypeOK /\ Ordered /\ Formats /\ Down /\ Present /\ Chained
  BY DEF IInv
<1>2. TypeOK'
  BY TypesStep
<1>3. Ordered' /\ Formats' /\ Down' /\ Present'
  BY <1>1, OrderStep, FormatStep, PresentStep
<1>4. Chained'
  BY <1>1, ChainStep
<1>5. Synced'
  <2>1. Unspoilt' => InSync'
    BY SyncStep
  <2> QED BY <2>1 DEF Synced
<1>6. Covered'
  <2>1. Unspoilt' => InCover'
    BY CoverStep
  <2> QED BY <2>1 DEF Covered
<1> QED BY <1>2, <1>3, <1>4, <1>5, <1>6 DEF IInv

-----------------------------------------------------------------------------
(* The theorems. *)

\* Whatever appends, rewrites and crashes follow each other, the invariant
\* above is kept.
THEOREM Invariance == Spec => []IInv
  BY InitHolds, StepIInv, PTL DEF Spec

\* The file and the chain of disk work are of their types.
THEOREM TypeCorrect == Spec => []TypeOK
  BY Invariance, PTL DEF IInv

\* The file lists its entries in the order they were appended, each once.
THEOREM EntriesInOrder == Spec => []InOrder
<1>1. IInv => InOrder
  BY DEF IInv, Ordered, Good, InOrder
<1> QED BY <1>1, Invariance, PTL

\* Where no full rewrite was overlapped and the disk did not fail, the file
\* has all of the session, so that a crash loses nothing.
THEOREM OnlyOverlapsLose == Spec => []OnlyOverlapLoses
<1>1. IInv => OnlyOverlapLoses
  BY DEF IInv, Synced, InSync, Unspoilt, OnlyOverlapLoses
<1> QED BY <1>1, Invariance, PTL

\* A title or a pruned result is on the file once no disk work is pending.
THEOREM EditsReachTheFile == Spec => []EditsLand
<1>1. IInv => EditsLand
  BY DEF IInv, Covered, InCover, Unspoilt, Awaited, EditsLand, Idle, Work
<1> QED BY <1>1, Invariance, PTL

\* A file in an older format is replaced as a whole before it is appended to.
THEOREM OldIsReplacedWhole == Spec => NeverMixed
<1>1. IInv /\ [Next]_vars => [disk.old /\ disk'.old => disk'.ents = disk.ents]_vars
  BY FormatStep DEF IInv
<1> QED BY <1>1, Invariance, PTL DEF Spec, NeverMixed
=============================================================================
