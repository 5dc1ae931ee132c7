----------------------------- MODULE SessionFile -----------------------------
(***************************************************************************)
(* One session file and the SessionManager that writes it, across crashes. *)
(*                                                                         *)
(* Entries are appended synchronously through one open writer.  Everything *)
(* else that touches the file (a new title, pruned entries, ensureOnDisk,  *)
(* close) is queued on a promise chain, #diskTail, whose full rewrites     *)
(* replace the file by a rename and so leave an open writer behind on the  *)
(* file that was replaced.  A synchronous rewrite resets the chain: what   *)
(* was queued on it turns into no-ops (the epoch), but a rewrite already   *)
(* under way goes on beside the new chain.                                 *)
(*                                                                         *)
(* An entry is the number of its append.  What is changed in place (the    *)
(* title in the header, pruned tool results) is abstracted to a revision.  *)
(* A same-process crash loses no write the kernel has taken; temporary     *)
(* files, blobs, the switch to another file and power loss are left out.   *)
(***************************************************************************)
EXTENDS Naturals, Sequences, FiniteSets

CONSTANTS
    Tasks,        \* queue slots: how much disk work may be pending at once
    Assistants,   \* the appends that are assistant messages
    MaxEntries,   \* appends ever made
    MaxRev        \* in-place changes ever made

ASSUME SessionFileAssumption ==
    /\ IsFiniteSet(Tasks)
    /\ Assistants \subseteq Nat
    /\ MaxEntries \in Nat /\ MaxRev \in Nat

VARIABLES
    disk,               \* the file at the session's path
    up,                 \* whether a process has the session open
    entries, rev,       \* the session in memory
    fileIsCurrent, rewriteRequired, forceFileCreation, diskFailure,
    writer,             \* "none", open on the "file", or on one "replaced"
    task,               \* [kind, st, body] of the disk work in each slot
    queue,              \* the slots chained on #diskTail, the oldest first
    minted,             \* entries ever appended, by any process
    overlapped          \* history: while a full rewrite was under way, an
                        \* entry was appended, the file rewritten, or a
                        \* session without a file named

memory == <<entries, rev>>
flags == <<fileIsCurrent, rewriteRequired, forceFileCreation>>
vars == <<disk, up, entries, rev, fileIsCurrent, rewriteRequired, forceFileCreation,
          diskFailure, writer, task, queue, minted, overlapped>>

NoFile == [there |-> FALSE, old |-> FALSE, rev |-> 0, ents |-> <<>>]
OldFile == [there |-> TRUE, old |-> TRUE, rev |-> 0, ents |-> <<1>>]
FileBody(es) == [there |-> TRUE, old |-> FALSE, rev |-> rev, ents |-> es]
Work(k, st, body) == [kind |-> k, st |-> st, body |-> body]
Idle == Work("rewrite", "idle", NoFile)

\* A session nobody saved yet, or one an older version of the program left.
Init ==
    /\ \/ disk = NoFile /\ minted = 0
       \/ disk = OldFile /\ minted = 1
    /\ up = FALSE
    /\ entries = <<>> /\ rev = 0
    /\ fileIsCurrent = FALSE /\ rewriteRequired = FALSE /\ forceFileCreation = FALSE
    /\ diskFailure = FALSE
    /\ writer = "none"
    /\ task = [t \in Tasks |-> Idle] /\ queue = <<>>
    /\ overlapped = FALSE

HasAssistant(es) == \E i \in DOMAIN es : es[i] \in Assistants
ShouldHaveSessionFile(es) == forceFileCreation \/ fileIsCurrent \/ HasAssistant(es)
UnderWay(t) == task[t].st \in {"closing", "writing"}
Rewriting == \E t \in Tasks : UnderWay(t)

-----------------------------------------------------------------------------
(* Opening and crashing. *)

\* Mutant: the flag of a migration is not kept.
OpenTrusts ==
    /\ ~up /\ up' = TRUE
    /\ entries' = disk.ents /\ rev' = disk.rev
    /\ fileIsCurrent' = disk.there /\ forceFileCreation' = disk.there
    /\ rewriteRequired' \in {FALSE, disk.there}
    /\ UNCHANGED <<disk, diskFailure, writer, task, queue, minted, overlapped>>

\* Loading migrates what an older version wrote, and may sanitize the rest.
Open ==
    /\ ~up /\ up' = TRUE
    /\ entries' = disk.ents /\ rev' = disk.rev
    /\ fileIsCurrent' = disk.there /\ forceFileCreation' = disk.there
    /\ rewriteRequired' \in {disk.old, disk.there}
    /\ UNCHANGED <<disk, diskFailure, writer, task, queue, minted, overlapped>>

Crash ==
    /\ up /\ up' = FALSE
    /\ entries' = <<>> /\ rev' = 0
    /\ fileIsCurrent' = FALSE /\ rewriteRequired' = FALSE /\ forceFileCreation' = FALSE
    /\ diskFailure' = FALSE /\ writer' = "none"
    /\ task' = [t \in Tasks |-> Idle] /\ queue' = <<>>
    /\ overlapped' = FALSE
    /\ UNCHANGED <<disk, minted>>

-----------------------------------------------------------------------------
(* The synchronous paths. *)

\* Mutant: the chain is not reset.
RewriteSynchronouslyKeepsChain(es) ==
    /\ task' = [t \in Tasks |-> IF task[t].st = "queued" THEN Idle ELSE task[t]]
    /\ writer' = "none"
    /\ \/ /\ disk' = FileBody(es)
          /\ fileIsCurrent' = TRUE /\ rewriteRequired' = FALSE
          /\ UNCHANGED diskFailure
       \/ /\ diskFailure' = TRUE
          /\ UNCHANGED <<disk, fileIsCurrent, rewriteRequired>>
    /\ overlapped' = Rewriting
    /\ UNCHANGED queue

RewriteSynchronously(es) ==
    /\ task' = [t \in Tasks |-> IF task[t].st = "queued" THEN Idle ELSE task[t]]
    /\ queue' = <<>>
    /\ writer' = "none"
    /\ \/ /\ disk' = FileBody(es)
          /\ fileIsCurrent' = TRUE /\ rewriteRequired' = FALSE
          /\ UNCHANGED diskFailure
       \/ /\ diskFailure' = TRUE
          /\ UNCHANGED <<disk, fileIsCurrent, rewriteRequired>>
    /\ overlapped' = Rewriting

\* A writer opens the path as it is now; one that is open keeps its file.
AppendLine(e) ==
    /\ writer' = IF writer = "none" THEN "file" ELSE writer
    /\ \/ /\ disk' = IF writer = "replaced" THEN disk ELSE [disk EXCEPT !.ents = Append(@, e)]
          /\ UNCHANGED diskFailure
       \/ /\ diskFailure' = TRUE
          /\ UNCHANGED disk
    /\ overlapped' = (overlapped \/ Rewriting)
    /\ UNCHANGED <<fileIsCurrent, rewriteRequired, task, queue>>

\* Mutant: the cold path rewrites the file and still appends the line.
PersistTwice(es, e) ==
    \/ /\ ~ShouldHaveSessionFile(es)
       /\ fileIsCurrent' = FALSE
       /\ overlapped' = (overlapped \/ Rewriting)
       /\ UNCHANGED <<disk, rewriteRequired, diskFailure, writer, task, queue>>
    \/ /\ ShouldHaveSessionFile(es) /\ (~fileIsCurrent \/ rewriteRequired)
       /\ RewriteSynchronously(Append(es, e))
    \/ /\ fileIsCurrent /\ ~rewriteRequired
       /\ AppendLine(e)

Persist(es, e) ==
    \/ /\ ~ShouldHaveSessionFile(es)
       /\ fileIsCurrent' = FALSE
       /\ overlapped' = (overlapped \/ Rewriting)
       /\ UNCHANGED <<disk, rewriteRequired, diskFailure, writer, task, queue>>
    \/ /\ ShouldHaveSessionFile(es) /\ (~fileIsCurrent \/ rewriteRequired)
       /\ RewriteSynchronously(es)
    \/ /\ fileIsCurrent /\ ~rewriteRequired
       /\ AppendLine(e)

\* The entry is in memory before the disk is asked; a failed disk throws.
AppendEntry ==
    /\ up /\ minted < MaxEntries
    /\ minted' = minted + 1
    /\ entries' = Append(entries, minted + 1)
    /\ IF diskFailure
         THEN UNCHANGED <<disk, fileIsCurrent, rewriteRequired, diskFailure, writer, task,
                          queue, overlapped>>
         ELSE Persist(entries', minted + 1)
    /\ UNCHANGED <<up, rev, forceFileCreation>>

FlushSync ==
    /\ up /\ ~diskFailure /\ ShouldHaveSessionFile(entries)
    /\ RewriteSynchronously(entries)
    /\ UNCHANGED <<up, memory, forceFileCreation, minted>>

-----------------------------------------------------------------------------
(* The disk chain. *)

\* Mutant: a rewrite already on the chain is taken to cover this one.
ScheduleCoalesces(k) ==
    IF \E i \in DOMAIN queue : task[queue[i]].kind = k
      THEN UNCHANGED <<task, queue>>
      ELSE \E t \in Tasks :
             /\ task[t] = Idle
             /\ task' = [task EXCEPT ![t] = Work(k, "queued", NoFile)]
             /\ queue' = Append(queue, t)

Schedule(k) ==
    \E t \in Tasks :
        /\ task[t] = Idle
        /\ task' = [task EXCEPT ![t] = Work(k, "queued", NoFile)]
        /\ queue' = Append(queue, t)

\* The new name is in the header; without a file no rewrite is asked for.
SetSessionName ==
    /\ up /\ rev < MaxRev
    /\ rev' = rev + 1
    /\ IF disk.there THEN Schedule("rewrite") ELSE UNCHANGED <<task, queue>>
    /\ overlapped' = (overlapped \/ (~disk.there /\ Rewriting))
    /\ UNCHANGED <<disk, up, entries, flags, diskFailure, writer, minted>>

\* What was pruned, elided or stripped in place is saved: a session of one
\* message can be stripped of its images before it has a file.
RewriteEntries ==
    /\ up /\ rev < MaxRev
    /\ rev' = rev + 1
    /\ Schedule("rewrite")
    /\ UNCHANGED <<disk, up, entries, flags, diskFailure, writer, minted, overlapped>>

EnsureOnDisk ==
    /\ up
    /\ forceFileCreation' = TRUE
    /\ IF fileIsCurrent /\ ~rewriteRequired THEN UNCHANGED <<task, queue>> ELSE Schedule("rewrite")
    /\ UNCHANGED <<disk, up, memory, fileIsCurrent, rewriteRequired, diskFailure, writer, minted,
                   overlapped>>

Close ==
    /\ up
    /\ Schedule("close")
    /\ UNCHANGED <<disk, up, memory, flags, diskFailure, writer, minted, overlapped>>

AtHead(t) == queue # <<>> /\ Head(queue) = t /\ task[t].st = "queued"

Done(t) ==
    /\ task' = [task EXCEPT ![t] = Idle]
    /\ queue' = IF queue # <<>> /\ Head(queue) = t THEN Tail(queue) ELSE queue

\* Once the disk has failed the work is not begun.
TaskThrows(t) ==
    /\ AtHead(t) /\ diskFailure
    /\ Done(t)
    /\ UNCHANGED <<disk, up, memory, flags, diskFailure, writer, minted, overlapped>>

CloseRuns(t) ==
    /\ AtHead(t) /\ ~diskFailure /\ task[t].kind = "close"
    /\ fileIsCurrent' = (fileIsCurrent \/ writer # "none" \/ disk.there)
    /\ writer' = "none"
    /\ Done(t)
    /\ UNCHANGED <<disk, up, memory, rewriteRequired, forceFileCreation, diskFailure, minted,
                   overlapped>>

\* Mutant: the rewrite leaves the writer open.
RewriteBeginsOpen(t) ==
    /\ AtHead(t) /\ ~diskFailure /\ task[t].kind = "rewrite"
    /\ task' = [task EXCEPT ![t] = Work("rewrite", "closing", NoFile)]
    /\ UNCHANGED <<disk, up, memory, flags, diskFailure, writer, queue, minted, overlapped>>

\* The writer is closed, and its close awaited.
RewriteBegins(t) ==
    /\ AtHead(t) /\ ~diskFailure /\ task[t].kind = "rewrite"
    /\ task' = [task EXCEPT ![t] = Work("rewrite", "closing", NoFile)]
    /\ writer' = "none"
    /\ UNCHANGED <<disk, up, memory, flags, diskFailure, queue, minted, overlapped>>

RewriteSerializes(t) ==
    /\ task[t].st = "closing"
    /\ task' = [task EXCEPT ![t] = Work("rewrite", "writing", FileBody(entries))]
    /\ UNCHANGED <<disk, up, memory, flags, diskFailure, writer, queue, minted, overlapped>>

\* The rename; a rewrite that nothing overlapped leaves nothing missing.
RewriteRenames(t) ==
    /\ task[t].st = "writing"
    /\ disk' = task[t].body
    /\ writer' = IF writer = "file" THEN "replaced" ELSE writer
    /\ fileIsCurrent' = TRUE /\ rewriteRequired' = FALSE
    /\ overlapped' = (overlapped /\ ~(/\ task[t].body = FileBody(entries) /\ writer = "none"
                                      /\ \A u \in Tasks \ {t} : ~UnderWay(u)))
    /\ Done(t)
    /\ UNCHANGED <<up, memory, forceFileCreation, diskFailure, minted>>

RewriteFails(t) ==
    /\ task[t].st = "writing"
    /\ diskFailure' = TRUE
    /\ Done(t)
    /\ UNCHANGED <<disk, up, memory, flags, writer, minted, overlapped>>

Next ==
    \/ Open \/ Crash
    \/ AppendEntry \/ FlushSync
    \/ SetSessionName \/ RewriteEntries \/ EnsureOnDisk \/ Close
    \/ \E t \in Tasks :
         \/ TaskThrows(t) \/ CloseRuns(t)
         \/ RewriteBegins(t) \/ RewriteSerializes(t) \/ RewriteRenames(t) \/ RewriteFails(t)

Spec == Init /\ [][Next]_vars

-----------------------------------------------------------------------------
(* Properties. *)

Bodies == [there : BOOLEAN, old : BOOLEAN, rev : Nat, ents : Seq(Nat)]

(***************************************************************************)
(* The type of every variable; the chain holds each pending task once.     *)
(***************************************************************************)
TypeOK ==
    /\ disk \in Bodies
    /\ up \in BOOLEAN
    /\ entries \in Seq(Nat) /\ rev \in Nat
    /\ fileIsCurrent \in BOOLEAN /\ rewriteRequired \in BOOLEAN
    /\ forceFileCreation \in BOOLEAN /\ diskFailure \in BOOLEAN
    /\ writer \in {"none", "file", "replaced"}
    /\ task \in [Tasks -> [kind : {"rewrite", "close"},
                           st : {"idle", "queued", "closing", "writing"}, body : Bodies]]
    /\ queue \in Seq(Tasks)
    /\ \A i \in DOMAIN queue : task[queue[i]].st # "idle"
    /\ \A i, j \in DOMAIN queue : queue[i] = queue[j] => i = j
    /\ minted \in Nat
    /\ overlapped \in BOOLEAN

Increasing(es) == \A i, j \in DOMAIN es : i < j => es[i] < es[j]

(***************************************************************************)
(* The file lists entries in the order they were appended, and none twice, *)
(* whatever mixture of appends and rewrites wrote it, in how many lives.   *)
(***************************************************************************)
InOrder == Increasing(disk.ents)

Missing == \E i \in DOMAIN entries : \A k \in DOMAIN disk.ents : disk.ents[k] # entries[i]

(***************************************************************************)
(* Outside a failed disk, only an overlap with a full rewrite can make the *)
(* file fall behind the memory: without one, a crash at any moment loses   *)
(* no entry of a session that has produced output.                         *)
(***************************************************************************)
OnlyOverlapLoses ==
    up /\ ~diskFailure /\ ~overlapped =>
        /\ disk.there => disk.ents = entries
        /\ HasAssistant(entries) => disk.there

(***************************************************************************)
(* What was changed in place reaches the file: once no disk work is left   *)
(* pending, the file has the title and the pruned entries of the memory.   *)
(***************************************************************************)
EditsLand ==
    up /\ ~diskFailure /\ ~overlapped /\ disk.there /\ (\A t \in Tasks : task[t] = Idle) =>
        disk.rev = rev

(***************************************************************************)
(* A file in an older format is replaced as a whole, never appended to.    *)
(***************************************************************************)
NeverMixed == [][disk.old /\ disk'.old => disk'.ents = disk.ents]_vars

(***************************************************************************)
(* docs/session.md, "Append behavior": "an entry is durable the instant    *)
(* the append returns".                                                    *)
(***************************************************************************)
DurableOnReturn == up /\ ~diskFailure /\ HasAssistant(entries) => ~Missing
=============================================================================
