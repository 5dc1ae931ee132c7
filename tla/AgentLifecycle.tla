--------------------------- MODULE AgentLifecycle ---------------------------
(***************************************************************************)
(* One subagent's life: the executor's first run, the registry entry peers *)
(* address it by, the idle timer that parks it, the revivals that bring it *)
(* back from its transcript, and the operator who kills it.                *)
(*                                                                         *)
(* Agents do not share registry state, so one id is modelled and every     *)
(* session the program builds for it is a number.  A handler is one action *)
(* up to its next await; what the code does between two awaits is composed *)
(* from the registry operators below, in the order the code calls them.    *)
(*                                                                         *)
(* The transcript exists throughout (sessionFile is never null) and the    *)
(* TTL is positive and longer than one dispose, so a timer armed during a  *)
(* park or a release does not expire before its dispose is over; the       *)
(* executor's dispose returns within its cap of five seconds.              *)
(*                                                                         *)
(* A kill may come at any time.  release() removes the entry by id,        *)
(* whatever else is at work on the agent: "crossed" is a history variable, *)
(* read by no guard, that remembers whether a kill met what it must not    *)
(* meet.  The properties about sessions and entries say what the program   *)
(* keeps until then.  One bound: a second kill does not come while the     *)
(* first one's dispose is still awaited.                                   *)
(***************************************************************************)
EXTENDS Naturals, FiniteSets

CONSTANTS
    MaxSessions,   \* sessions ever built for the agent
    Starts,        \* how it enters: "spawn" by the executor, "disk" by a scan
    Ends,          \* how its first run may end: "keep", "abort", "isolated"
    Kills,         \* whether an operator may kill it
    Failures       \* whether a revival may fail

ASSUME AgentAssumption ==
    /\ MaxSessions \in Nat \ {0}
    /\ Starts \subseteq {"spawn", "disk"} /\ Starts # {}
    /\ Ends \subseteq {"keep", "abort", "isolated"}
    /\ Kills \in BOOLEAN
    /\ Failures \in BOOLEAN

Session == 1..MaxSessions
Null == 0
Disposers == {"park", "release", "abort", "isolate", "late", "revive"}

VARIABLES
    ag,        \* registry entry and adoption: [st, s, adopted, timer]
    sess,      \* what became of each session
    turn,      \* the turn in flight in each session
    synced,    \* sessions whose agent_start/agent_end drive the status
    run,       \* the executor's first run: [pc, s]
    rev,       \* stage of the revival in flight: [pc, cold, s]
    by,        \* the session each disposer is awaiting, or Null
    kill,      \* the session a killer's abort() is awaiting, or Null
    home,      \* the directory its transcript records: "none" yet, "kept",
               \* the run's "worktree", or "gone" with it
    crossed    \* history: a kill met what a removal by id gets wrong, or the
               \* executor wound up a run whose entry a kill had replaced

vars == <<ag, sess, turn, synced, run, rev, by, kill, home, crossed>>

Absent == [st |-> "none", s |-> Null, adopted |-> FALSE, timer |-> FALSE]
Restored == [Absent EXCEPT !.st = "parked"]
NoRevival == [pc |-> "none", cold |-> FALSE, s |-> Null]

Init ==
    /\ \E start \in Starts :
         /\ ag = IF start = "disk" THEN Restored ELSE Absent
         /\ run = [pc |-> IF start = "disk" THEN "done" ELSE "spawn", s |-> Null]
    /\ sess = [s \in Session |-> "none"]
    /\ turn = [s \in Session |-> "no"]
    /\ synced = {}
    /\ rev = NoRevival
    /\ by = [d \in Disposers |-> Null]
    /\ kill = Null
    /\ home = IF run.pc = "done" THEN "kept" ELSE "none"
    /\ crossed = FALSE

-----------------------------------------------------------------------------
(* The registry's operations, each with the lifecycle manager's synchronous *)
(* reaction to the event it emits.                                          *)

Registered(a, st) == [a EXCEPT !.st = st, !.s = Null]

\* "status_changed": running disarms the idle timer, idle arms a fresh one.
StatusEvent(a) ==
    [a EXCEPT !.timer = a.st # "running" /\ (@ \/ (a.adopted /\ a.st = "idle"))]

SetStatus(a, st) ==
    IF a.st \in {"none", st} THEN a ELSE StatusEvent([a EXCEPT !.st = st])

Attach(a, s) == IF a.st = "none" THEN a ELSE [a EXCEPT !.s = s]

Detach(a) == [a EXCEPT !.s = Null]

\* "removed": the adoption goes with the entry; without an entry, nothing.
Unregister(a) == IF a.st = "none" THEN a ELSE Absent

Adopt(a) ==
    IF a.st = "none" THEN a ELSE [a EXCEPT !.adopted = TRUE, !.timer = TRUE]

Orphan(a) == [a EXCEPT !.adopted = FALSE, !.timer = FALSE]

IsParking == by["park"] # Null

\* Mutant: the wrapper ignores that the lifecycle manager is parking.
UnregisterUnlessStatusParked(a) == IF a.st = "parked" THEN a ELSE Unregister(a)

UnregisterUnlessParked(a) ==
    IF a.st = "parked" \/ IsParking THEN a ELSE Unregister(a)

\* dispose() marks the session at once and aborts its turn; the rest awaits.
BeginDispose(d, s) ==
    /\ by' = [by EXCEPT ![d] = s]
    /\ sess' = [sess EXCEPT ![s] = IF @ = "live" THEN "disposing" ELSE @]

Unused == {s \in Session : sess[s] = "none"}
Fresh == CHOOSE s \in Unused : \A u \in Unused : s <= u

-----------------------------------------------------------------------------
(* The executor's first run. *)

Spawn ==
    /\ run.pc = "spawn"
    /\ ag' = Registered(ag, "running")
    /\ run' = [run EXCEPT !.pc = "creating"]
    /\ UNCHANGED <<sess, turn, synced, rev, by, kill, home, crossed>>

SpawnFails ==
    /\ run.pc = "creating" /\ Failures
    /\ ag' = UnregisterUnlessParked(ag)
    /\ run' = [run EXCEPT !.pc = "done"]
    /\ UNCHANGED <<sess, turn, synced, rev, by, kill, home, crossed>>

Spawned ==
    /\ run.pc = "creating"
    /\ \E end \in Ends :
         /\ run' = [pc |-> end, s |-> Fresh]
         /\ home' = IF end = "isolated" THEN "worktree" ELSE "kept"
    /\ sess' = [sess EXCEPT ![Fresh] = "live"]
    /\ synced' = synced \cup {Fresh}
    /\ ag' = Attach(ag, Fresh)
    /\ UNCHANGED <<turn, rev, by, kill, crossed>>

\* The caller gave up during the startup: the run ends, and the session is
\* disposed when it comes.
Abandon ==
    /\ run.pc = "creating" /\ "abort" \in Ends
    /\ run' = [run EXCEPT !.pc = "abandoned"]
    /\ UNCHANGED <<ag, sess, turn, synced, rev, by, kill, home, crossed>>

Reap ==
    /\ run.pc = "abandoned"
    /\ run' = [run EXCEPT !.pc = "done"]
    /\ home' = "kept"
    /\ ag' = Attach(ag, Fresh)
    /\ sess' = [sess EXCEPT ![Fresh] = "disposing"]
    /\ by' = [by EXCEPT !["late"] = Fresh]
    /\ UNCHANGED <<turn, synced, rev, kill, crossed>>

\* By id too: after a kill the entry may be another incarnation's.
FinishKeep ==
    /\ run.pc = "keep" /\ turn[run.s] = "no"
    /\ ag' = Adopt(SetStatus(ag, "idle"))
    /\ run' = [run EXCEPT !.pc = "done"]
    /\ crossed' = (crossed \/ (ag.st # "none" /\ ag.s # run.s))
    /\ UNCHANGED <<sess, turn, synced, rev, by, kill, home>>

\* The caller gave up: abort() is not awaited, so the turn may still unwind.
FinishAbort ==
    /\ run.pc = "abort"
    /\ ag' = SetStatus(ag, "aborted")
    /\ BeginDispose("abort", run.s)
    /\ run' = [run EXCEPT !.pc = "done"]
    /\ UNCHANGED <<turn, synced, rev, kill, home, crossed>>

FinishIsolated ==
    /\ run.pc = "isolated" /\ turn[run.s] = "no"
    /\ ag' = SetStatus(ag, "parked")
    /\ BeginDispose("isolate", run.s)
    /\ run' = [run EXCEPT !.pc = "isolating"]
    /\ UNCHANGED <<turn, synced, rev, kill, home, crossed>>

\* The isolated run's worktree is merged and removed by the task tool.
RemoveWorktree ==
    /\ home = "worktree" /\ run.pc = "done"
    /\ home' = "gone"
    /\ UNCHANGED <<ag, sess, turn, synced, run, rev, by, kill, crossed>>

-----------------------------------------------------------------------------
(* Turns.  A prompt is accepted, does its preparation with the status still *)
(* what it was, and only then emits agent_start.                            *)

Prompt(s) ==
    /\ sess[s] = "live" /\ turn[s] = "no"
    /\ turn' = [turn EXCEPT ![s] = "prompted"]
    /\ UNCHANGED <<ag, sess, synced, run, rev, by, kill, home, crossed>>

\* An abort or a dispose during the preparation drops the prompt.
DropPrompt(s) ==
    /\ turn[s] = "prompted"
    /\ sess[s] = "disposing" \/ kill = s \/ (run.pc = "abort" /\ run.s = s)
    /\ turn' = [turn EXCEPT ![s] = "no"]
    /\ UNCHANGED <<ag, sess, synced, run, rev, by, kill, home, crossed>>

StartTurn(s) ==
    /\ turn[s] = "prompted"
    /\ IF s \in synced
         THEN /\ turn' = [turn EXCEPT ![s] = "announced"]
              /\ ag' = SetStatus(ag, "running")
         ELSE /\ turn' = [turn EXCEPT ![s] = "silent"]
              /\ UNCHANGED ag
    /\ UNCHANGED <<sess, synced, run, rev, by, kill, home, crossed>>

EndTurn(s) ==
    /\ turn[s] \in {"announced", "silent"}
    /\ turn' = [turn EXCEPT ![s] = "no"]
    /\ ag' = IF s \in synced THEN SetStatus(ag, "idle") ELSE ag
    /\ UNCHANGED <<sess, synced, run, rev, by, kill, home, crossed>>

-----------------------------------------------------------------------------
(* Parking, and the end of a dispose: the listeners go, the wrapper decides *)
(* by id whether to unregister, and whoever awaited it continues.           *)

\* Mutant: the entry is detached and parked before the session is closed.
ExpireDetachesFirst ==
    /\ ag.timer /\ ~IsParking /\ by["release"] = Null
    /\ IF ag.adopted /\ ag.s # Null
         THEN /\ ag' = SetStatus(Detach([ag EXCEPT !.timer = FALSE]), "parked")
              /\ BeginDispose("park", ag.s)
         ELSE /\ ag' = [ag EXCEPT !.timer = FALSE]
              /\ UNCHANGED <<by, sess>>
    /\ UNCHANGED <<turn, synced, run, rev, kill, home, crossed>>

\* Mutant: the timer lets a turn finish and trusts its end to arm it again.
ExpireSparesTurns ==
    /\ ag.timer /\ ~IsParking /\ by["release"] = Null
    /\ ag' = [ag EXCEPT !.timer = FALSE]
    /\ IF ag.adopted /\ ag.s # Null /\ turn[ag.s] = "no"
         THEN BeginDispose("park", ag.s)
         ELSE UNCHANGED <<by, sess>>
    /\ UNCHANGED <<turn, synced, run, rev, kill, home, crossed>>

Expire ==
    /\ ag.timer /\ ~IsParking /\ by["release"] = Null
    /\ ag' = [ag EXCEPT !.timer = FALSE]
    /\ IF ag.adopted /\ ag.s # Null
         THEN BeginDispose("park", ag.s)
         ELSE UNCHANGED <<by, sess>>
    /\ UNCHANGED <<turn, synced, run, rev, kill, home, crossed>>

\* Mutant: park leaves a status the registry does not know.
AfterDisposeClosed(d, a) ==
    IF d = "park" THEN SetStatus(Detach(a), "closed") ELSE Unregister(a)

AfterDispose(d, a) ==
    CASE d = "park"    -> SetStatus(Detach(a), "parked")
      [] d = "release" -> Unregister(a)
      [] d = "isolate" -> Detach(a)
      [] d = "revive" /\ rev.cold -> Orphan(a)
      [] OTHER         -> a

EndDispose(d) ==
    /\ by[d] # Null
    /\ sess' = [sess EXCEPT ![by[d]] = "disposed"]
    /\ turn' = [turn EXCEPT ![by[d]] = "no"]
    /\ synced' = synced \ {by[d]}
    /\ ag' = AfterDispose(d, UnregisterUnlessParked(ag))
    /\ by' = [by EXCEPT ![d] = Null]
    /\ run' = IF d = "isolate" THEN [run EXCEPT !.pc = "done"] ELSE run
    /\ rev' = IF d = "revive" THEN NoRevival ELSE rev
    /\ UNCHANGED <<kill, home, crossed>>

-----------------------------------------------------------------------------
(* Revival.  ensureLive on an entry with a session returns it and changes   *)
(* nothing; a second caller during a revival shares it.                     *)

EnsureLive ==
    /\ ag.st = "parked" /\ ag.s = Null /\ rev.pc = "none"
    /\ Unused # {}
    /\ rev' = [rev EXCEPT !.pc = IF ag.adopted THEN "open" ELSE "factory"]
    /\ UNCHANGED <<ag, sess, turn, synced, run, by, kill, home, crossed>>

\* The persisted factory refuses once the recorded directory is gone.
FactoryAccepts ==
    /\ rev.pc = "factory" /\ home # "gone"
    /\ ag' = [ag EXCEPT !.adopted = TRUE]
    /\ rev' = [rev EXCEPT !.pc = "open", !.cold = TRUE]
    /\ UNCHANGED <<sess, turn, synced, run, by, kill, home, crossed>>

\* The entry it looked up is no longer parked.  (Whether that is the entry
\* registered now is not kept: when they may differ, either happens.)
FactoryRefuses ==
    /\ rev.pc = "factory" /\ home # "gone"
    /\ ag.st \notin {"none", "parked"}
    /\ ag' = [ag EXCEPT !.adopted = TRUE]
    /\ rev' = NoRevival
    /\ UNCHANGED <<sess, turn, synced, run, by, kill, home, crossed>>

FactoryDeclines ==
    /\ rev.pc = "factory"
    /\ rev' = NoRevival
    /\ UNCHANGED <<ag, sess, turn, synced, run, by, kill, home, crossed>>

OpenFails ==
    /\ rev.pc = "open" /\ Failures
    /\ ag' = IF rev.cold THEN Orphan(ag) ELSE ag
    /\ rev' = NoRevival
    /\ UNCHANGED <<sess, turn, synced, run, by, kill, home, crossed>>

ReviveRegisters ==
    /\ rev.pc = "open"
    /\ ag' = Registered(ag, "running")
    /\ rev' = [rev EXCEPT !.pc = "registered"]
    /\ UNCHANGED <<sess, turn, synced, run, by, kill, home, crossed>>

\* Mutant: the failure forgets the entry registered before it.
CreateFailsRegistered ==
    /\ rev.pc = "registered" /\ Failures
    /\ ag' = IF rev.cold THEN Orphan(ag) ELSE ag
    /\ rev' = NoRevival
    /\ UNCHANGED <<sess, turn, synced, run, by, kill, home, crossed>>

CreateFails ==
    /\ rev.pc = "registered" /\ Failures
    /\ ag' = LET a == UnregisterUnlessParked(ag)
             IN  IF rev.cold THEN Orphan(a) ELSE a
    /\ rev' = NoRevival
    /\ UNCHANGED <<sess, turn, synced, run, by, kill, home, crossed>>

ReviveAttaches ==
    /\ rev.pc = "registered"
    /\ sess' = [sess EXCEPT ![Fresh] = "live"]
    /\ ag' = Attach(ag, Fresh)
    /\ rev' = [rev EXCEPT !.pc = "attached", !.s = Fresh]
    /\ UNCHANGED <<turn, synced, run, by, kill, home, crossed>>

\* Mutant: a late failure unregisters as an early one does, and no more.
StartupFailsUndisposed ==
    /\ rev.pc = "attached" /\ Failures
    /\ ag' = UnregisterUnlessParked(ag)
    /\ rev' = NoRevival
    /\ UNCHANGED <<sess, turn, synced, run, by, kill, home, crossed>>

\* A later startup step throws: the half-built session is disposed.
StartupFails ==
    /\ rev.pc = "attached" /\ Failures
    /\ BeginDispose("revive", rev.s)
    /\ rev' = [rev EXCEPT !.pc = "failing"]
    /\ UNCHANGED <<ag, turn, synced, run, kill, home, crossed>>

Revived ==
    /\ rev.pc = "attached"
    /\ ag' = SetStatus(Attach(ag, rev.s), "idle")
    /\ synced' = IF sess[rev.s] = "disposed" THEN synced ELSE synced \cup {rev.s}
    /\ rev' = NoRevival
    /\ UNCHANGED <<sess, turn, run, by, kill, home, crossed>>

-----------------------------------------------------------------------------
(* The operator: the hub, or a collaborating guest. *)

Release ==
    /\ by["release"] = Null
    /\ LET a == Orphan(ag)
       IN  IF a.s # Null
             THEN ag' = a /\ BeginDispose("release", a.s)
             ELSE ag' = Unregister(a) /\ UNCHANGED <<by, sess>>

\* What a removal by id gets wrong: a startup that has registered, a first run
\* whose executor closes the session itself, and another dispose.
Crossing ==
    \/ run.pc \notin {"keep", "done"}
    \/ rev.pc \in {"registered", "attached", "failing"}
    \/ \E d \in Disposers : by[d] # Null

KillAborts ==
    /\ Kills /\ kill = Null
    /\ ag.st = "running" /\ ag.s # Null
    /\ kill' = ag.s
    /\ UNCHANGED <<ag, sess, turn, synced, run, rev, by, home, crossed>>

KillReleases ==
    /\ Kills
    /\ \/ kill # Null /\ turn[kill] = "no"
       \/ kill = Null /\ ag.st # "none" /\ ~(ag.st = "running" /\ ag.s # Null)
    /\ kill' = Null
    /\ crossed' = (crossed \/ Crossing)
    /\ Release
    /\ UNCHANGED <<turn, synced, run, rev, home>>

\* The hub's scan lists a transcript nobody has registered as parked.
Rescan ==
    /\ ag.st = "none" /\ home # "none"
    /\ ag' = Registered(ag, "parked")
    /\ UNCHANGED <<sess, turn, synced, run, rev, by, kill, home, crossed>>

-----------------------------------------------------------------------------
Next ==
    \/ Spawn \/ SpawnFails \/ Spawned \/ Abandon \/ Reap
    \/ FinishKeep \/ FinishAbort \/ FinishIsolated
    \/ RemoveWorktree
    \/ \E s \in Session : Prompt(s) \/ DropPrompt(s) \/ StartTurn(s) \/ EndTurn(s)
    \/ Expire
    \/ \E d \in Disposers : EndDispose(d)
    \/ EnsureLive \/ FactoryAccepts \/ FactoryRefuses \/ FactoryDeclines
    \/ OpenFails \/ ReviveRegisters \/ CreateFails \/ ReviveAttaches
    \/ StartupFails \/ Revived
    \/ KillAborts \/ KillReleases
    \/ Rescan

Spec == Init /\ [][Next]_vars

(***************************************************************************)
(* Timers expire, awaited disposes and revivals return, and a turn that    *)
(* began ends.  Nobody has to prompt, to revive or to kill.                *)
(***************************************************************************)
FairSpec ==
    /\ Spec
    /\ WF_vars(Spawned) /\ WF_vars(Reap) /\ WF_vars(FinishKeep) /\ WF_vars(FinishAbort)
    /\ WF_vars(FinishIsolated) /\ WF_vars(Expire)
    /\ \A s \in Session : WF_vars(StartTurn(s)) /\ WF_vars(EndTurn(s))
    /\ \A d \in Disposers : WF_vars(EndDispose(d))
    /\ WF_vars(FactoryAccepts \/ FactoryDeclines) /\ WF_vars(ReviveRegisters)
    /\ WF_vars(ReviveAttaches) /\ WF_vars(Revived)
    /\ WF_vars(kill # Null /\ KillReleases)

-----------------------------------------------------------------------------
(* Properties. *)

(***************************************************************************)
(* The type of every variable.                                             *)
(***************************************************************************)
TypeOK ==
    /\ ag \in [st : {"none", "running", "idle", "parked", "aborted"},
               s : Session \cup {Null}, adopted : BOOLEAN, timer : BOOLEAN]
    /\ sess \in [Session -> {"none", "live", "disposing", "disposed"}]
    /\ turn \in [Session -> {"no", "prompted", "announced", "silent"}]
    /\ synced \subseteq Session
    /\ run \in [pc : {"spawn", "creating", "abandoned", "isolating", "done"} \cup Ends,
                s : Session \cup {Null}]
    /\ rev \in [pc : {"none", "factory", "open", "registered", "attached", "failing"},
                cold : BOOLEAN, s : Session \cup {Null}]
    /\ by \in [Disposers -> Session \cup {Null}]
    /\ kill \in Session \cup {Null}
    /\ home \in {"none", "kept", "worktree", "gone"}
    /\ crossed \in BOOLEAN

Writers == {s \in Session : sess[s] \in {"live", "disposing"}}

(***************************************************************************)
(* The agent's transcript has one writer: a revival builds its session     *)
(* only after the last one closed the file, whoever disposed that one, be  *)
(* it a park, the executor or a kill.  Kills are safe against a first run  *)
(* that stays, against turns, and against a revival that has not yet       *)
(* registered; one that crosses a startup or another dispose is not.       *)
(***************************************************************************)
OneWriter == ~crossed => Cardinality(Writers) <= 1

(***************************************************************************)
(* No session is lost: one that lives after the run and its revival have   *)
(* let go of it is the one the registry entry names, so that a park, a     *)
(* kill or a teardown still reaches it.  A kill that crosses a revival     *)
(* between its register and its attach loses the session.                  *)
(***************************************************************************)
NoOrphan ==
    ~crossed =>
        \A s \in Session :
            sess[s] = "live" => \/ ag.s = s
                                \/ rev.pc = "attached" /\ rev.s = s

(***************************************************************************)
(* Closing a session to park it keeps the agent addressable, although the  *)
(* session's own dispose wrapper unregisters agents: when the dispose of a *)
(* park or of an isolated run ends, the entry is there, parked, sessionless,*)
(* unless a kill crossed it.                                               *)
(***************************************************************************)
ParkKeepsEntry ==
    [][\A d \in {"park", "isolate"} :
           ~crossed /\ by[d] # Null /\ by'[d] = Null =>
               ag'.st = "parked" /\ ag'.s = Null]_vars

(***************************************************************************)
(* A release is final: once removed, the agent comes back only as a parked *)
(* transcript, through a scan.  (agent-lifecycle.ts, release: "Hard        *)
(* removal".)                                                              *)
(***************************************************************************)
ReleaseIsFinal ==
    [][ag.st = "none" /\ run.pc # "spawn" => ag'.st \in {"none", "parked"}]_vars

(***************************************************************************)
(* An idle adopted agent does not stay resident: it is given a turn or its *)
(* session is closed.  (A session that a crossing kill lost still drives   *)
(* the status of the entry that took its place, and may disarm its timer.) *)
(***************************************************************************)
IdleLeaves ==
    (ag.st = "idle" /\ ag.adopted /\ ag.s # Null) ~>
        (ag.st # "idle" \/ ag.s = Null \/ crossed)

(***************************************************************************)
(* A revival somebody waits for is settled, and leaves the agent idle with *)
(* a session, parked, or unregistered: never half registered, whenever an  *)
(* operator kills it.                                                      *)
(***************************************************************************)
RevivalSettles == (rev.pc # "none") ~> (rev.pc = "none" /\ ~(ag.st = "running" /\ ag.s = Null))

=============================================================================
