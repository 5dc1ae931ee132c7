----------------------------- MODULE AgentProofs -----------------------------
(***************************************************************************)
(* Proofs about AgentLifecycle, for any number of sessions, every way an   *)
(* agent enters and ends its first run, with and without failures, and an  *)
(* operator who kills it at any time or never.                             *)
(*                                                                         *)
(* The inductive invariant has two parts: what no kill can disturb (TInv), *)
(* and what holds until a kill crosses a startup or a dispose (Clean).     *)
(***************************************************************************)
EXTENDS AgentLifecycle, FiniteSetTheorems, WellFoundedInduction, TLAPS

\* No dispose is under way.
Quiet == \A d \in Disposers : by[d] = Null

-----------------------------------------------------------------------------
(* What holds whatever the operator does. *)

\* Only a session that may be writing has a turn or drives the status.
Active ==
    /\ \A s \in Session : turn[s] # "no" => s \in Writers
    /\ synced \subseteq Writers

\* Until the first run's session is there, nothing is.
Early ==
    run.pc \in {"spawn", "creating", "abandoned"} =>
        /\ home = "none" /\ rev.pc = "none" /\ Writers = {} /\ Unused # {} /\ Quiet
        /\ ag.st \in {"none", "running"} /\ ag.s = Null /\ ~ag.adopted /\ ~ag.timer
        /\ run.pc = "spawn" => ag.st = "none"

\* Whoever holds a session holds one that was built, and one is left for the
\* revival that has yet to build its own.
Built ==
    /\ ag.s # Null => sess[ag.s] # "none"
    /\ run.pc \in {"keep", "abort", "isolated"} => run.s \in Session /\ sess[run.s] # "none"
    /\ rev.pc \in {"attached", "failing"} => rev.s \in Session /\ sess[rev.s] # "none"
    /\ \A d \in Disposers : by[d] # Null => sess[by[d]] # "none"
    /\ rev.pc \in {"factory", "open", "registered"} => Unused # {}

TInv == TypeOK /\ Active /\ Early /\ Built

-----------------------------------------------------------------------------
(* What holds until a kill crosses a startup or a dispose. *)

\* The session that may be writing: the one a revival is building, else the
\* one the entry names.
Writer == IF rev.pc \in {"attached", "failing"} THEN rev.s ELSE ag.s

Sole == Writers \subseteq {Writer}

\* An agent without an entry has no session and no timer, although a revival
\* may just have adopted it.
Entry == ag.st = "none" => ag.s = Null /\ ~ag.timer

\* The entry is there from the first run's startup.
Starting == run.pc \in {"creating", "abandoned"} => ag.st = "running"

\* The first run goes on with the session the entry names, at most a kill
\* closing it.
Present ==
    /\ ag.s = run.s /\ ag.st # "none" /\ rev.pc = "none" /\ ~ag.adopted /\ ~ag.timer
    /\ \A d \in Disposers \ {"release"} : by[d] = Null
    /\ by["release"] \in {Null, run.s}
    /\ by["release"] = Null => sess[run.s] = "live"

\* Or a kill is over, and the executor has not noticed.
Killed ==
    /\ sess[run.s] = "disposed" /\ ag.s # run.s
    /\ rev.pc \in {"attached", "failing"} => rev.s # run.s

FirstRun ==
    /\ run.pc \in {"abort", "isolated"} => Present /\ by["release"] = Null
    /\ run.pc = "keep" => Present \/ Killed

\* A revival has no company until its session is there.
Revival ==
    /\ rev.pc # "none" => run.pc \in {"keep", "done"}
    /\ rev.pc \in {"factory", "open", "registered"} => Writers = {} /\ Quiet /\ ag.s = Null
    /\ rev.pc \in {"factory", "open"} => ag.st \in {"none", "parked"}
    /\ rev.pc \in {"registered", "attached"} => ag.st # "none"
    /\ rev.pc \in {"attached", "failing"} => ag.s \in {rev.s, Null}
    /\ by["revive"] = IF rev.pc = "failing" THEN rev.s ELSE Null

\* A dispose is of the one session that may still be writing.
OfWriter ==
    \A d \in Disposers :
        by[d] # Null => sess[by[d]] \in {"disposing", "disposed"} /\ Writers \subseteq {by[d]}

\* The disposes that end an agent's membership find the entry on their session
\* and nobody else at work on the agent; the executor's find it unadopted.
Alone ==
    /\ \A d \in {"release", "abort", "isolate", "late"} :
           by[d] # Null => /\ ag.s = by[d] /\ rev.pc = "none"
                           /\ \A e \in Disposers \ {d} : by[e] = Null
    /\ \A d \in {"abort", "isolate", "late"} : by[d] # Null => ~ag.adopted /\ ~ag.timer

\* A park's session is the entry's until the park ends; only the revival that
\* built it, or its failure, may still hold it too.
Parking ==
    by["park"] # Null =>
        /\ ag.s = by["park"] /\ ag.st # "none" /\ run.pc \in {"keep", "done"}
        /\ rev.pc \in {"attached", "failing"} => rev.s = by["park"]

\* An isolated run's entry is parked before its session is closed.
Isolating ==
    /\ by["isolate"] # Null => ag.st = "parked" /\ turn[by["isolate"]] = "no"
    /\ run.pc = "isolating" <=> by["isolate"] # Null

Clean ==
    /\ Sole /\ Entry /\ Starting /\ FirstRun /\ Revival
    /\ OfWriter /\ Alone /\ Parking /\ Isolating

IInv == TInv /\ (~crossed => Clean)

-----------------------------------------------------------------------------
(* Facts about the operators. *)

\* A session number that was never used can be taken while there is one.
LEMMA FreshFacts ==
    ASSUME Unused # {}
    PROVE  Fresh \in Unused
<1> DEFINE R == OpToRel(<, Nat)
<1>1. IsWellFoundedOn(R, Nat)
    BY NatLessThanWellFounded
<1>2. Unused \subseteq Nat
    BY AgentAssumption DEF Unused, Session
<1>3. PICK m \in Unused : \A u \in Unused : ~ (<<u, m>> \in R)
    <2> HIDE DEF R
    <2> QED
        BY <1>1, <1>2, WFMin, Zenon
<1>4. \A u \in Unused : m <= u
    <2> SUFFICES ASSUME NEW u \in Unused
                 PROVE  m <= u
        OBVIOUS
    <2>1. ~ (<<u, m>> \in R)
        BY <1>3
    <2>2. ~ (u < m)
        BY <1>2, <2>1 DEF OpToRel
    <2> QED
        BY <1>2, <2>2
<1> QED
    BY <1>4 DEF Fresh

\* What a registry entry with its adoption may be.
AgentState ==
    [st : {"none", "running", "idle", "parked", "aborted"},
     s : Session \cup {Null}, adopted : BOOLEAN, timer : BOOLEAN]

\* No session is the null one.
LEMMA Basics == Null \notin Session
    BY AgentAssumption DEF Null, Session

\* What a change of status leaves as it was.
Kept(a, b) ==
    /\ b \in AgentState /\ b.s = a.s /\ b.adopted = a.adopted
    /\ a.st = "none" => b = a
    /\ a.st # "none" => b.st # "none"
    /\ ~a.adopted /\ ~a.timer => ~b.timer

\* A change of status never touches the session or the adoption, and only an
\* adopted agent's timer is armed by it.
LEMMA SetStatusFacts ==
    ASSUME NEW a \in AgentState, NEW st \in {"running", "idle", "parked", "aborted"}
    PROVE  /\ Kept(a, SetStatus(a, st))
           /\ a.st # "none" => SetStatus(a, st).st = st
    BY DEF AgentState, SetStatus, StatusEvent, Kept

-----------------------------------------------------------------------------
(* What no kill disturbs: one lemma per action. *)

LEMMA SpawnTypes ==
    ASSUME TInv, Spawn
    PROVE  TInv'
<1>1. TypeOK'
    BY DEF TInv, Spawn, Registered, TypeOK
<1>2. Active'
    BY DEF TInv, Spawn, Registered, TypeOK, Active, Writers
<1>3. Early'
    BY DEF TInv, Spawn, Registered, Early, Writers, Unused, Quiet
<1>4. Built'
    BY DEF TInv, Spawn, Registered, TypeOK, Built, Unused
<1> QED
    BY <1>1, <1>2, <1>3, <1>4 DEF TInv

LEMMA SpawnFailsTypes ==
    ASSUME TInv, SpawnFails
    PROVE  TInv'
<1>1. TypeOK'
    BY DEF TInv, SpawnFails, UnregisterUnlessParked, Unregister, Absent, TypeOK
<1>2. Active'
    BY DEF TInv, SpawnFails, UnregisterUnlessParked, Unregister, Absent, TypeOK, Active, Writers
<1>3. Early'
    BY DEF TInv, SpawnFails, UnregisterUnlessParked, Unregister, Absent, Early, Writers,
       Unused, Quiet
<1>4. Built'
    BY DEF TInv, SpawnFails, UnregisterUnlessParked, Unregister, Absent, TypeOK, Built, Unused
<1> QED
    BY <1>1, <1>2, <1>3, <1>4 DEF TInv

LEMMA SpawnedTypes ==
    ASSUME TInv, Spawned
    PROVE  TInv'
<1>1. TypeOK'
    BY FreshFacts DEF TInv, Spawned, Attach, Early, Unused, Built, TypeOK
<1>2. Active'
    BY FreshFacts DEF TInv, Spawned, Attach, Early, Unused, Built, TypeOK, Active, Writers
<1>3. Early'
    BY AgentAssumption DEF Spawned, Early
<1>4. Built'
    BY FreshFacts DEF TInv, Spawned, Attach, Early, Unused, Built, TypeOK
<1> QED
    BY <1>1, <1>2, <1>3, <1>4 DEF TInv

LEMMA AbandonTypes ==
    ASSUME TInv, Abandon
    PROVE  TInv'
<1>1. TypeOK'
    BY DEF TInv, Abandon, TypeOK
<1>2. Active'
    BY DEF TInv, Abandon, TypeOK, Active, Writers
<1>3. Early'
    BY DEF TInv, Abandon, Early, Writers, Unused, Quiet
<1>4. Built'
    BY DEF TInv, Abandon, TypeOK, Built, Unused
<1> QED
    BY <1>1, <1>2, <1>3, <1>4 DEF TInv

LEMMA ReapTypes ==
    ASSUME TInv, Reap
    PROVE  TInv'
<1>1. TypeOK'
    BY FreshFacts DEF TInv, Reap, Attach, Early, Unused, Built, TypeOK
<1>2. Active'
    BY FreshFacts DEF TInv, Reap, Attach, Early, Unused, Built, TypeOK, Active, Writers
<1>3. Early'
    BY DEF TInv, Reap, Attach, Early, Writers, Unused, Quiet
<1>4. Built'
    BY FreshFacts DEF TInv, Reap, Attach, Early, Unused, Built, TypeOK
<1> QED
    BY <1>1, <1>2, <1>3, <1>4 DEF TInv

LEMMA FinishKeepTypes ==
    ASSUME TInv, FinishKeep
    PROVE  TInv'
<1>a. /\ ag \in AgentState /\ ag' \in AgentState /\ ag'.s = ag.s
      /\ UNCHANGED <<sess, turn, synced, rev, by, kill, home>> /\ run' = [run EXCEPT !.pc = "done"]
      /\ crossed' \in BOOLEAN
    <2>1. ag \in AgentState /\ crossed \in BOOLEAN
        BY DEF TInv, TypeOK, AgentState
    <2>2. Kept(ag, SetStatus(ag, "idle"))
        BY <2>1, SetStatusFacts
    <2> QED
        BY <2>1, <2>2 DEF FinishKeep, Adopt, Kept, AgentState
<1>1. TypeOK'
    BY <1>a DEF TInv, TypeOK, AgentState
<1>2. Active'
    BY DEF TInv, FinishKeep, TypeOK, Active, Writers
<1>3. Early'
    BY DEF TInv, FinishKeep, Early, Writers, Unused, Quiet
<1>4. Built'
    BY <1>a DEF TInv, TypeOK, Built, Unused
<1> QED
    BY <1>1, <1>2, <1>3, <1>4 DEF TInv

LEMMA FinishAbortTypes ==
    ASSUME TInv, FinishAbort
    PROVE  TInv'
<1>a. ag' \in AgentState /\ ag'.s = ag.s /\ run.s \in Session /\ sess[run.s] # "none"
    <2>1. ag \in AgentState
        BY DEF TInv, TypeOK, AgentState
    <2> QED
        BY <2>1, SetStatusFacts DEF TInv, Built, FinishAbort, Kept
<1>1. TypeOK'
    BY <1>a DEF TInv, FinishAbort, BeginDispose, TypeOK, AgentState, Disposers
<1>2. Active'
    BY DEF TInv, FinishAbort, BeginDispose, TypeOK, Active, Writers
<1>3. Early'
    BY DEF TInv, FinishAbort, BeginDispose, Early, Writers, Unused, Quiet
<1>4. Built'
    BY <1>a DEF TInv, FinishAbort, BeginDispose, TypeOK, Built, Unused, Disposers
<1> QED
    BY <1>1, <1>2, <1>3, <1>4 DEF TInv

LEMMA FinishIsolatedTypes ==
    ASSUME TInv, FinishIsolated
    PROVE  TInv'
<1>a. ag' \in AgentState /\ ag'.s = ag.s /\ run.s \in Session /\ sess[run.s] # "none"
    <2>1. ag \in AgentState
        BY DEF TInv, TypeOK, AgentState
    <2> QED
        BY <2>1, SetStatusFacts DEF TInv, Built, FinishIsolated, Kept
<1>1. TypeOK'
    BY <1>a DEF TInv, FinishIsolated, BeginDispose, TypeOK, AgentState, Disposers
<1>2. Active'
    BY DEF TInv, FinishIsolated, BeginDispose, TypeOK, Active, Writers
<1>3. Early'
    BY DEF TInv, FinishIsolated, BeginDispose, Early, Writers, Unused, Quiet
<1>4. Built'
    BY <1>a DEF TInv, FinishIsolated, BeginDispose, TypeOK, Built, Unused, Disposers
<1> QED
    BY <1>1, <1>2, <1>3, <1>4 DEF TInv

LEMMA RemoveWorktreeTypes ==
    ASSUME TInv, RemoveWorktree
    PROVE  TInv'
<1>1. TypeOK'
    BY DEF TInv, RemoveWorktree, TypeOK
<1>2. Active'
    BY DEF TInv, RemoveWorktree, TypeOK, Active, Writers
<1>3. Early'
    BY DEF TInv, RemoveWorktree, Early, Writers, Unused, Quiet
<1>4. Built'
    BY DEF TInv, RemoveWorktree, TypeOK, Built, Unused
<1> QED
    BY <1>1, <1>2, <1>3, <1>4 DEF TInv

LEMMA PromptTypes ==
    ASSUME TInv, NEW s \in Session, Prompt(s)
    PROVE  TInv'
<1>1. TypeOK'
    BY DEF TInv, Prompt, TypeOK
<1>2. Active'
    BY DEF TInv, Prompt, TypeOK, Active, Writers
<1>3. Early'
    BY DEF TInv, Prompt, Early, Writers, Unused, Quiet
<1>4. Built'
    BY DEF TInv, Prompt, TypeOK, Built, Unused
<1> QED
    BY <1>1, <1>2, <1>3, <1>4 DEF TInv

LEMMA DropPromptTypes ==
    ASSUME TInv, NEW s \in Session, DropPrompt(s)
    PROVE  TInv'
<1>1. TypeOK'
    BY DEF TInv, DropPrompt, TypeOK
<1>2. Active'
    BY DEF TInv, DropPrompt, TypeOK, Active, Writers
<1>3. Early'
    BY DEF TInv, DropPrompt, Early, Writers, Unused, Quiet
<1>4. Built'
    BY DEF TInv, DropPrompt, TypeOK, Built, Unused
<1> QED
    BY <1>1, <1>2, <1>3, <1>4 DEF TInv

LEMMA StartTurnTypes ==
    ASSUME TInv, NEW s \in Session, StartTurn(s)
    PROVE  TInv'
<1>a. /\ ag' \in AgentState /\ ag'.s = ag.s /\ s \in Writers
      /\ turn' \in [Session -> {"no", "prompted", "announced", "silent"}]
    <2>1. ag \in AgentState /\ s \in Writers
        BY DEF TInv, TypeOK, Active, StartTurn, AgentState
    <2>2. turn' \in [Session -> {"no", "prompted", "announced", "silent"}]
        BY DEF TInv, TypeOK, StartTurn
    <2> QED
        BY <2>1, <2>2, SetStatusFacts DEF StartTurn, Kept
<1>b. UNCHANGED <<sess, synced, run, rev, by, kill, home, crossed>>
    BY DEF StartTurn
<1>1. TypeOK'
    BY <1>a, <1>b DEF TInv, TypeOK, AgentState
<1>2. Active'
    BY DEF TInv, StartTurn, TypeOK, Active, Writers
<1>3. Early'
    BY <1>a, <1>b DEF TInv, Early
<1>4. Built'
    BY <1>a, <1>b DEF TInv, Built, Unused
<1> QED
    BY <1>1, <1>2, <1>3, <1>4 DEF TInv

LEMMA EndTurnTypes ==
    ASSUME TInv, NEW s \in Session, EndTurn(s)
    PROVE  TInv'
<1>a. /\ ag' \in AgentState /\ ag'.s = ag.s /\ s \in Writers
      /\ turn' \in [Session -> {"no", "prompted", "announced", "silent"}]
    <2>1. ag \in AgentState /\ s \in Writers
        BY DEF TInv, TypeOK, Active, EndTurn, AgentState
    <2>2. turn' \in [Session -> {"no", "prompted", "announced", "silent"}]
        BY DEF TInv, TypeOK, EndTurn
    <2> QED
        BY <2>1, <2>2, SetStatusFacts DEF EndTurn, Kept
<1>b. UNCHANGED <<sess, synced, run, rev, by, kill, home, crossed>>
    BY DEF EndTurn
<1>1. TypeOK'
    BY <1>a, <1>b DEF TInv, TypeOK, AgentState
<1>2. Active'
    BY DEF TInv, EndTurn, TypeOK, Active, Writers
<1>3. Early'
    BY <1>a, <1>b DEF TInv, Early
<1>4. Built'
    BY <1>a, <1>b DEF TInv, Built, Unused
<1> QED
    BY <1>1, <1>2, <1>3, <1>4 DEF TInv

LEMMA ExpireTypes ==
    ASSUME TInv, Expire
    PROVE  TInv'
<1>1. TypeOK'
    <2>1. ag' \in AgentState
        BY DEF TInv, TypeOK, AgentState, Expire
    <2>2. sess' \in [Session -> {"none", "live", "disposing", "disposed"}]
          /\ by' \in [Disposers -> Session \cup {Null}]
        BY DEF TInv, TypeOK, Expire, BeginDispose
    <2> QED
        BY <2>1, <2>2 DEF TInv, TypeOK, AgentState, Expire
<1>2. Active'
    BY DEF TInv, Expire, BeginDispose, TypeOK, Active, Writers
<1>3. Early'
    BY DEF TInv, Expire, BeginDispose, Early, Writers, Unused, Quiet
<1>4. Built'
    BY DEF TInv, Expire, BeginDispose, TypeOK, Built, Unused
<1> QED
    BY <1>1, <1>2, <1>3, <1>4 DEF TInv

LEMMA EndDisposeTypes ==
    ASSUME TInv, NEW d \in Disposers, EndDispose(d)
    PROVE  TInv'
<1>a. by[d] \in Session /\ sess[by[d]] # "none"
    BY DEF TInv, TypeOK, Built, EndDispose
<1>b. ag' \in AgentState /\ ag'.s \in {ag.s, Null}
    <2> DEFINE b == UnregisterUnlessParked(ag)
    <2>1. ag' = AfterDispose(d, b)
        BY DEF EndDispose
    <2>2. Absent \in AgentState /\ Absent.s = Null
        BY DEF Absent, AgentState
    <2>3. b \in AgentState /\ b.s \in {ag.s, Null}
        BY <2>2 DEF TInv, TypeOK, AgentState, UnregisterUnlessParked, Unregister
    <2> HIDE DEF b
    <2>4. Detach(b) \in AgentState /\ Detach(b).s = Null
        BY <2>3 DEF Detach, AgentState
    <2>5. Orphan(b) \in AgentState /\ Orphan(b).s = b.s
        BY <2>3 DEF Orphan, AgentState
    <2>6. Unregister(b) \in {b, Absent}
        BY DEF Unregister
    <2>7. Kept(Detach(b), SetStatus(Detach(b), "parked"))
        BY <2>4, SetStatusFacts
    <2>8. ag' \in {SetStatus(Detach(b), "parked"), Unregister(b), Detach(b), Orphan(b), b}
        BY <2>1 DEF AfterDispose, Disposers
    <2> QED
        BY <2>2, <2>3, <2>4, <2>5, <2>6, <2>7, <2>8 DEF Kept
<1>1. TypeOK'
    <2>1. /\ sess' \in [Session -> {"none", "live", "disposing", "disposed"}]
          /\ turn' \in [Session -> {"no", "prompted", "announced", "silent"}]
          /\ by' \in [Disposers -> Session \cup {Null}]
        BY DEF TInv, TypeOK, EndDispose
    <2> QED
        BY <1>b, <2>1 DEF TInv, TypeOK, EndDispose, AgentState, NoRevival
<1>2. Active'
    BY DEF TInv, EndDispose, TypeOK, Active, Writers
<1>3. Early'
    BY DEF TInv, EndDispose, Early, Writers, Unused, Quiet
<1>4. Built'
    <2>1. Unused' = Unused
        BY <1>a DEF TInv, TypeOK, EndDispose, Unused
    <2> QED
        BY <1>a, <1>b, <2>1 DEF TInv, TypeOK, EndDispose, Built, NoRevival
<1> QED
    BY <1>1, <1>2, <1>3, <1>4 DEF TInv

LEMMA EnsureLiveTypes ==
    ASSUME TInv, EnsureLive
    PROVE  TInv'
<1>1. TypeOK'
    BY DEF TInv, EnsureLive, TypeOK
<1>2. Active'
    BY DEF TInv, EnsureLive, TypeOK, Active, Writers
<1>3. Early'
    BY DEF TInv, EnsureLive, Early, Writers, Unused, Quiet
<1>4. Built'
    BY DEF TInv, EnsureLive, TypeOK, Built, Unused
<1> QED
    BY <1>1, <1>2, <1>3, <1>4 DEF TInv

LEMMA FactoryAcceptsTypes ==
    ASSUME TInv, FactoryAccepts
    PROVE  TInv'
<1>1. TypeOK'
    BY DEF TInv, FactoryAccepts, TypeOK
<1>2. Active'
    BY DEF TInv, FactoryAccepts, TypeOK, Active, Writers
<1>3. Early'
    BY DEF TInv, FactoryAccepts, Early, Writers, Unused, Quiet
<1>4. Built'
    BY DEF TInv, FactoryAccepts, TypeOK, Built, Unused
<1> QED
    BY <1>1, <1>2, <1>3, <1>4 DEF TInv

LEMMA FactoryRefusesTypes ==
    ASSUME TInv, FactoryRefuses
    PROVE  TInv'
<1>1. TypeOK'
    BY DEF TInv, FactoryRefuses, NoRevival, TypeOK
<1>2. Active'
    BY DEF TInv, FactoryRefuses, NoRevival, TypeOK, Active, Writers
<1>3. Early'
    BY DEF TInv, FactoryRefuses, NoRevival, Early, Writers, Unused, Quiet
<1>4. Built'
    BY DEF TInv, FactoryRefuses, NoRevival, TypeOK, Built, Unused
<1> QED
    BY <1>1, <1>2, <1>3, <1>4 DEF TInv

LEMMA FactoryDeclinesTypes ==
    ASSUME TInv, FactoryDeclines
    PROVE  TInv'
<1>1. TypeOK'
    BY DEF TInv, FactoryDeclines, NoRevival, TypeOK
<1>2. Active'
    BY DEF TInv, FactoryDeclines, NoRevival, TypeOK, Active, Writers
<1>3. Early'
    BY DEF TInv, FactoryDeclines, NoRevival, Early, Writers, Unused, Quiet
<1>4. Built'
    BY DEF TInv, FactoryDeclines, NoRevival, TypeOK, Built, Unused
<1> QED
    BY <1>1, <1>2, <1>3, <1>4 DEF TInv

LEMMA OpenFailsTypes ==
    ASSUME TInv, OpenFails
    PROVE  TInv'
<1>1. TypeOK'
    BY DEF TInv, OpenFails, NoRevival, Orphan, TypeOK
<1>2. Active'
    BY DEF TInv, OpenFails, NoRevival, Orphan, TypeOK, Active, Writers
<1>3. Early'
    BY DEF TInv, OpenFails, NoRevival, Orphan, Early, Writers, Unused, Quiet
<1>4. Built'
    BY DEF TInv, OpenFails, NoRevival, Orphan, TypeOK, Built, Unused
<1> QED
    BY <1>1, <1>2, <1>3, <1>4 DEF TInv

LEMMA ReviveRegistersTypes ==
    ASSUME TInv, ReviveRegisters
    PROVE  TInv'
<1>1. TypeOK'
    BY DEF TInv, ReviveRegisters, Registered, TypeOK
<1>2. Active'
    BY DEF TInv, ReviveRegisters, Registered, TypeOK, Active, Writers
<1>3. Early'
    BY DEF TInv, ReviveRegisters, Registered, Early, Writers, Unused, Quiet
<1>4. Built'
    BY DEF TInv, ReviveRegisters, Registered, TypeOK, Built, Unused
<1> QED
    BY <1>1, <1>2, <1>3, <1>4 DEF TInv

LEMMA CreateFailsTypes ==
    ASSUME TInv, CreateFails
    PROVE  TInv'
<1>a. ag' \in AgentState /\ ag'.s \in {ag.s, Null}
    <2> DEFINE b == UnregisterUnlessParked(ag)
    <2>1. Absent \in AgentState /\ Absent.s = Null
        BY DEF Absent, AgentState
    <2>2. b \in AgentState /\ b.s \in {ag.s, Null}
        BY <2>1 DEF TInv, TypeOK, AgentState, UnregisterUnlessParked, Unregister
    <2> HIDE DEF b
    <2>3. Orphan(b) \in AgentState /\ Orphan(b).s = b.s
        BY <2>2 DEF Orphan, AgentState
    <2>4. ag' \in {b, Orphan(b)}
        BY DEF CreateFails, b
    <2> QED
        BY <2>2, <2>3, <2>4
<1>1. TypeOK'
    BY <1>a DEF TInv, CreateFails, NoRevival, TypeOK, AgentState
<1>2. Active'
    BY DEF TInv, CreateFails, NoRevival, Orphan, UnregisterUnlessParked, Unregister, Absent,
       TypeOK, Active, Writers
<1>3. Early'
    BY DEF TInv, CreateFails, NoRevival, Orphan, UnregisterUnlessParked, Unregister, Absent,
       Early, Writers, Unused, Quiet
<1>4. Built'
    BY <1>a DEF TInv, CreateFails, NoRevival, Built, Unused
<1> QED
    BY <1>1, <1>2, <1>3, <1>4 DEF TInv

LEMMA ReviveAttachesTypes ==
    ASSUME TInv, ReviveAttaches
    PROVE  TInv'
<1>1. TypeOK'
    <2>1. Fresh \in Session
        BY FreshFacts DEF TInv, ReviveAttaches, Built, Unused
    <2>2. ag' \in AgentState
        BY <2>1 DEF TInv, TypeOK, ReviveAttaches, Attach, AgentState
    <2> QED
        BY <2>1, <2>2 DEF TInv, ReviveAttaches, TypeOK, AgentState
<1>2. Active'
    BY FreshFacts DEF TInv, ReviveAttaches, Attach, Early, Unused, Built, TypeOK, Active,
       Writers
<1>3. Early'
    BY DEF TInv, ReviveAttaches, Attach, Early, Writers, Unused, Quiet
<1>4. Built'
    BY FreshFacts DEF TInv, ReviveAttaches, Attach, Early, Unused, Built, TypeOK
<1> QED
    BY <1>1, <1>2, <1>3, <1>4 DEF TInv

LEMMA StartupFailsTypes ==
    ASSUME TInv, StartupFails
    PROVE  TInv'
<1>1. TypeOK'
    <2>1. rev.s \in Session
        BY DEF TInv, Built, StartupFails
    <2>2. by' \in [Disposers -> Session \cup {Null}]
          /\ sess' \in [Session -> {"none", "live", "disposing", "disposed"}]
        BY <2>1 DEF TInv, TypeOK, StartupFails, BeginDispose
    <2> QED
        BY <2>2 DEF TInv, TypeOK, StartupFails
<1>2. Active'
    BY DEF TInv, StartupFails, BeginDispose, TypeOK, Active, Writers
<1>3. Early'
    BY DEF TInv, StartupFails, BeginDispose, Early, Writers, Unused, Quiet
<1>4. Built'
    BY DEF TInv, StartupFails, BeginDispose, TypeOK, Built, Unused
<1> QED
    BY <1>1, <1>2, <1>3, <1>4 DEF TInv

LEMMA RevivedTypes ==
    ASSUME TInv, Revived
    PROVE  TInv'
<1>a. rev.s \in Session /\ sess[rev.s] # "none"
    BY DEF TInv, Built, Revived
<1>b. ag' \in AgentState /\ ag'.s \in {ag.s, rev.s}
    <2>1. Attach(ag, rev.s) \in AgentState /\ Attach(ag, rev.s).s \in {ag.s, rev.s}
        BY <1>a DEF TInv, TypeOK, AgentState, Attach
    <2> HIDE DEF Attach
    <2> QED
        BY <2>1, SetStatusFacts DEF Revived, Kept
<1>c. /\ rev' = NoRevival /\ UNCHANGED <<sess, turn, run, by, kill, home, crossed>>
      /\ synced' = IF sess[rev.s] = "disposed" THEN synced ELSE synced \cup {rev.s}
    BY DEF Revived
<1>1. TypeOK'
    BY <1>a, <1>b, <1>c DEF TInv, TypeOK, AgentState, NoRevival
<1>2. Active'
    BY <1>a, <1>c DEF TInv, TypeOK, Active, Writers
<1>3. Early'
    BY DEF TInv, Revived, NoRevival, Early, Writers, Unused, Quiet
<1>4. Built'
    BY <1>a, <1>b, <1>c DEF TInv, TypeOK, Built, Unused, NoRevival
<1> QED
    BY <1>1, <1>2, <1>3, <1>4 DEF TInv

LEMMA KillAbortsTypes ==
    ASSUME TInv, KillAborts
    PROVE  TInv'
<1>1. TypeOK'
    BY DEF TInv, KillAborts, TypeOK
<1>2. Active'
    BY DEF TInv, KillAborts, TypeOK, Active, Writers
<1>3. Early'
    BY DEF TInv, KillAborts, Early, Writers, Unused, Quiet
<1>4. Built'
    BY DEF TInv, KillAborts, TypeOK, Built, Unused
<1> QED
    BY <1>1, <1>2, <1>3, <1>4 DEF TInv

LEMMA KillReleasesTypes ==
    ASSUME TInv, KillReleases
    PROVE  TInv'
<1>a. /\ ag' \in AgentState /\ ag'.s = ag.s
      /\ run.pc \in {"spawn", "creating", "abandoned"} =>
             ag'.st = "none" /\ ~ag'.adopted /\ ~ag'.timer
    <2>1. /\ Orphan(ag) \in AgentState /\ Orphan(ag).s = ag.s /\ Orphan(ag).st = ag.st
          /\ Orphan(ag).adopted = FALSE /\ Orphan(ag).timer = FALSE
        BY DEF TInv, TypeOK, Orphan, AgentState
    <2>2. /\ Absent \in AgentState /\ Absent.s = Null /\ Absent.st = "none"
          /\ ~Absent.adopted /\ ~Absent.timer
        BY DEF Absent, AgentState
    <2> HIDE DEF Orphan, Absent
    <2>3. /\ ag.s # Null => ag' = Orphan(ag)
          /\ ag.s = Null => ag' = IF ag.st = "none" THEN Orphan(ag) ELSE Absent
        BY <2>1 DEF KillReleases, Release, Unregister
    <2> QED
        BY <2>1, <2>2, <2>3 DEF TInv, Early
<1>b. /\ ag.s # Null => /\ by' = [by EXCEPT !["release"] = ag.s]
                        /\ sess' = [sess EXCEPT ![ag.s] = IF @ = "live" THEN "disposing" ELSE @]
      /\ ag.s = Null => UNCHANGED <<by, sess>>
    BY DEF TInv, TypeOK, KillReleases, Release, BeginDispose, Orphan
<1>c. ag.s # Null => ag.s \in Session /\ sess[ag.s] # "none"
    BY DEF TInv, TypeOK, Built
<1>d. UNCHANGED <<turn, synced, run, rev, home>> /\ kill' = Null /\ crossed' \in BOOLEAN
    BY DEF TInv, TypeOK, KillReleases
<1>1. TypeOK'
    <2>1. by' \in [Disposers -> Session \cup {Null}]
          /\ sess' \in [Session -> {"none", "live", "disposing", "disposed"}]
        BY <1>b, <1>c DEF TInv, TypeOK
    <2> QED
        BY <1>a, <1>d, <2>1 DEF TInv, TypeOK, AgentState
<1>2. Active'
    BY <1>b, <1>c, <1>d DEF TInv, TypeOK, Active, Writers
<1>3. Early'
    BY <1>a, <1>b, <1>d DEF TInv, Early, Writers, Unused, Quiet
<1>4. Built'
    <2>1. Unused' = Unused
        BY <1>b, <1>c DEF TInv, TypeOK, Unused
    <2> QED
        BY <1>a, <1>b, <1>c, <1>d, <2>1 DEF TInv, TypeOK, Built
<1> QED
    BY <1>1, <1>2, <1>3, <1>4 DEF TInv

LEMMA RescanTypes ==
    ASSUME TInv, Rescan
    PROVE  TInv'
<1>1. TypeOK'
    <2>1. ag' \in AgentState
        BY DEF TInv, TypeOK, Rescan, Registered, AgentState
    <2> QED
        BY <2>1 DEF TInv, TypeOK, Rescan, AgentState
<1>2. Active'
    BY DEF TInv, Rescan, Registered, TypeOK, Active, Writers
<1>3. Early'
    BY DEF TInv, Rescan, Registered, Early, Writers, Unused, Quiet
<1>4. Built'
    BY DEF TInv, Rescan, Registered, TypeOK, Built, Unused
<1> QED
    BY <1>1, <1>2, <1>3, <1>4 DEF TInv

-----------------------------------------------------------------------------
(* What holds until a kill crosses something: one lemma per action, one step *)
(* per conjunct.                                                            *)

LEMMA SpawnStep ==
    ASSUME TInv, Clean, Spawn
    PROVE  Clean'
<1>1. Sole'
    BY DEF TInv, Early, Spawn, Sole, Writers
<1>2. Entry'
    BY DEF TInv, Clean, Spawn, Registered, Entry
<1>3. Starting'
    BY DEF TInv, Clean, Spawn, Registered, Starting, Writers, Unused, Quiet
<1>4. FirstRun'
    BY DEF TInv, Clean, Spawn, FirstRun, Present, Killed
<1>5. Revival'
    BY DEF TInv, Clean, Spawn, Revival
<1>6. OfWriter'
    BY DEF TInv, Clean, Spawn, OfWriter, Writers
<1>7. Alone'
    BY DEF TInv, Early, Quiet, Spawn, Alone, Disposers
<1>8. Parking'
    BY DEF TInv, Clean, Spawn, Parking
<1>9. Isolating'
    BY DEF TInv, Clean, Spawn, Isolating
<1> QED
    BY <1>1, <1>2, <1>3, <1>4, <1>5, <1>6, <1>7, <1>8, <1>9 DEF Clean

LEMMA SpawnFailsStep ==
    ASSUME TInv, Clean, SpawnFails
    PROVE  Clean'
<1>1. Sole'
    BY DEF TInv, Early, SpawnFails, Sole, Writers
<1>2. Entry'
    BY DEF TInv, Early, SpawnFails, UnregisterUnlessParked, Unregister, Entry, Absent
<1>3. Starting'
    BY DEF TInv, Clean, SpawnFails, Starting
<1>4. FirstRun'
    BY DEF TInv, Clean, SpawnFails, FirstRun, Present, Killed
<1>5. Revival'
    BY DEF TInv, Clean, SpawnFails, Revival
<1>6. OfWriter'
    BY DEF TInv, Clean, SpawnFails, OfWriter, Writers
<1>7. Alone'
    BY DEF TInv, Early, Quiet, SpawnFails, Alone, Disposers
<1>8. Parking'
    BY DEF TInv, Clean, SpawnFails, Parking
<1>9. Isolating'
    BY DEF TInv, Clean, SpawnFails, Isolating
<1> QED
    BY <1>1, <1>2, <1>3, <1>4, <1>5, <1>6, <1>7, <1>8, <1>9 DEF Clean

LEMMA SpawnedStep ==
    ASSUME TInv, Clean, Spawned
    PROVE  Clean'
<1>a. PICK end \in Ends :
        /\ run' = [pc |-> end, s |-> Fresh]
        /\ home' = IF end = "isolated" THEN "worktree" ELSE "kept"
    BY DEF Spawned
<1>b. end \in {"keep", "abort", "isolated"}
    BY AgentAssumption
<1>c. Fresh \in Session /\ sess[Fresh] = "none" /\ Writers = {} /\ rev.pc = "none" /\ Quiet
      /\ ag.st = "running" /\ ~ag.adopted /\ ~ag.timer
    BY FreshFacts DEF TInv, Early, Clean, Starting, Spawned, Unused
<1>d. ag' = [ag EXCEPT !.s = Fresh] /\ sess' = [sess EXCEPT ![Fresh] = "live"]
      /\ UNCHANGED <<turn, rev, by, kill>>
    BY <1>c DEF Spawned, Attach
<1>e. Writers' = {Fresh}
    BY <1>c, <1>d DEF TInv, TypeOK, Writers
<1>1. Sole'
    BY <1>a, <1>c, <1>d, <1>e DEF TInv, Clean, TypeOK, Sole, Writer
<1>2. Entry'
    BY <1>c, <1>d DEF TInv, Clean, TypeOK, Entry
<1>3. Starting'
    BY <1>a, <1>b DEF Starting
<1>4. FirstRun'
    <2>1. Present' /\ by'["release"] = Null
        BY <1>a, <1>c, <1>d DEF TInv, TypeOK, Present, Quiet, Disposers
    <2> QED
        BY <2>1 DEF FirstRun
<1>5. Revival'
    BY <1>c, <1>d DEF TInv, Clean, Revival, Quiet, Disposers
<1>6. OfWriter'
    BY <1>c, <1>d DEF OfWriter, Quiet
<1>7. Alone'
    BY <1>c, <1>d DEF Alone, Quiet, Disposers
<1>8. Parking'
    BY <1>c, <1>d DEF Parking, Quiet, Disposers
<1>9. Isolating'
    BY <1>a, <1>b, <1>c, <1>d DEF Isolating, Quiet, Disposers
<1> QED
    BY <1>1, <1>2, <1>3, <1>4, <1>5, <1>6, <1>7, <1>8, <1>9 DEF Clean

LEMMA AbandonStep ==
    ASSUME TInv, Clean, Abandon
    PROVE  Clean'
<1>1. Sole'
    BY DEF TInv, Clean, Abandon, Sole, Writers, Writer
<1>2. Entry'
    BY DEF TInv, Clean, Abandon, Entry
<1>3. Starting'
    BY DEF TInv, Clean, Abandon, Starting, Writers, Unused, Quiet
<1>4. FirstRun'
    BY DEF TInv, Clean, Abandon, FirstRun, Present, Killed
<1>5. Revival'
    BY DEF TInv, Clean, Abandon, Revival
<1>6. OfWriter'
    BY DEF TInv, Clean, Abandon, OfWriter, Writers
<1>7. Alone'
    BY DEF TInv, Clean, Abandon, Alone
<1>8. Parking'
    BY DEF TInv, Clean, Abandon, Parking
<1>9. Isolating'
    BY DEF TInv, Clean, Abandon, Isolating
<1> QED
    BY <1>1, <1>2, <1>3, <1>4, <1>5, <1>6, <1>7, <1>8, <1>9 DEF Clean

LEMMA ReapStep ==
    ASSUME TInv, Clean, Reap
    PROVE  Clean'
<1>1. Sole'
    BY FreshFacts DEF TInv, Early, Clean, Starting, TypeOK, Reap, Attach, Sole, Writers, Writer,
       Unused
<1>2. Entry'
    BY DEF TInv, Clean, Reap, Attach, Entry, TypeOK
<1>3. Starting'
    BY DEF TInv, Clean, Reap, Starting
<1>4. FirstRun'
    BY DEF TInv, Clean, Reap, FirstRun, Present, Killed
<1>5. Revival'
    BY DEF TInv, Clean, Reap, Revival
<1>6. OfWriter'
    BY FreshFacts DEF TInv, Early, Reap, OfWriter, Writers, TypeOK, Quiet, Unused
<1>7. Alone'
    BY DEF TInv, TypeOK, Early, Clean, Starting, Reap, Attach, Alone, Quiet, Disposers
<1>8. Parking'
    BY DEF TInv, Clean, Reap, Parking
<1>9. Isolating'
    BY DEF TInv, Clean, Reap, Isolating
<1> QED
    BY <1>1, <1>2, <1>3, <1>4, <1>5, <1>6, <1>7, <1>8, <1>9 DEF Clean

LEMMA FinishKeepStep ==
    ASSUME TInv, Clean, ~crossed', FinishKeep
    PROVE  Clean'
<1>a. UNCHANGED <<sess, turn, synced, rev, by, kill, home>> /\ run' = [run EXCEPT !.pc = "done"]
      /\ run.pc = "keep" /\ run.s \in Session /\ ag \in AgentState
    BY DEF TInv, TypeOK, Built, FinishKeep, AgentState
<1>b. run'.pc = "done"
    BY <1>a DEF TInv, TypeOK
<1>c. ASSUME ag.st # "none"
      PROVE  Present /\ ag'.s = ag.s /\ ag'.st # "none"
    <2>1. ag.s = run.s
        BY <1>c DEF TInv, TypeOK, FinishKeep
    <2>2. Present
        BY <1>a, <2>1 DEF Clean, FirstRun, Killed
    <2>3. Kept(ag, SetStatus(ag, "idle"))
        BY <1>a, SetStatusFacts
    <2> QED
        BY <1>c, <2>2, <2>3 DEF FinishKeep, Adopt, Kept, AgentState
<1>d. ASSUME ag.st = "none"
      PROVE  ag' = ag
    BY <1>d DEF FinishKeep, SetStatus, Adopt
<1>1. Sole'
    BY <1>a, <1>c, <1>d DEF Clean, Sole, Writers, Writer
<1>2. Entry'
    BY <1>c, <1>d DEF Clean, Entry
<1>3. Starting'
    BY <1>b DEF Starting
<1>4. FirstRun'
    BY <1>b DEF FirstRun
<1>5. Revival'
    BY <1>a, <1>b, <1>c, <1>d DEF Clean, Revival, Present, Writers, Quiet
<1>6. OfWriter'
    BY <1>a DEF Clean, OfWriter, Writers
<1>7. Alone'
    <2>1. \A d \in {"abort", "isolate", "late"} : by'[d] # Null => ag' = ag
        BY <1>a, <1>c, <1>d DEF Present, Disposers
    <2> QED
        BY <1>a, <1>c, <1>d, <2>1 DEF Clean, Alone
<1>8. Parking'
    BY <1>a, <1>b, <1>c, <1>d DEF Clean, Parking, Present, Disposers
<1>9. Isolating'
    <2>1. by["isolate"] = Null
        BY <1>a DEF Clean, Isolating
    <2> QED
        BY <1>a, <1>b, <2>1 DEF Isolating
<1> QED
    BY <1>1, <1>2, <1>3, <1>4, <1>5, <1>6, <1>7, <1>8, <1>9 DEF Clean

LEMMA FinishAbortStep ==
    ASSUME TInv, Clean, FinishAbort
    PROVE  Clean'
<1>a. Present /\ run.s \in Session /\ Quiet /\ ag \in AgentState /\ sess[run.s] = "live"
    BY DEF TInv, TypeOK, Built, Clean, FirstRun, Present, FinishAbort, Quiet, Disposers, AgentState
<1>b. Kept(ag, ag') /\ ag'.st = "aborted" /\ ag.s = run.s /\ rev.pc = "none"
      /\ ~ag.adopted /\ ~ag.timer
    BY <1>a, SetStatusFacts DEF Present, FinishAbort
<1>c. sess' = [sess EXCEPT ![run.s] = "disposing"] /\ Writers' = {run.s} /\ Writers = {run.s}
    <2>1. sess' = [sess EXCEPT ![run.s] = "disposing"]
        BY <1>a DEF FinishAbort, BeginDispose
    <2>2. Writers = {run.s}
        BY <1>a, <1>b DEF Clean, Sole, Writer, Writers
    <2>3. Writers' = Writers
        BY <1>a, <2>1 DEF TInv, TypeOK, Writers
    <2> QED
        BY <2>1, <2>2, <2>3
<1>d. by' = [by EXCEPT !["abort"] = run.s] /\ run' = [run EXCEPT !.pc = "done"]
      /\ UNCHANGED <<turn, synced, rev, kill, home>>
    BY DEF FinishAbort, BeginDispose
<1>1. Sole'
    BY <1>b, <1>c, <1>d DEF Sole, Writer, Kept
<1>2. Entry'
    BY <1>b DEF Entry
<1>3. Starting'
    BY <1>d DEF TInv, TypeOK, Starting
<1>4. FirstRun'
    BY <1>d DEF TInv, TypeOK, FirstRun
<1>5. Revival'
    BY <1>a, <1>b, <1>d DEF TInv, TypeOK, Revival, Quiet, Disposers
<1>6. OfWriter'
    BY <1>a, <1>c, <1>d DEF TInv, TypeOK, OfWriter, Quiet
<1>7. Alone'
    BY <1>a, <1>b, <1>d DEF TInv, TypeOK, Kept, Quiet, Alone, Disposers
<1>8. Parking'
    BY <1>a, <1>d DEF TInv, TypeOK, Quiet, Parking, Disposers
<1>9. Isolating'
    BY <1>a, <1>d DEF TInv, TypeOK, Isolating, Quiet, Disposers
<1> QED
    BY <1>1, <1>2, <1>3, <1>4, <1>5, <1>6, <1>7, <1>8, <1>9 DEF Clean

LEMMA FinishIsolatedStep ==
    ASSUME TInv, Clean, FinishIsolated
    PROVE  Clean'
<1>a. Present /\ run.s \in Session /\ Quiet /\ ag \in AgentState /\ sess[run.s] = "live"
    BY DEF TInv, TypeOK, Built, Clean, FirstRun, Present, FinishIsolated, Quiet, Disposers,
       AgentState
<1>b. Kept(ag, ag') /\ ag'.st = "parked" /\ ag.s = run.s /\ rev.pc = "none"
      /\ ~ag.adopted /\ ~ag.timer
    BY <1>a, SetStatusFacts DEF Present, FinishIsolated
<1>c. sess' = [sess EXCEPT ![run.s] = "disposing"] /\ Writers' = {run.s} /\ Writers = {run.s}
    <2>1. sess' = [sess EXCEPT ![run.s] = "disposing"]
        BY <1>a DEF FinishIsolated, BeginDispose
    <2>2. Writers = {run.s}
        BY <1>a, <1>b DEF Clean, Sole, Writer, Writers
    <2>3. Writers' = Writers
        BY <1>a, <2>1 DEF TInv, TypeOK, Writers
    <2> QED
        BY <2>1, <2>2, <2>3
<1>d. by' = [by EXCEPT !["isolate"] = run.s] /\ run' = [run EXCEPT !.pc = "isolating"]
      /\ UNCHANGED <<turn, synced, rev, kill, home>>
    BY DEF FinishIsolated, BeginDispose
<1>1. Sole'
    BY <1>b, <1>c, <1>d DEF Sole, Writer, Kept
<1>2. Entry'
    BY <1>b DEF Entry
<1>3. Starting'
    BY <1>d DEF TInv, TypeOK, Starting
<1>4. FirstRun'
    BY <1>d DEF TInv, TypeOK, FirstRun
<1>5. Revival'
    BY <1>a, <1>b, <1>d DEF TInv, TypeOK, Revival, Quiet, Disposers
<1>6. OfWriter'
    BY <1>a, <1>c, <1>d DEF TInv, TypeOK, OfWriter, Quiet
<1>7. Alone'
    BY <1>a, <1>b, <1>d DEF TInv, TypeOK, Kept, Quiet, Alone, Disposers
<1>8. Parking'
    BY <1>a, <1>d DEF TInv, TypeOK, Quiet, Parking, Disposers
<1>9. Isolating'
    BY <1>a, <1>b, <1>d, Basics DEF TInv, TypeOK, Isolating, Quiet, Disposers, FinishIsolated
<1> QED
    BY <1>1, <1>2, <1>3, <1>4, <1>5, <1>6, <1>7, <1>8, <1>9 DEF Clean

LEMMA RemoveWorktreeStep ==
    ASSUME TInv, Clean, RemoveWorktree
    PROVE  Clean'
<1>1. Sole'
    BY DEF TInv, Clean, RemoveWorktree, Sole, Writers, Writer
<1>2. Entry'
    BY DEF TInv, Clean, RemoveWorktree, Entry
<1>3. Starting'
    BY DEF TInv, Clean, RemoveWorktree, Starting
<1>4. FirstRun'
    BY DEF TInv, Clean, RemoveWorktree, FirstRun, Present, Killed
<1>5. Revival'
    BY DEF TInv, Clean, RemoveWorktree, Revival, Writers, Unused, Quiet
<1>6. OfWriter'
    BY DEF TInv, Clean, RemoveWorktree, OfWriter, Writers
<1>7. Alone'
    BY DEF TInv, Clean, RemoveWorktree, Alone
<1>8. Parking'
    BY DEF TInv, Clean, RemoveWorktree, Parking
<1>9. Isolating'
    BY DEF TInv, Clean, RemoveWorktree, Isolating
<1> QED
    BY <1>1, <1>2, <1>3, <1>4, <1>5, <1>6, <1>7, <1>8, <1>9 DEF Clean

LEMMA PromptStep ==
    ASSUME TInv, Clean, NEW s \in Session, Prompt(s)
    PROVE  Clean'
<1>1. Sole'
    BY DEF TInv, Clean, Prompt, Sole, Writers, Writer
<1>2. Entry'
    BY DEF TInv, Clean, Prompt, Entry
<1>3. Starting'
    BY DEF TInv, Clean, Prompt, Starting, Writers
<1>4. FirstRun'
    BY DEF TInv, Clean, Prompt, FirstRun, Present, Killed, Quiet
<1>5. Revival'
    BY DEF TInv, Clean, Prompt, Revival, Writers
<1>6. OfWriter'
    BY DEF TInv, Clean, Prompt, OfWriter, Writers
<1>7. Alone'
    BY DEF TInv, Clean, Prompt, Alone
<1>8. Parking'
    BY DEF TInv, Clean, Prompt, Parking
<1>9. Isolating'
    BY DEF TInv, Clean, Prompt, Isolating, OfWriter, Disposers
<1> QED
    BY <1>1, <1>2, <1>3, <1>4, <1>5, <1>6, <1>7, <1>8, <1>9 DEF Clean

LEMMA DropPromptStep ==
    ASSUME TInv, Clean, NEW s \in Session, DropPrompt(s)
    PROVE  Clean'
<1>1. Sole'
    BY DEF TInv, Clean, DropPrompt, Sole, Writers, Writer
<1>2. Entry'
    BY DEF TInv, Clean, DropPrompt, Entry
<1>3. Starting'
    BY DEF TInv, Clean, DropPrompt, Starting, Writers, Unused, Quiet
<1>4. FirstRun'
    BY DEF TInv, Clean, DropPrompt, FirstRun, Present, Killed, Quiet
<1>5. Revival'
    BY DEF TInv, Clean, DropPrompt, Revival, Writers, Unused, Quiet
<1>6. OfWriter'
    BY DEF TInv, Clean, DropPrompt, OfWriter, Writers
<1>7. Alone'
    BY DEF TInv, Clean, DropPrompt, Alone
<1>8. Parking'
    BY DEF TInv, Clean, DropPrompt, Parking
<1>9. Isolating'
    BY DEF TInv, Clean, DropPrompt, Isolating
<1> QED
    BY <1>1, <1>2, <1>3, <1>4, <1>5, <1>6, <1>7, <1>8, <1>9 DEF Clean

LEMMA StartTurnStep ==
    ASSUME TInv, Clean, NEW s \in Session, StartTurn(s)
    PROVE  Clean'
<1>a. Kept(ag, ag')
    <2>1. ag \in AgentState
        BY DEF TInv, TypeOK, AgentState
    <2>2. Kept(ag, SetStatus(ag, "running")) /\ Kept(ag, ag)
        BY <2>1, SetStatusFacts DEF Kept
    <2> QED
        BY <2>2 DEF StartTurn
<1>b. s \in Writers /\ Writers' = Writers /\ UNCHANGED <<sess, synced, run, rev, by, kill, home>>
    BY DEF TInv, Active, StartTurn, Writers
<1>1. Sole'
    BY <1>a, <1>b DEF Clean, Sole, Writers, Writer, Kept
<1>2. Entry'
    BY <1>a DEF TInv, Clean, Entry, Kept
<1>3. Starting'
    BY <1>b DEF TInv, Early, Starting
<1>4. FirstRun'
    BY <1>a, <1>b DEF TInv, Clean, FirstRun, Present, Killed, Quiet, Kept
<1>5. Revival'
    BY <1>a, <1>b DEF TInv, Clean, Revival, Quiet, Kept
<1>6. OfWriter'
    BY DEF TInv, Clean, StartTurn, OfWriter, Writers
<1>7. Alone'
    BY <1>a, <1>b DEF TInv, Clean, Alone, Kept
<1>8. Parking'
    BY <1>a, <1>b DEF TInv, Clean, Parking, Kept
<1>9. Isolating'
    <2>1. by["isolate"] = Null
        BY <1>b DEF TInv, Clean, Isolating, OfWriter, StartTurn, Disposers
    <2> QED
        BY <1>b, <2>1 DEF TInv, Clean, Isolating
<1> QED
    BY <1>1, <1>2, <1>3, <1>4, <1>5, <1>6, <1>7, <1>8, <1>9 DEF Clean

LEMMA EndTurnStep ==
    ASSUME TInv, Clean, NEW s \in Session, EndTurn(s)
    PROVE  Clean'
<1>a. Kept(ag, ag')
    <2>1. ag \in AgentState
        BY DEF TInv, TypeOK, AgentState
    <2>2. Kept(ag, SetStatus(ag, "idle")) /\ Kept(ag, ag)
        BY <2>1, SetStatusFacts DEF Kept
    <2> QED
        BY <2>2 DEF EndTurn
<1>b. s \in Writers /\ Writers' = Writers /\ UNCHANGED <<sess, synced, run, rev, by, kill, home>>
    BY DEF TInv, Active, EndTurn, Writers
<1>1. Sole'
    BY <1>a, <1>b DEF Clean, Sole, Writers, Writer, Kept
<1>2. Entry'
    BY <1>a DEF TInv, Clean, Entry, Kept
<1>3. Starting'
    BY <1>b DEF TInv, Early, Starting
<1>4. FirstRun'
    BY <1>a, <1>b DEF TInv, Clean, FirstRun, Present, Killed, Quiet, Kept
<1>5. Revival'
    BY <1>a, <1>b DEF TInv, Clean, Revival, Quiet, Kept
<1>6. OfWriter'
    BY DEF TInv, Clean, EndTurn, OfWriter, Writers
<1>7. Alone'
    BY <1>a, <1>b DEF TInv, Clean, Alone, Kept
<1>8. Parking'
    BY <1>a, <1>b DEF TInv, Clean, Parking, Kept
<1>9. Isolating'
    <2>1. by["isolate"] = Null
        BY <1>b DEF TInv, Clean, Isolating, OfWriter, EndTurn, Disposers
    <2> QED
        BY <1>b, <2>1 DEF TInv, Clean, Isolating
<1> QED
    BY <1>1, <1>2, <1>3, <1>4, <1>5, <1>6, <1>7, <1>8, <1>9 DEF Clean

LEMMA ExpireStep ==
    ASSUME TInv, Clean, Expire
    PROVE  Clean'
<1>1. Sole'
    BY DEF TInv, Clean, Expire, BeginDispose, Sole, Writers, Writer, TypeOK
<1>2. Entry'
    BY DEF TInv, Clean, Expire, Entry, Absent
<1>3. Starting'
    BY DEF TInv, Clean, Expire, Starting
<1>4. FirstRun'
    <2>1. Present => ~ag.timer
        BY DEF Present
    <2>2. run.pc \in {"abort", "isolated"} => FALSE
        BY <2>1 DEF Clean, FirstRun, Expire
    <2>3. run.pc = "keep" => Killed
        BY <2>1 DEF Clean, FirstRun, Expire
    <2> QED
        BY <2>2, <2>3 DEF TInv, TypeOK, Built, Expire, BeginDispose, FirstRun, Killed
<1>5. Revival'
    BY DEF TInv, Clean, Expire, BeginDispose, Revival, Writers, Unused, Quiet, TypeOK, Disposers
<1>6. OfWriter'
    BY DEF TInv, Clean, Expire, BeginDispose, OfWriter, Writers, TypeOK, Sole, Writer, Revival,
       Built
<1>7. Alone'
    BY DEF TInv, Clean, Expire, BeginDispose, Alone, Disposers, TypeOK
<1>8. Parking'
    <2> SUFFICES ASSUME by'["park"] # Null
                 PROVE  /\ ag'.s = by'["park"] /\ ag'.st # "none"
                        /\ run'.pc \in {"keep", "done"}
                        /\ rev'.pc \in {"attached", "failing"} => rev'.s = by'["park"]
        BY DEF Parking
    <2>1. ag.adopted /\ ag.s # Null /\ ag.timer /\ by' = [by EXCEPT !["park"] = ag.s]
        BY DEF Expire, IsParking, BeginDispose
    <2>2. ag' = [ag EXCEPT !.timer = FALSE] /\ UNCHANGED <<run, rev>>
        BY DEF Expire
    <2>3. ag.st # "none"
        BY <2>1 DEF Clean, Entry
    <2>4. run.pc \in {"keep", "done"}
        BY <2>1, AgentAssumption DEF TInv, Clean, TypeOK, Early, FirstRun, Present, Isolating,
           Alone
    <2>5. rev.pc \in {"attached", "failing"} => rev.s = ag.s
        BY <2>1 DEF Clean, Revival
    <2> QED
        BY <2>1, <2>2, <2>3, <2>4, <2>5 DEF TInv, TypeOK, Disposers
<1>9. Isolating'
    BY DEF TInv, Clean, Expire, BeginDispose, Isolating, TypeOK, Disposers
<1> QED
    BY <1>1, <1>2, <1>3, <1>4, <1>5, <1>6, <1>7, <1>8, <1>9 DEF Clean

\* What the end of a dispose leaves of the entry: a park and an isolated run
\* keep it, parked, and a failed revival does not touch one being parked.
LEMMA EndDisposeEntry ==
    ASSUME TInv, Clean, NEW d \in Disposers, EndDispose(d)
    PROVE  /\ ag'.st = "none" => ag'.s = Null /\ ~ag'.timer
           /\ ag'.s \in {ag.s, Null}
           /\ d = "release" => ag'.s = Null
           /\ d \in {"park", "isolate"} => ag'.st = "parked" /\ ag'.s = Null
           /\ d = "revive" /\ IsParking => ag'.s = ag.s /\ ag'.st = ag.st
<1> DEFINE b == UnregisterUnlessParked(ag)
<1>1. ag' = AfterDispose(d, b) /\ by[d] # Null
    BY DEF EndDispose
<1>2. /\ ag \in AgentState /\ b \in {ag, Absent}
      /\ IsParking \/ ag.st = "parked" => b = ag
    BY DEF TInv, TypeOK, AgentState, UnregisterUnlessParked, Unregister
<1>3. Absent \in AgentState /\ Absent.st = "none" /\ Absent.s = Null /\ ~Absent.timer
    BY DEF Absent, AgentState
<1>4. b \in AgentState /\ b.s \in {ag.s, Null} /\ (b.st = "none" => b.s = Null /\ ~b.timer)
    BY <1>2, <1>3 DEF Clean, Entry
<1> HIDE DEF b
<1>5. CASE d = "park"
    <2>1. ag' = SetStatus(Detach(ag), "parked") /\ ag.st # "none"
        BY <1>1, <1>2, <1>5 DEF Clean, Parking, AfterDispose, IsParking
    <2>2. Detach(ag) \in AgentState /\ Detach(ag).s = Null /\ Detach(ag).st = ag.st
        BY <1>2 DEF Detach, AgentState
    <2> QED
        BY <1>5, <2>1, <2>2, SetStatusFacts DEF Kept
<1>6. CASE d = "isolate"
    <2>1. ag' = Detach(ag) /\ ag.st = "parked"
        BY <1>1, <1>2, <1>6 DEF Clean, Isolating, AfterDispose
    <2> QED
        BY <1>2, <1>6, <2>1 DEF Detach, AgentState
<1>7. CASE d = "release"
    <2>1. ag' = IF b.st = "none" THEN b ELSE Absent
        BY <1>1, <1>7 DEF AfterDispose, Unregister
    <2> QED
        BY <1>3, <1>4, <1>7, <2>1
<1>8. CASE d = "revive"
    <2>1. \A a \in AgentState : /\ Orphan(a).st = a.st /\ Orphan(a).s = a.s
                                /\ Orphan(a).timer = FALSE
        BY DEF Orphan, AgentState
    <2>2. ag' \in {b, Orphan(b)}
        BY <1>1, <1>8 DEF AfterDispose
    <2> QED
        BY <1>2, <1>4, <1>8, <2>1, <2>2
<1>9. CASE d \in {"abort", "late"}
    <2>1. ag' = b
        BY <1>1, <1>9 DEF AfterDispose
    <2> QED
        BY <1>4, <1>9, <2>1
<1> QED
    BY <1>5, <1>6, <1>7, <1>8, <1>9 DEF Disposers

LEMMA EndDisposeStep ==
    ASSUME TInv, Clean, NEW d \in Disposers, EndDispose(d)
    PROVE  Clean'
<1>a. by[d] \in Session /\ by[d] # Null /\ ~Quiet /\ Writers \subseteq {by[d]}
    BY DEF TInv, Clean, TypeOK, OfWriter, Quiet, EndDispose
<1>b. /\ sess' = [sess EXCEPT ![by[d]] = "disposed"]
      /\ turn' = [turn EXCEPT ![by[d]] = "no"]
      /\ by' = [by EXCEPT ![d] = Null]
      /\ run' = IF d = "isolate" THEN [run EXCEPT !.pc = "done"] ELSE run
      /\ rev' = IF d = "revive" THEN NoRevival ELSE rev
    BY DEF EndDispose
<1>c. Writers' = {} /\ \A r \in Session : turn'[r] = "no"
    <2>1. Writers' = {}
        BY <1>a, <1>b DEF TInv, TypeOK, Writers
    <2>2. \A r \in Session : turn'[r] = "no"
        BY <1>a, <1>b DEF TInv, TypeOK, Active
    <2> QED
        BY <2>1, <2>2
<1>d. /\ ag'.st = "none" => ag'.s = Null /\ ~ag'.timer
      /\ ag'.s \in {ag.s, Null}
      /\ d = "release" => ag'.s = Null
      /\ d \in {"park", "isolate"} => ag'.st = "parked" /\ ag'.s = Null
      /\ d = "revive" /\ IsParking => ag'.s = ag.s /\ ag'.st = ag.st
    BY EndDisposeEntry
<1>1. Sole'
    BY <1>c DEF Sole
<1>2. Entry'
    BY <1>d DEF Entry
<1>3. Starting'
    BY <1>a, <1>b DEF TInv, TypeOK, Early, Starting
<1>4. FirstRun'
    <2>1. run.pc \notin {"abort", "isolated"}
        BY <1>a DEF Clean, FirstRun, Present, Quiet
    <2>2. run'.pc \notin {"abort", "isolated"} /\ run'.s = run.s
          /\ (run'.pc = "keep" => run.pc = "keep")
        BY <1>b, <2>1 DEF TInv, TypeOK
    <2>3. ASSUME run.pc = "keep"
          PROVE  Killed'
        <3>1. run.s \in Session
            BY <2>3 DEF TInv, Built
        <3>2. CASE Present
            <4>1. d = "release" /\ by[d] = run.s
                BY <1>a, <3>2 DEF Present, Disposers
            <4>2. sess'[run.s] = "disposed" /\ ag'.s # run.s
                BY <1>b, <1>d, <3>1, <4>1, Basics DEF TInv, TypeOK
            <4>3. rev' = rev /\ rev.pc = "none" /\ run'.s = run.s
                BY <1>b, <2>2, <3>2, <4>1 DEF Present
            <4> QED
                BY <4>2, <4>3 DEF Killed
        <3>3. CASE Killed
            <4>1. sess'[run.s] = "disposed"
                BY <1>a, <1>b, <3>1, <3>3 DEF Killed, TInv, TypeOK
            <4>2. ag'.s # run.s /\ run'.s = run.s
                BY <1>d, <2>2, <3>1, <3>3, Basics DEF Killed
            <4>3. rev'.pc \in {"attached", "failing"} => rev'.s # run.s
                BY <1>b, <3>3 DEF Killed, NoRevival
            <4> QED
                BY <4>1, <4>2, <4>3 DEF Killed
        <3> QED
            BY <2>3, <3>2, <3>3 DEF Clean, FirstRun
    <2> QED
        BY <2>2, <2>3 DEF FirstRun
<1>5. Revival'
    <2>1. CASE d = "revive"
        BY <1>b, <2>1 DEF TInv, Clean, TypeOK, Revival, NoRevival
    <2>2. CASE d = "park"
        BY <1>a, <1>b, <1>d, <2>2 DEF TInv, Clean, TypeOK, Revival
    <2>3. CASE d \in {"release", "abort", "isolate", "late"}
        <3>1. rev.pc = "none" /\ by["revive"] = Null
            BY <1>a, <2>3 DEF Clean, Alone, Disposers
        <3> QED
            BY <1>b, <2>3, <3>1 DEF TInv, TypeOK, Revival
    <2> QED
        BY <2>1, <2>2, <2>3 DEF Disposers
<1>6. OfWriter'
    BY <1>b, <1>c DEF TInv, Clean, TypeOK, OfWriter
<1>7. Alone'
    BY <1>a, <1>b DEF TInv, Clean, TypeOK, Alone, Disposers
<1>8. Parking'
    BY <1>a, <1>b, <1>d DEF TInv, Clean, TypeOK, Parking, Alone, Disposers, IsParking, NoRevival
<1>9. Isolating'
    BY <1>a, <1>b DEF TInv, Clean, TypeOK, Isolating, Alone, Disposers
<1> QED
    BY <1>1, <1>2, <1>3, <1>4, <1>5, <1>6, <1>7, <1>8, <1>9 DEF Clean

LEMMA EnsureLiveStep ==
    ASSUME TInv, Clean, EnsureLive
    PROVE  Clean'
<1>a. ag.s = Null /\ ag.st = "parked" /\ rev.pc = "none" /\ rev'.pc \in {"factory", "open"}
      /\ UNCHANGED <<ag, sess, turn, synced, run, by, kill, home>>
    BY DEF TInv, TypeOK, EnsureLive
<1>b. Writers = {}
    BY <1>a, Basics DEF Clean, Sole, Writer, Writers
<1>c. Quiet
    BY <1>a DEF Clean, Alone, Parking, Revival, Disposers, Quiet
<1>d. run.pc \in {"keep", "done"}
    BY <1>a, <1>c, AgentAssumption, Basics DEF TInv, Clean, TypeOK, Early, Built, FirstRun,
       Present, Isolating, Quiet, Disposers
<1>1. Sole'
    BY <1>a, <1>b DEF Sole, Writers
<1>2. Entry'
    BY <1>a DEF Clean, Entry
<1>3. Starting'
    BY <1>a DEF Clean, Starting
<1>4. FirstRun'
    <2>1. run.pc = "keep" => Killed
        BY <1>a, Basics DEF TInv, Built, Clean, FirstRun, Present
    <2> QED
        BY <1>a, <1>d, <2>1 DEF FirstRun, Killed
<1>5. Revival'
    BY <1>a, <1>b, <1>c, <1>d DEF Revival, Writers, Quiet, Disposers
<1>6. OfWriter'
    BY <1>a DEF Clean, OfWriter, Writers
<1>7. Alone'
    BY <1>a, <1>c DEF Alone, Quiet, Disposers
<1>8. Parking'
    BY <1>a, <1>c DEF Parking, Quiet, Disposers
<1>9. Isolating'
    BY <1>a DEF Clean, Isolating
<1> QED
    BY <1>1, <1>2, <1>3, <1>4, <1>5, <1>6, <1>7, <1>8, <1>9 DEF Clean

LEMMA FactoryAcceptsStep ==
    ASSUME TInv, Clean, FactoryAccepts
    PROVE  Clean'
<1>1. Sole'
    BY DEF TInv, Clean, FactoryAccepts, Sole, Writers, Writer
<1>2. Entry'
    BY DEF TInv, Clean, FactoryAccepts, Entry, Revival
<1>3. Starting'
    BY DEF TInv, Clean, FactoryAccepts, Starting
<1>4. FirstRun'
    BY DEF TInv, Clean, FactoryAccepts, FirstRun, Present, Killed
<1>5. Revival'
    BY DEF TInv, Clean, FactoryAccepts, Revival, Writers, Unused, Quiet
<1>6. OfWriter'
    BY DEF TInv, Clean, FactoryAccepts, OfWriter, Writers
<1>7. Alone'
    BY DEF TInv, Clean, FactoryAccepts, Alone
<1>8. Parking'
    BY DEF TInv, Clean, FactoryAccepts, Parking
<1>9. Isolating'
    BY DEF TInv, Clean, FactoryAccepts, Isolating
<1> QED
    BY <1>1, <1>2, <1>3, <1>4, <1>5, <1>6, <1>7, <1>8, <1>9 DEF Clean

LEMMA FactoryRefusesStep ==
    ASSUME TInv, Clean, FactoryRefuses
    PROVE  Clean'
    BY DEF FactoryRefuses, Clean, Revival

LEMMA FactoryDeclinesStep ==
    ASSUME TInv, Clean, FactoryDeclines
    PROVE  Clean'
<1>1. Sole'
    BY DEF TInv, Clean, FactoryDeclines, NoRevival, Sole, Writers, Writer
<1>2. Entry'
    BY DEF TInv, Clean, FactoryDeclines, Entry
<1>3. Starting'
    BY DEF TInv, Clean, FactoryDeclines, Starting
<1>4. FirstRun'
    BY DEF TInv, Clean, FactoryDeclines, NoRevival, FirstRun, Present, Killed
<1>5. Revival'
    BY DEF TInv, Clean, FactoryDeclines, NoRevival, Revival
<1>6. OfWriter'
    BY DEF TInv, Clean, FactoryDeclines, OfWriter, Writers
<1>7. Alone'
    BY DEF TInv, Clean, FactoryDeclines, NoRevival, Alone
<1>8. Parking'
    BY DEF TInv, Clean, FactoryDeclines, NoRevival, Parking
<1>9. Isolating'
    BY DEF TInv, Clean, FactoryDeclines, Isolating
<1> QED
    BY <1>1, <1>2, <1>3, <1>4, <1>5, <1>6, <1>7, <1>8, <1>9 DEF Clean

LEMMA OpenFailsStep ==
    ASSUME TInv, Clean, OpenFails
    PROVE  Clean'
<1>1. Sole'
    BY DEF TInv, Clean, OpenFails, NoRevival, Orphan, Sole, Writers, Writer
<1>2. Entry'
    BY DEF TInv, Clean, OpenFails, Orphan, Entry, Revival
<1>3. Starting'
    BY DEF Clean, OpenFails, Revival, Starting
<1>4. FirstRun'
    BY Basics DEF TInv, TypeOK, Built, Clean, OpenFails, NoRevival, Orphan, Revival,
       FirstRun, Present, Killed
<1>5. Revival'
    BY DEF TInv, Clean, OpenFails, NoRevival, Revival
<1>6. OfWriter'
    BY DEF TInv, Clean, OpenFails, OfWriter, Writers
<1>7. Alone'
    BY DEF TInv, Clean, OpenFails, Alone
<1>8. Parking'
    BY DEF TInv, Clean, OpenFails, NoRevival, Orphan, Parking
<1>9. Isolating'
    BY DEF TInv, Clean, OpenFails, Orphan, Isolating
<1> QED
    BY <1>1, <1>2, <1>3, <1>4, <1>5, <1>6, <1>7, <1>8, <1>9 DEF Clean

LEMMA ReviveRegistersStep ==
    ASSUME TInv, Clean, ReviveRegisters
    PROVE  Clean'
<1>1. Sole'
    BY DEF TInv, Clean, ReviveRegisters, Sole, Writers, Revival
<1>2. Entry'
    BY DEF TInv, Clean, ReviveRegisters, Registered, Entry
<1>3. Starting'
    BY DEF Clean, ReviveRegisters, Revival, Starting
<1>4. FirstRun'
    BY Basics DEF TInv, TypeOK, Built, Clean, ReviveRegisters, Registered, Revival,
       FirstRun, Present, Killed
<1>5. Revival'
    BY DEF TInv, Clean, ReviveRegisters, Registered, Revival, Writers, Unused, Quiet
<1>6. OfWriter'
    BY DEF TInv, Clean, ReviveRegisters, OfWriter, Writers
<1>7. Alone'
    BY DEF TInv, Clean, ReviveRegisters, Alone
<1>8. Parking'
    BY DEF TInv, Clean, ReviveRegisters, Parking, Revival
<1>9. Isolating'
    BY DEF TInv, Clean, ReviveRegisters, Isolating, Revival
<1> QED
    BY <1>1, <1>2, <1>3, <1>4, <1>5, <1>6, <1>7, <1>8, <1>9 DEF Clean

LEMMA CreateFailsStep ==
    ASSUME TInv, Clean, CreateFails
    PROVE  Clean'
<1>1. Sole'
    BY DEF TInv, Clean, CreateFails, Sole, Writers, Revival
<1>2. Entry'
    BY DEF TInv, Clean, CreateFails, Orphan, UnregisterUnlessParked, Unregister, Entry, Absent,
       TypeOK, Revival
<1>3. Starting'
    BY DEF Clean, CreateFails, Revival, Starting
<1>4. FirstRun'
    BY Basics DEF TInv, TypeOK, Built, Clean, CreateFails, NoRevival, Orphan,
       UnregisterUnlessParked, Unregister, Absent, Revival, FirstRun, Present, Killed
<1>5. Revival'
    BY DEF TInv, Clean, CreateFails, NoRevival, Revival
<1>6. OfWriter'
    BY DEF TInv, Clean, CreateFails, OfWriter, Writers
<1>7. Alone'
    BY DEF TInv, Clean, CreateFails, Alone
<1>8. Parking'
    BY DEF TInv, Clean, CreateFails, NoRevival, Orphan, UnregisterUnlessParked, IsParking, Parking
<1>9. Isolating'
    BY DEF TInv, Clean, CreateFails, Orphan, UnregisterUnlessParked, Isolating
<1> QED
    BY <1>1, <1>2, <1>3, <1>4, <1>5, <1>6, <1>7, <1>8, <1>9 DEF Clean

LEMMA ReviveAttachesStep ==
    ASSUME TInv, Clean, ReviveAttaches
    PROVE  Clean'
<1>1. Sole'
    BY DEF TInv, Clean, ReviveAttaches, Sole, Writers, Writer, Revival
<1>2. Entry'
    BY DEF TInv, Clean, ReviveAttaches, Attach, Entry, TypeOK
<1>3. Starting'
    BY DEF Clean, ReviveAttaches, Revival, Starting
<1>4. FirstRun'
    <2>1. Fresh \in Session /\ sess[Fresh] = "none" /\ run.pc \in {"keep", "done"}
        BY FreshFacts DEF TInv, Built, Clean, Revival, ReviveAttaches, Unused
    <2>2. run.pc = "keep" => Killed
        BY DEF Clean, FirstRun, Present, ReviveAttaches
    <2> QED
        BY <2>1, <2>2, Basics DEF TInv, TypeOK, Built, ReviveAttaches, Attach, FirstRun, Killed
<1>5. Revival'
    BY FreshFacts DEF TInv, Clean, ReviveAttaches, Attach, Revival, Unused, TypeOK
<1>6. OfWriter'
    BY DEF TInv, Clean, ReviveAttaches, OfWriter, Revival, Quiet
<1>7. Alone'
    BY DEF TInv, Clean, ReviveAttaches, Alone
<1>8. Parking'
    BY DEF TInv, Clean, ReviveAttaches, Parking, Revival
<1>9. Isolating'
    BY DEF TInv, Clean, ReviveAttaches, Attach, Isolating
<1> QED
    BY <1>1, <1>2, <1>3, <1>4, <1>5, <1>6, <1>7, <1>8, <1>9 DEF Clean

LEMMA StartupFailsStep ==
    ASSUME TInv, Clean, StartupFails
    PROVE  Clean'
<1>1. Sole'
    BY DEF TInv, Clean, StartupFails, BeginDispose, Sole, Writers, Writer
<1>2. Entry'
    BY DEF TInv, Clean, StartupFails, Entry
<1>3. Starting'
    BY DEF Clean, StartupFails, Revival, Starting
<1>4. FirstRun'
    <2>1. run.pc \in {"keep", "done"} /\ rev.pc = "attached"
        BY DEF Clean, Revival, StartupFails
    <2>2. run.pc = "keep" => Killed
        BY <2>1 DEF Clean, FirstRun, Present
    <2> QED
        BY <2>1, <2>2 DEF TInv, TypeOK, Built, StartupFails, BeginDispose, FirstRun, Killed
<1>5. Revival'
    BY DEF TInv, Clean, StartupFails, BeginDispose, Revival, TypeOK, Disposers
<1>6. OfWriter'
    BY DEF TInv, Clean, StartupFails, BeginDispose, OfWriter, Writers, TypeOK, Sole, Writer,
       Built
<1>7. Alone'
    BY DEF TInv, Clean, StartupFails, BeginDispose, Alone
<1>8. Parking'
    BY DEF TInv, Clean, StartupFails, BeginDispose, Parking
<1>9. Isolating'
    BY DEF TInv, Clean, StartupFails, BeginDispose, Isolating
<1> QED
    BY <1>1, <1>2, <1>3, <1>4, <1>5, <1>6, <1>7, <1>8, <1>9 DEF Clean

LEMMA RevivedStep ==
    ASSUME TInv, Clean, Revived
    PROVE  Clean'
<1>a. rev.s \in Session /\ run.pc \in {"keep", "done"} /\ ag.st # "none"
      /\ sess[rev.s] # "none" /\ ag.s \in {rev.s, Null} /\ by["revive"] = Null
    BY DEF TInv, Built, Clean, Revival, Revived
<1>b. ag' \in AgentState /\ ag'.s = rev.s /\ ag'.st = "idle" /\ ag'.adopted = ag.adopted
    <2>1. Attach(ag, rev.s) \in AgentState /\ Attach(ag, rev.s).s = rev.s
          /\ Attach(ag, rev.s).st # "none" /\ Attach(ag, rev.s).adopted = ag.adopted
        BY <1>a DEF TInv, TypeOK, AgentState, Attach
    <2> HIDE DEF Attach
    <2> QED
        BY <2>1, SetStatusFacts DEF Revived, Kept
<1>c. rev' = NoRevival /\ UNCHANGED <<sess, turn, run, by, kill, home>>
    BY DEF Revived
<1>1. Sole'
    BY <1>a, <1>b, <1>c DEF TInv, Clean, TypeOK, Sole, Writer, Writers, NoRevival, Revived
<1>2. Entry'
    BY <1>b DEF Entry
<1>3. Starting'
    BY DEF Clean, Revived, Revival, Starting
<1>4. FirstRun'
    <2>1. run.pc = "keep" => Killed
        BY DEF Clean, FirstRun, Present, Revived
    <2> QED
        BY <1>a, <1>b, <1>c, <2>1 DEF FirstRun, Killed, NoRevival, Revived
<1>5. Revival'
    BY DEF TInv, Clean, Revived, NoRevival, Revival
<1>6. OfWriter'
    BY DEF TInv, Clean, Revived, OfWriter, Writers
<1>7. Alone'
    BY <1>a, <1>b, <1>c DEF TInv, Clean, Alone, Revived
<1>8. Parking'
    BY <1>a, <1>b, <1>c DEF TInv, Clean, Parking, NoRevival, Revived
<1>9. Isolating'
    BY <1>a, <1>b, <1>c DEF TInv, Clean, Isolating, Alone, Revived
<1> QED
    BY <1>1, <1>2, <1>3, <1>4, <1>5, <1>6, <1>7, <1>8, <1>9 DEF Clean

LEMMA KillAbortsStep ==
    ASSUME TInv, Clean, KillAborts
    PROVE  Clean'
<1>1. Sole'
    BY DEF TInv, Clean, KillAborts, Sole, Writers, Writer
<1>2. Entry'
    BY DEF TInv, Clean, KillAborts, Entry
<1>3. Starting'
    BY DEF TInv, Clean, KillAborts, Starting
<1>4. FirstRun'
    BY DEF TInv, Clean, KillAborts, FirstRun, Present, Killed, Quiet
<1>5. Revival'
    BY DEF TInv, Clean, KillAborts, Revival
<1>6. OfWriter'
    BY DEF TInv, Clean, KillAborts, OfWriter, Writers
<1>7. Alone'
    BY DEF TInv, Clean, KillAborts, Alone
<1>8. Parking'
    BY DEF TInv, Clean, KillAborts, Parking
<1>9. Isolating'
    BY DEF TInv, Clean, KillAborts, Isolating
<1> QED
    BY <1>1, <1>2, <1>3, <1>4, <1>5, <1>6, <1>7, <1>8, <1>9 DEF Clean

LEMMA KillReleasesStep ==
    ASSUME TInv, Clean, ~crossed', KillReleases
    PROVE  Clean'
<1>a. run.pc \in {"keep", "done"} /\ rev.pc \in {"none", "factory", "open"} /\ Quiet
    BY DEF TInv, TypeOK, KillReleases, Crossing, Quiet
<1>b. UNCHANGED <<turn, synced, run, rev, home>>
    BY DEF KillReleases
<1>c. /\ Orphan(ag).s = ag.s /\ Orphan(ag).st = ag.st
      /\ Orphan(ag).timer = FALSE /\ Orphan(ag).adopted = FALSE
    BY DEF TInv, TypeOK, Orphan
<1>d. ag.s # Null => /\ ag' = Orphan(ag) /\ by' = [by EXCEPT !["release"] = ag.s]
                     /\ sess' = [sess EXCEPT ![ag.s] = IF @ = "live" THEN "disposing" ELSE @]
    BY <1>c DEF KillReleases, Release, BeginDispose
<1>e. ag.s = Null => /\ ag'.s = Null /\ ag'.st = "none" /\ ~ag'.timer
                     /\ UNCHANGED <<by, sess>>
    BY <1>c DEF KillReleases, Release, Unregister, Absent
<1>f. Writers' = Writers
    BY <1>d, <1>e DEF TInv, TypeOK, Writers
<1>g. ag.s # Null => /\ ag.s \in Session /\ sess[ag.s] # "none" /\ rev.pc = "none"
                     /\ Writers \subseteq {ag.s}
    BY <1>a DEF TInv, Clean, TypeOK, Built, Sole, Writer, Revival
<1>h. ag'.s = ag.s
    BY <1>c, <1>d, <1>e
<1>1. Sole'
    BY <1>a, <1>b, <1>f, <1>h DEF Clean, Sole, Writer
<1>2. Entry'
    BY <1>c, <1>d, <1>e DEF Clean, Entry
<1>3. Starting'
    BY <1>a, <1>b DEF Starting
<1>4. FirstRun'
    <2>1. ASSUME run.pc = "keep", Present
          PROVE  Present'
        <3>1. ag.s = run.s /\ ag.s # Null /\ ag.st # "none" /\ rev.pc = "none"
            BY <2>1, Basics DEF TInv, Built, Present
        <3>2. \A d \in Disposers \ {"release"} : by'[d] = Null
            BY <1>a, <1>d, <3>1 DEF TInv, TypeOK, Quiet
        <3>3. by'["release"] = run.s
            BY <1>d, <3>1 DEF TInv, TypeOK, Disposers
        <3> QED
            BY <1>b, <1>c, <1>d, <3>1, <3>2, <3>3 DEF Present
    <2>2. ASSUME run.pc = "keep", Killed
          PROVE  Killed'
        BY <1>b, <1>d, <1>e, <1>g, <1>h, <2>2 DEF TInv, TypeOK, Built, Killed
    <2> QED
        BY <1>a, <1>b, <2>1, <2>2 DEF Clean, FirstRun
<1>5. Revival'
    BY <1>a, <1>b, <1>d, <1>e, <1>f, <1>g DEF TInv, Clean, TypeOK, Revival, Disposers, Quiet
<1>6. OfWriter'
    BY <1>a, <1>d, <1>e, <1>f, <1>g DEF TInv, TypeOK, OfWriter, Quiet
<1>7. Alone'
    BY <1>a, <1>b, <1>d, <1>e, <1>g, <1>h DEF TInv, TypeOK, Alone, Quiet, Disposers
<1>8. Parking'
    BY <1>a, <1>d, <1>e DEF TInv, TypeOK, Parking, Quiet, Disposers
<1>9. Isolating'
    BY <1>a, <1>b, <1>d, <1>e DEF TInv, Clean, TypeOK, Isolating, Quiet, Disposers
<1> QED
    BY <1>1, <1>2, <1>3, <1>4, <1>5, <1>6, <1>7, <1>8, <1>9 DEF Clean

LEMMA RescanStep ==
    ASSUME TInv, Clean, Rescan
    PROVE  Clean'
<1>1. Sole'
    BY Basics DEF TInv, Clean, Rescan, Sole, Writers, Writer, Entry, Absent
<1>2. Entry'
    BY DEF TInv, Clean, Rescan, Registered, Entry
<1>3. Starting'
    BY DEF TInv, Clean, Rescan, Starting
<1>4. FirstRun'
    BY Basics DEF TInv, TypeOK, Built, Clean, Rescan, Registered, FirstRun, Present, Killed
<1>5. Revival'
    BY DEF TInv, TypeOK, Clean, Rescan, Registered, Revival, Writers, Quiet
<1>6. OfWriter'
    BY DEF TInv, Clean, Rescan, OfWriter, Writers
<1>7. Alone'
    BY DEF TInv, Clean, Rescan, Alone, Entry, Absent
<1>8. Parking'
    BY DEF TInv, Clean, Rescan, Parking
<1>9. Isolating'
    BY DEF TInv, Clean, Rescan, Isolating
<1> QED
    BY <1>1, <1>2, <1>3, <1>4, <1>5, <1>6, <1>7, <1>8, <1>9 DEF Clean

-----------------------------------------------------------------------------
LEMMA InitIInv == Init => IInv
<1> SUFFICES ASSUME Init
             PROVE  IInv
    OBVIOUS
<1>1. PICK start \in Starts :
        /\ ag = IF start = "disk" THEN Restored ELSE Absent
        /\ run = [pc |-> IF start = "disk" THEN "done" ELSE "spawn", s |-> Null]
    BY DEF Init
<1>2. TypeOK
    <2>1. ag \in AgentState
        BY <1>1 DEF Restored, Absent, AgentState
    <2> QED
        BY <1>1, <2>1 DEF Init, TypeOK, AgentState, NoRevival
<1>3. Writers = {} /\ Quiet /\ rev = NoRevival /\ ag.s = Null /\ ~ag.adopted /\ ~ag.timer
    BY <1>1 DEF Init, Writers, Quiet, Restored, Absent
<1>4. 1 \in Unused
    BY AgentAssumption DEF Init, Unused, Session
<1>5. Active /\ Sole /\ Entry
    BY <1>1, <1>3 DEF Init, Active, Sole, Entry, Restored, Absent
<1>6. Early /\ Starting /\ Built
    BY <1>1, <1>3, <1>4 DEF Init, Early, Starting, Built, Absent, Restored, NoRevival, Quiet
<1>7. FirstRun /\ Revival
    BY <1>1, <1>3 DEF FirstRun, Revival, NoRevival, Quiet, Disposers
<1>8. OfWriter /\ Alone /\ Parking /\ Isolating
    BY <1>1, <1>3 DEF OfWriter, Alone, Parking, Isolating, Quiet, Disposers
<1> QED
    BY <1>2, <1>5, <1>6, <1>7, <1>8 DEF IInv, TInv, Clean

\* What no kill disturbs, for every step.
LEMMA TypesNext ==
    ASSUME TInv, [Next]_vars
    PROVE  TInv'
<1>1. CASE Spawn
    BY <1>1, SpawnTypes
<1>2. CASE SpawnFails
    BY <1>2, SpawnFailsTypes
<1>3. CASE Spawned
    BY <1>3, SpawnedTypes
<1>4. CASE Abandon
    BY <1>4, AbandonTypes
<1>5. CASE Reap
    BY <1>5, ReapTypes
<1>6. CASE FinishKeep
    BY <1>6, FinishKeepTypes
<1>7. CASE FinishAbort
    BY <1>7, FinishAbortTypes
<1>8. CASE FinishIsolated
    BY <1>8, FinishIsolatedTypes
<1>9. CASE RemoveWorktree
    BY <1>9, RemoveWorktreeTypes
<1>10. ASSUME NEW s \in Session, Prompt(s)
      PROVE  TInv'
    BY <1>10, PromptTypes
<1>11. ASSUME NEW s \in Session, DropPrompt(s)
      PROVE  TInv'
    BY <1>11, DropPromptTypes
<1>12. ASSUME NEW s \in Session, StartTurn(s)
      PROVE  TInv'
    BY <1>12, StartTurnTypes
<1>13. ASSUME NEW s \in Session, EndTurn(s)
      PROVE  TInv'
    BY <1>13, EndTurnTypes
<1>14. CASE Expire
    BY <1>14, ExpireTypes
<1>15. ASSUME NEW d \in Disposers, EndDispose(d)
      PROVE  TInv'
    BY <1>15, EndDisposeTypes
<1>16. CASE EnsureLive
    BY <1>16, EnsureLiveTypes
<1>17. CASE FactoryAccepts
    BY <1>17, FactoryAcceptsTypes
<1>18. CASE FactoryRefuses
    BY <1>18, FactoryRefusesTypes
<1>19. CASE FactoryDeclines
    BY <1>19, FactoryDeclinesTypes
<1>20. CASE OpenFails
    BY <1>20, OpenFailsTypes
<1>21. CASE ReviveRegisters
    BY <1>21, ReviveRegistersTypes
<1>22. CASE CreateFails
    BY <1>22, CreateFailsTypes
<1>23. CASE ReviveAttaches
    BY <1>23, ReviveAttachesTypes
<1>24. CASE StartupFails
    BY <1>24, StartupFailsTypes
<1>25. CASE Revived
    BY <1>25, RevivedTypes
<1>26. CASE KillAborts
    BY <1>26, KillAbortsTypes
<1>27. CASE KillReleases
    BY <1>27, KillReleasesTypes
<1>28. CASE Rescan
    BY <1>28, RescanTypes
<1>29. CASE UNCHANGED vars
    BY <1>29 DEF vars, TInv, TypeOK, Active, Early, Built, Writers, Unused, Quiet
<1> QED
    BY <1>1, <1>2, <1>3, <1>4, <1>5, <1>6, <1>7, <1>8, <1>9, <1>10, <1>11, <1>12, <1>13,
       <1>14, <1>15, <1>16, <1>17, <1>18, <1>19, <1>20, <1>21, <1>22, <1>23, <1>24, <1>25, <1>26,
       <1>27, <1>28, <1>29 DEF Next

\* What a kill may disturb, for every step that does not cross anything.
LEMMA CleanNext ==
    ASSUME TInv, Clean, ~crossed', [Next]_vars
    PROVE  Clean'
<1>1. CASE Spawn
    BY <1>1, SpawnStep
<1>2. CASE SpawnFails
    BY <1>2, SpawnFailsStep
<1>3. CASE Spawned
    BY <1>3, SpawnedStep
<1>4. CASE Abandon
    BY <1>4, AbandonStep
<1>5. CASE Reap
    BY <1>5, ReapStep
<1>6. CASE FinishKeep
    BY <1>6, FinishKeepStep
<1>7. CASE FinishAbort
    BY <1>7, FinishAbortStep
<1>8. CASE FinishIsolated
    BY <1>8, FinishIsolatedStep
<1>9. CASE RemoveWorktree
    BY <1>9, RemoveWorktreeStep
<1>10. ASSUME NEW s \in Session, Prompt(s)
      PROVE  Clean'
    BY <1>10, PromptStep
<1>11. ASSUME NEW s \in Session, DropPrompt(s)
      PROVE  Clean'
    BY <1>11, DropPromptStep
<1>12. ASSUME NEW s \in Session, StartTurn(s)
      PROVE  Clean'
    BY <1>12, StartTurnStep
<1>13. ASSUME NEW s \in Session, EndTurn(s)
      PROVE  Clean'
    BY <1>13, EndTurnStep
<1>14. CASE Expire
    BY <1>14, ExpireStep
<1>15. ASSUME NEW d \in Disposers, EndDispose(d)
      PROVE  Clean'
    BY <1>15, EndDisposeStep
<1>16. CASE EnsureLive
    BY <1>16, EnsureLiveStep
<1>17. CASE FactoryAccepts
    BY <1>17, FactoryAcceptsStep
<1>18. CASE FactoryRefuses
    BY <1>18, FactoryRefusesStep
<1>19. CASE FactoryDeclines
    BY <1>19, FactoryDeclinesStep
<1>20. CASE OpenFails
    BY <1>20, OpenFailsStep
<1>21. CASE ReviveRegisters
    BY <1>21, ReviveRegistersStep
<1>22. CASE CreateFails
    BY <1>22, CreateFailsStep
<1>23. CASE ReviveAttaches
    BY <1>23, ReviveAttachesStep
<1>24. CASE StartupFails
    BY <1>24, StartupFailsStep
<1>25. CASE Revived
    BY <1>25, RevivedStep
<1>26. CASE KillAborts
    BY <1>26, KillAbortsStep
<1>27. CASE KillReleases
    BY <1>27, KillReleasesStep
<1>28. CASE Rescan
    BY <1>28, RescanStep
<1>29. CASE UNCHANGED vars
    BY <1>29 DEF vars, Clean, Sole, Entry, Starting, FirstRun, Present,
       Killed, Revival, OfWriter, Alone, Parking, Isolating, Writers, Writer, Quiet
<1> QED
    BY <1>1, <1>2, <1>3, <1>4, <1>5, <1>6, <1>7, <1>8, <1>9, <1>10, <1>11, <1>12, <1>13,
       <1>14, <1>15, <1>16, <1>17, <1>18, <1>19, <1>20, <1>21, <1>22, <1>23, <1>24, <1>25, <1>26,
       <1>27, <1>28, <1>29 DEF Next

\* What was crossed stays crossed.
LEMMA CrossedStays ==
    ASSUME TInv, [Next]_vars, ~crossed'
    PROVE  ~crossed
    BY DEF TInv, TypeOK, Next, vars, Spawn, SpawnFails, Spawned, Abandon, Reap, FinishKeep,
       FinishAbort, FinishIsolated, RemoveWorktree, Prompt, DropPrompt, StartTurn, EndTurn,
       Expire, EndDispose, EnsureLive, FactoryAccepts, FactoryRefuses, FactoryDeclines,
       OpenFails, ReviveRegisters, CreateFails, ReviveAttaches, StartupFails, Revived,
       KillAborts, KillReleases, Rescan

LEMMA NextStep ==
    ASSUME IInv, [Next]_vars
    PROVE  IInv'
<1>1. TInv'
    BY TypesNext DEF IInv
<1>2. ASSUME ~crossed'
      PROVE  Clean'
    BY <1>2, CrossedStays, CleanNext DEF IInv
<1> QED
    BY <1>1, <1>2 DEF IInv

\* Whenever an operator kills the agent, what agent-registry.ts,
\* agent-lifecycle.ts and the executor keep apart has its shape, and it agrees
\* until a kill crosses a startup, an executor's own dispose or a park.
THEOREM Invariance == Spec => []IInv
<1>1. IInv /\ [Next]_vars => IInv'
    BY NextStep
<1> QED
    BY <1>1, InitIInv, PTL DEF Spec

\* Every variable keeps its type, whatever the number of sessions and whenever
\* the agent is killed.
THEOREM TypeCorrect == Spec => []TypeOK
<1>1. IInv => TypeOK
    BY DEF IInv, TInv
<1> QED
    BY <1>1, Invariance, PTL

\* The agent's transcript does not have two sessions writing to it, a kill of
\* the first run, of a turn or of a revival that has not registered included
\* (the reason ensureLive shares a revival and park keeps the entry's session
\* until its dispose has returned).
THEOREM OneWriterHolds == Spec => []OneWriter
<1>1. IInv => OneWriter
    <2> SUFFICES ASSUME IInv, ~crossed
                 PROVE  Cardinality(Writers) <= 1
        BY DEF OneWriter
    <2>1. Writers \subseteq {Writer}
        BY DEF IInv, Clean, Sole
    <2>2. IsFiniteSet({Writer}) /\ Cardinality({Writer}) = 1
        BY FS_Singleton
    <2>3. Cardinality(Writers) <= Cardinality({Writer})
        BY <2>1, <2>2, FS_Subset
    <2> QED
        BY <2>2, <2>3
<1> QED
    BY <1>1, Invariance, PTL

\* No live session is out of the reach of the entry that names the agent or of
\* the revival that is building it, until a kill crosses something.
THEOREM NoOrphanHolds == Spec => []NoOrphan
<1>1. IInv => NoOrphan
    <2> SUFFICES ASSUME IInv, ~crossed, NEW s \in Session, sess[s] = "live", ag.s # s
                 PROVE  rev.pc = "attached" /\ rev.s = s
        BY DEF NoOrphan
    <2>1. s = Writer
        BY DEF IInv, Clean, Sole, Writers
    <2>2. rev.pc \in {"attached", "failing"} /\ rev.s = s
        BY <2>1 DEF Writer
    <2>3. rev.pc # "failing"
        BY <2>2, Basics DEF IInv, Clean, Revival, OfWriter, Disposers
    <2> QED
        BY <2>2, <2>3
<1> QED
    BY <1>1, Invariance, PTL

\* The dispose of a park or of an isolated run leaves the entry parked and
\* without a session, although createAgentSession's dispose wrapper
\* unregisters agents whose session ends, unless a kill crossed it.
THEOREM ParkKeepsEntryHolds == Spec => ParkKeepsEntry
<1>1. ASSUME IInv, ~crossed, [Next]_vars, NEW d \in {"park", "isolate"},
             by[d] # Null, by'[d] = Null
      PROVE  EndDispose(d)
    <2>1. d \in Disposers /\ by \in [Disposers -> Session \cup {Null}]
        BY <1>1 DEF IInv, TInv, TypeOK, Disposers
    <2>2. ~Expire
        BY <1>1, <2>1, Basics DEF Expire, IsParking, BeginDispose
    <2>3. ~FinishIsolated
        BY <1>1, <2>1, Basics DEF IInv, Clean, FirstRun, Present, FinishIsolated, Disposers
    <2>4. ~(Reap \/ FinishAbort \/ StartupFails \/ KillReleases)
        BY <1>1, <2>1 DEF Reap, FinishAbort, StartupFails, KillReleases, Release, BeginDispose
    <2>5. by' # by
        BY <1>1
    <2>6. ~(\/ Spawn \/ SpawnFails \/ Spawned \/ Abandon \/ FinishKeep \/ RemoveWorktree)
        BY <2>5 DEF Spawn, SpawnFails, Spawned, Abandon, FinishKeep, RemoveWorktree
    <2>7. ~(\E s \in Session : Prompt(s) \/ DropPrompt(s) \/ StartTurn(s) \/ EndTurn(s))
        BY <2>5 DEF Prompt, DropPrompt, StartTurn, EndTurn
    <2>8. ~(\/ EnsureLive \/ FactoryAccepts \/ FactoryRefuses \/ FactoryDeclines \/ OpenFails
            \/ ReviveRegisters \/ CreateFails \/ ReviveAttaches \/ Revived \/ KillAborts
            \/ Rescan)
        BY <2>5 DEF EnsureLive, FactoryAccepts, FactoryRefuses, FactoryDeclines, OpenFails,
           ReviveRegisters, CreateFails, ReviveAttaches, Revived, KillAborts, Rescan
    <2>9. PICK e \in Disposers : EndDispose(e)
        BY <1>1, <2>2, <2>3, <2>4, <2>5, <2>6, <2>7, <2>8 DEF Next, vars
    <2>10. e = d
        BY <1>1, <2>1, <2>9 DEF EndDispose
    <2> QED
        BY <2>9, <2>10
<1>2. ASSUME IInv, [Next]_vars
      PROVE  \A d \in {"park", "isolate"} :
                 ~crossed /\ by[d] # Null /\ by'[d] = Null => ag'.st = "parked" /\ ag'.s = Null
    BY <1>1, <1>2, EndDisposeEntry DEF IInv, Disposers
<1>3. ASSUME IInv, [Next]_vars
      PROVE  [\A d \in {"park", "isolate"} :
                  ~crossed /\ by[d] # Null /\ by'[d] = Null =>
                      ag'.st = "parked" /\ ag'.s = Null]_vars
    BY <1>2, <1>3
<1> QED
    BY <1>3, Invariance, PTL DEF Spec, ParkKeepsEntry

\* The agent is gone, and no revival that has yet to register is in flight.
Removed == ag.st = "none" /\ run.pc # "spawn" /\ rev.pc \notin {"factory", "open"}

\* A release that no revival is crossing is final, whatever else is at work:
\* late turns, the ends of disposes, the executor's wind-down, a second kill.
\* Only a scan lists the agent again.  (release never looks at #revivals: with
\* one in flight this fails, see ReleaseIsFinal.)
THEOREM RemovalIsFinal == Spec => [][Removed => Removed' \/ ag'.st = "parked"]_vars
<1>1. ASSUME IInv, [Next]_vars, Removed
      PROVE  Removed' \/ ag'.st = "parked"
    <2> USE <1>1 DEF Removed
    <2>1. ag \in AgentState /\ ag.st = "none"
        BY DEF IInv, TInv, TypeOK, AgentState
    <2>2. CASE \E d \in Disposers : EndDispose(d)
        <3>1. PICK d \in Disposers : EndDispose(d)
            BY <2>2
        <3>2. UnregisterUnlessParked(ag) = ag
            BY DEF UnregisterUnlessParked, Unregister
        <3>3. ag' = AfterDispose(d, ag)
            BY <3>1, <3>2 DEF EndDispose
        <3>4. ag'.st \in {"none", "parked"}
            BY <2>1, <3>3, Basics DEF AfterDispose, AgentState, SetStatus, Detach, Unregister,
               Orphan
        <3> QED
            BY <3>1, <3>4 DEF EndDispose, NoRevival, IInv, TInv, TypeOK
    <2>3. CASE Rescan
        BY <2>1, <2>3 DEF Rescan, Registered, AgentState
    <2>4. CASE FinishKeep \/ FinishAbort \/ FinishIsolated
               \/ \E s \in Session : Prompt(s) \/ DropPrompt(s) \/ StartTurn(s) \/ EndTurn(s)
        <3>1. \A st : SetStatus(ag, st) = ag /\ Adopt(ag) = ag
            BY DEF SetStatus, Adopt
        <3> QED
            BY <2>4, <3>1 DEF FinishKeep, FinishAbort, FinishIsolated, Prompt, DropPrompt,
               StartTurn, EndTurn, IInv, TInv, TypeOK
    <2>5. CASE KillReleases \/ KillAborts \/ Expire
        BY <2>1, <2>5 DEF KillReleases, KillAborts, Expire, Release, Orphan, Unregister,
           AgentState
    <2>6. CASE Revived \/ ReviveAttaches \/ CreateFails \/ StartupFails
        <3>1. \A s, st : Attach(ag, s) = ag /\ SetStatus(ag, st) = ag
            BY DEF Attach, SetStatus
        <3>2. UnregisterUnlessParked(ag) = ag /\ Orphan(ag).st = "none"
            BY <2>1 DEF UnregisterUnlessParked, Unregister, Orphan, AgentState
        <3>3. ag'.st = "none"
            BY <2>6, <3>1, <3>2 DEF Revived, ReviveAttaches, CreateFails, StartupFails
        <3>4. run' = run /\ rev'.pc \in {"none", "attached", "failing"}
            <4>1. CASE Revived \/ CreateFails
                BY <4>1 DEF Revived, CreateFails, NoRevival
            <4>2. CASE ReviveAttaches \/ StartupFails
                BY <4>2 DEF ReviveAttaches, StartupFails, IInv, TInv, TypeOK
            <4> QED
                BY <2>6, <4>1, <4>2
        <3> QED
            BY <3>3, <3>4
    <2>7. CASE \/ EnsureLive \/ FactoryAccepts \/ FactoryRefuses \/ FactoryDeclines
               \/ OpenFails \/ ReviveRegisters \/ RemoveWorktree
        BY <2>7 DEF EnsureLive, FactoryAccepts, FactoryRefuses, FactoryDeclines, OpenFails,
           ReviveRegisters, RemoveWorktree
    <2>8. CASE \/ Spawn \/ SpawnFails \/ Spawned \/ Abandon \/ Reap
        <3>1. UnregisterUnlessParked(ag) = ag /\ \A s : Attach(ag, s) = ag
            BY DEF UnregisterUnlessParked, Unregister, Attach
        <3>2. ag' = ag /\ rev' = rev /\ run'.pc \in Ends \cup {"abandoned", "done"}
            BY <2>8, <3>1 DEF Spawn, SpawnFails, Spawned, Abandon, Reap, IInv, TInv, TypeOK
        <3> QED
            BY <3>2, AgentAssumption
    <2>9. CASE UNCHANGED vars
        BY <2>9 DEF vars
    <2> QED
        BY <2>2, <2>3, <2>4, <2>5, <2>6, <2>7, <2>8, <2>9 DEF Next
<1>2. ASSUME IInv, [Next]_vars
      PROVE  [Removed => Removed' \/ ag'.st = "parked"]_vars
    BY <1>1, <1>2
<1> QED
    BY <1>2, Invariance, PTL DEF Spec

=============================================================================
