--------------------------- MODULE ToolChoiceQueue ---------------------------
(***************************************************************************)
(* The choices a session forces on its model's next calls, the queue they  *)
(* wait in, and the previews the resolve tool applies                      *)
(* (session/tool-choice-queue.ts, tools/resolve.ts, and the places in      *)
(* session/agent-session.ts that push, serve, resolve and reject).         *)
(*                                                                         *)
(* A user's force is the sequence <<"forced", "none">>: one call that must *)
(* use the tool, one that may use none. The eager to-do is a sequence of   *)
(* one. Labels are kept, as the code finds directives by them; one that    *)
(* was requeued, once or more often, is "user-force-requeued".             *)
(***************************************************************************)
EXTENDS Naturals, SequencesExt

CONSTANTS MaxForces,    \* bound on the forces of the user
          MaxPrompts,   \* bound on the prompts
          MaxToggles,   \* bound on the changes of the active tools
          Previews,     \* staged actions
          Calls,        \* calls of the resolve tool under way
          NoPreview

ASSUME BoundAssumption == MaxForces \in Nat /\ MaxPrompts \in Nat /\ MaxToggles \in Nat
ASSUME PreviewAssumption == NoPreview \notin Previews

VARIABLES queue,        \* #queue: directives, each with what is left of it
          inFlight,     \* #inFlight: a set of at most one [dir, choice]
          active,       \* whether the forced tool is among the active ones
          run,          \* the agent: off, an eager to-do coming, between
                        \* two calls, called, over
          served,       \* what was resolved of each force, in order
          previews,     \* #pendingInvokers, the newest last
          calls,        \* the preview each resolve call is applying
          applied,      \* how often each preview was applied or discarded,
                        \* 2 for more than once
          staged,       \* the previews that were ever registered
          count

vars == <<queue, inFlight, active, run, served, previews, calls, applied, staged, count>>

Forces == 1..MaxForces
Eager == 0                          \* the eager to-do's identity

Init ==
    /\ queue = <<>> /\ inFlight = {} /\ active = TRUE /\ run = "off"
    /\ served = [f \in Forces |-> <<>>]
    /\ previews = <<>> /\ calls = [c \in Calls |-> NoPreview]
    /\ applied = [p \in Previews |-> 0] /\ staged = {}
    /\ count = [forces |-> 0, prompts |-> 0, toggles |-> 0]

Directive(id, label, left) == [id |-> id, label |-> label, left |-> left]

Yields == {"forced", "none", "eager"}
Directives == [id : Forces \union {Eager},
               label : {"user-force", "user-force-requeued", "eager-todo"}, left : Seq(Yields)]

\* Array.filter: the entries of q that are in S, in order.
Keep(q, S) ==
    LET kept[n \in 0..Len(q)] == IF n = 0 THEN <<>>
                                 ELSE IF q[n] \in S THEN Append(kept[n - 1], q[n])
                                 ELSE kept[n - 1]
    IN  kept[Len(q)]

-----------------------------------------------------------------------------
(* The queue's operations, on a state q = [queue, inFlight, served]. *)

Now == [queue |-> queue, inFlight |-> inFlight, served |-> served]

Becomes(q) == queue' = q.queue /\ inFlight' = q.inFlight /\ served' = q.served

NextKeepsOld(q) ==      \* mutant: adds to what is in flight
    IF q.queue = <<>> \/ q.queue[1].left = <<>> THEN q
    ELSE [q EXCEPT !.queue[1].left = Tail(@),
                   !.inFlight = @ \union {[dir |-> q.queue[1], choice |-> q.queue[1].left[1]]}]

\* nextToolChoice: exhausted directives leave, the next one's head is in
\* flight, in place of one that was still there. (An exhausted directive stays
\* until the next call passes it; that is kept for a user's force, whose label
\* prompts look for, and for no other.)
NextToolChoice(q) ==
    LET live == {i \in DOMAIN q.queue : q.queue[i].left # <<>>}
        at   == CHOOSE i \in live : \A k \in live : i <= k
        head == q.queue[at]
        left == Tail(head.left)
        rest == SubSeq(q.queue, at + 1, Len(q.queue))
    IN IF live = {} THEN [q EXCEPT !.queue = <<>>]
       ELSE [q EXCEPT !.queue = IF left # <<>> \/ head.label = "user-force"
                                THEN <<[head EXCEPT !.left = left]>> \o rest ELSE rest,
                      !.inFlight = {[dir |-> head, choice |-> Head(head.left)]}]

ResolveKeeps(q) ==      \* mutant: the resolved yield stays in flight
    [q EXCEPT !.served = [f \in Forces |->
        q.served[f] \o (IF \E y \in q.inFlight : y.dir.id = f
                        THEN <<(CHOOSE y \in q.inFlight : TRUE).choice>> ELSE <<>>)]]

\* resolve: the yield was served.
Resolve(q) ==
    [q EXCEPT !.inFlight = {},
              !.served = [f \in Forces |->
                  q.served[f] \o (IF \E y \in q.inFlight : y.dir.id = f
                                  THEN <<(CHOOSE y \in q.inFlight : TRUE).choice>>
                                  ELSE <<>>)]]

\* reject: only a user's force asks to be requeued, which puts the lost yield
\* alone at the head, under another label.
Reject(q) ==
    [q EXCEPT !.inFlight = {},
              !.queue = (IF \E y \in q.inFlight : y.dir.id # Eager
                         THEN LET y == CHOOSE y \in q.inFlight : TRUE
                              IN <<Directive(y.dir.id, "user-force-requeued", <<y.choice>>)>>
                         ELSE <<>>) \o @]

RemoveByLabel(q, label) ==
    LET r == IF \E y \in q.inFlight : y.dir.label = label THEN Reject(q) ELSE q
    IN [r EXCEPT !.queue = Keep(@, {d \in Directives : d.label # label})]

-----------------------------------------------------------------------------
(* The session. *)

\* setForcedToolChoice: the user forces an active tool, at any time.
SetForcedToolChoice ==
    /\ active /\ count.forces < MaxForces
    /\ LET f == count.forces + 1 IN
       /\ queue' = Append(queue, Directive(f, "user-force", <<"forced", "none">>))
       /\ count' = [count EXCEPT !.forces = f]
    /\ UNCHANGED <<inFlight, active, run, served, previews, calls, applied, staged>>

\* setActiveToolsByName: the set of active tools gains or loses the forced one.
ToggleTool ==
    /\ count.toggles < MaxToggles
    /\ active' = ~active /\ count' = [count EXCEPT !.toggles = @ + 1]
    /\ UNCHANGED <<queue, inFlight, run, served, previews, calls, applied, staged>>

\* A prompt of the user starts. It may come with an eager to-do, unless a
\* directive with the label of a user's force is queued by then.
Prompt ==
    /\ run = "off" /\ count.prompts < MaxPrompts
    /\ \/ run' = "between"
       \/ /\ run' = "eager"
          /\ \A i \in DOMAIN queue : queue[i].label # "user-force"
    /\ count' = [count EXCEPT !.prompts = @ + 1]
    /\ UNCHANGED <<queue, inFlight, active, served, previews, calls, applied, staged>>

\* Its images are normalised: the to-do goes behind whatever was forced meanwhile.
PushEager ==
    /\ run = "eager" /\ run' = "between"
    /\ queue' = Append(queue, Directive(Eager, "eager-todo", <<"eager">>))
    /\ UNCHANGED <<inFlight, active, served, previews, calls, applied, staged, count>>

\* nextHardToolChoice, before a model call. A choice whose tool is inactive is
\* rejected; "none" is always good, and the eager to-do's tool is always active.
NextHardToolChoice ==
    /\ run = "between" /\ run' = "called"
    /\ LET q == NextToolChoice(Now) IN
       Becomes(IF ~active /\ queue # <<>> /\ \E y \in q.inFlight : y.choice = "forced"
               THEN Reject(q) ELSE q)
    /\ UNCHANGED <<active, previews, calls, applied, staged, count>>

\* A turn ends: one that was aborted or failed rejects the yield in flight,
\* any other resolves it. A failed turn may be retried. A turn that ended well
\* has waited for its tools.
TurnEnd ==
    /\ run = "called"
    /\ \/ /\ \A c \in Calls : calls[c] = NoPreview
          /\ Becomes(Resolve(Now)) /\ run' \in {"between", "over"}
       \/ Becomes(Reject(Now)) /\ run' \in {"between", "over"}
    /\ UNCHANGED <<active, previews, calls, applied, staged, count>>

\* The run throws before its turn ends. An abort of the user makes up for the
\* turn_end that did not come; nothing else does.
RunFails ==
    /\ run = "called" /\ run' = "over"
    /\ \E aborted \in BOOLEAN : Becomes(IF aborted THEN Reject(Now) ELSE Now)
    /\ UNCHANGED <<active, previews, calls, applied, staged, count>>

\* The prompt returns, and removes what is left of the eager to-do.
PromptReturns ==
    /\ run = "over" /\ run' = "off"
    /\ Becomes(RemoveByLabel(Now, "eager-todo"))
    /\ UNCHANGED <<active, previews, calls, applied, staged, count>>

-----------------------------------------------------------------------------
(* Previews. *)

\* registerPendingInvoker: p is the newest, and there once.
Registered(p, s) == Append(Keep(s, Previews \ {p}), p)

\* A tool stages a preview (queueResolveHandler).
Stage(p) ==
    /\ run = "called" /\ p \notin staged
    /\ previews' = Registered(p, previews) /\ staged' = staged \union {p}
    /\ UNCHANGED <<queue, inFlight, active, run, served, calls, applied, count>>

\* A resolve call starts to apply the newest preview. Calls of one batch run
\* side by side.
ResolveCalled(c) ==
    /\ run = "called" /\ calls[c] = NoPreview /\ previews # <<>>
    /\ calls' = [calls EXCEPT ![c] = Last(previews)]
    /\ UNCHANGED <<queue, inFlight, active, run, served, previews, applied, staged, count>>

RemoveHead(p, s) == Front(s)        \* mutant: drops the newest, not this one

\* removePendingInvoker.
Without(p, s) == Keep(s, Previews \ {p})

\* The call has applied or discarded its preview, which leaves; or applying it
\* threw, and the preview is registered anew; or discarding it threw, and it
\* stays where it is. Each may be after the turn was aborted.
ResolveReturns(c) ==
    /\ calls[c] # NoPreview
    /\ calls' = [calls EXCEPT ![c] = NoPreview]
    /\ \/ /\ previews' = IF previews = <<>> THEN <<>> ELSE Without(calls[c], previews)
          /\ applied' = [applied EXCEPT ![calls[c]] = IF @ < 2 THEN @ + 1 ELSE @]
       \/ previews' = Registered(calls[c], previews) /\ UNCHANGED applied
       \/ UNCHANGED <<previews, applied>>
    /\ UNCHANGED <<queue, inFlight, active, run, served, staged, count>>

Next ==
    \/ SetForcedToolChoice
    \/ ToggleTool
    \/ Prompt
    \/ PushEager
    \/ NextHardToolChoice
    \/ TurnEnd
    \/ RunFails
    \/ PromptReturns
    \/ \E p \in Previews : Stage(p)
    \/ \E c \in Calls : ResolveCalled(c) \/ ResolveReturns(c)

Spec == Init /\ [][Next]_vars

-----------------------------------------------------------------------------
\* The type invariant of the queue, and that one choice at most is in flight.
TypeOK ==
    /\ queue \in Seq(Directives)
    /\ inFlight \subseteq [dir : Directives, choice : Yields] /\ Cardinality(inFlight) <= 1
    /\ active \in BOOLEAN /\ run \in {"off", "eager", "between", "called", "over"}
    /\ served \in [Forces -> Seq(Yields)]
    /\ previews \in Seq(Previews) /\ calls \in [Calls -> Previews \union {NoPreview}]
    /\ applied \in [Previews -> 0..2] /\ staged \subseteq Previews

Times(f, choice) == Cardinality({i \in DOMAIN served[f] : served[f][i] = choice})

\* However often it is rejected, requeued, found inactive or left behind by a
\* run that threw, each call a user forced is served at most once.
ServedOnce == \A f \in Forces, c \in Yields : Times(f, c) <= 1

\* A preview that was staged can still be resolved until it was, whichever
\* other previews came, went or failed to apply meanwhile.
PreviewKept ==
    \A p \in staged : applied[p] = 0 => Contains(previews, p)

=============================================================================
