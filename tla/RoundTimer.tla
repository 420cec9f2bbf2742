----------------------------- MODULE RoundTimer -----------------------------
(***************************************************************************)
(* The T1 timer of a node, partition/round.go: the main loop, which starts *)
(* and stops the timer after every event it has handled, and the goroutine *)
(* each start leaves behind, which may outlive its cancellation.           *)
(*                                                                         *)
(* Only startT1Timer and stopT1Timer touch n.timer.cancel, so a goroutine  *)
(* is cancelled exactly when it is not the current one.  A select with     *)
(* more than one case ready takes any of them.                             *)
(***************************************************************************)
CONSTANTS
  Timers,   \* timer goroutines that may exist at a time (a bound)
  None      \* n.timer.cancel is nil

ASSUME TimersAssumption == None \notin Timers

VARIABLES
  loop,       \* where the main loop is
  lead,       \* shouldBeRunning: the node leads and is not recovering
  isRunning,  \* n.timer.isRunning
  event,      \* n.timer.event, a channel of capacity one, holds a token
  current,    \* the goroutine n.timer.cancel would cancel
  timer       \* timer[t]: where goroutine t is, "none" if it does not exist

loopVars == <<loop, lead>>
vars == <<loopVars, isRunning, event, current, timer>>

LoopStates == {"select", "ensure", "stop", "start", "spawn"}
TimerStates == {"none", "waiting", "fired", "sending"}

Init ==
  /\ loop = "select" /\ lead = FALSE
  /\ isRunning = FALSE /\ event = FALSE
  /\ current = None /\ timer = [t \in Timers |-> "none"]

-----------------------------------------------------------------------------
(***************************************************************************)
(* The main loop.                                                          *)
(***************************************************************************)
\* Any event but T1: it may change the leader or the status.
HandleOther ==
  /\ loop = "select" /\ loop' = "ensure"
  /\ lead' \in BOOLEAN
  /\ UNCHANGED <<isRunning, event, current, timer>>

HandleT1 ==
  /\ loop = "select" /\ event
  /\ loop' = "ensure" /\ event' = FALSE
  /\ UNCHANGED <<lead, isRunning, current, timer>>

\* Fault model: a timer that is running is restarted.
RestartT1TimerState ==
  /\ loop = "ensure"
  /\ loop' = IF lead THEN "start" ELSE IF isRunning THEN "stop" ELSE "select"
  /\ UNCHANGED <<lead, isRunning, event, current, timer>>

EnsureT1TimerState ==
  /\ loop = "ensure"
  /\ loop' = IF lead /\ ~ isRunning THEN "start"
             ELSE IF ~ lead /\ isRunning THEN "stop" ELSE "select"
  /\ UNCHANGED <<lead, isRunning, event, current, timer>>

\* On its own, or as the first thing startT1Timer does.
StopT1Timer ==
  /\ loop \in {"stop", "start"}
  /\ loop' = IF loop = "start" THEN "spawn" ELSE "select"
  /\ current' = None /\ isRunning' = FALSE
  /\ UNCHANGED <<lead, event, timer>>

StartT1Timer ==
  /\ loop = "spawn" /\ loop' = "select"
  /\ \E t \in Timers : /\ timer[t] = "none"
                       /\ timer' = [timer EXCEPT ![t] = "waiting"]
                       /\ current' = t
  /\ isRunning' = TRUE
  /\ UNCHANGED <<lead, event>>

-----------------------------------------------------------------------------
(***************************************************************************)
(* A timer goroutine.                                                      *)
(***************************************************************************)
Expire(t) ==
  /\ timer[t] = "waiting"
  /\ timer' = [timer EXCEPT ![t] = "fired"]
  /\ UNCHANGED <<loopVars, isRunning, event, current>>

\* The context is done before the time is up, or before the event can be sent.
Quit(t) ==
  /\ timer[t] \in {"waiting", "sending"} /\ t # current
  /\ timer' = [timer EXCEPT ![t] = "none"]
  /\ UNCHANGED <<loopVars, isRunning, event, current>>

\* Fault model: the flag stays set.
KeepRunning(t) ==
  /\ timer[t] = "fired"
  /\ timer' = [timer EXCEPT ![t] = "sending"]
  /\ UNCHANGED <<loopVars, isRunning, event, current>>

\* The store also happens when the goroutine has been cancelled meanwhile, and
\* then it may hit the flag of its successor.
MarkNotRunning(t) ==
  /\ timer[t] = "fired"
  /\ timer' = [timer EXCEPT ![t] = "sending"]
  /\ isRunning' = FALSE
  /\ UNCHANGED <<loopVars, event, current>>

SendEvent(t) ==
  /\ timer[t] = "sending" /\ ~ event
  /\ timer' = [timer EXCEPT ![t] = "none"]
  /\ event' = TRUE
  /\ UNCHANGED <<loopVars, isRunning, current>>

-----------------------------------------------------------------------------
Loop == EnsureT1TimerState \/ StopT1Timer \/ StartT1Timer
Goroutine(t) == Expire(t) \/ Quit(t) \/ MarkNotRunning(t) \/ SendEvent(t)

Next == HandleOther \/ HandleT1 \/ Loop \/ \E t \in Timers : Goroutine(t)

Spec == Init /\ [][Next]_vars

(***************************************************************************)
(* The runtime runs every goroutine that can run.  A select picks a ready  *)
(* case at random, so a case that is ready over and over is taken.         *)
(***************************************************************************)
Fairness ==
  /\ WF_vars(Loop)
  /\ \A t \in Timers : WF_vars(Goroutine(t)) /\ SF_vars(SendEvent(t))
  /\ SF_vars(HandleT1)

FairSpec == Spec /\ Fairness

-----------------------------------------------------------------------------
(***************************************************************************)
(* Properties.                                                             *)
(***************************************************************************)

\* Every variable keeps its type.
TypeOK ==
  /\ loop \in LoopStates /\ lead \in BOOLEAN
  /\ isRunning \in BOOLEAN /\ event \in BOOLEAN
  /\ current \in Timers \cup {None}
  /\ timer \in [Timers -> TimerStates]

\* A leader that waits for events is never left without a T1 event to come: one is in
\* the channel, or a goroutine that nobody has cancelled will send one.  isRunning is
\* all ensureT1TimerState looks at, and late goroutines clear it for their successors.
LeaderHasTimer ==
  loop = "select" /\ lead =>
    event \/ (current # None /\ timer[current] # "none")

\* A node that stays the leader keeps handling T1 events, however many other events
\* come in between, restart its timer or cancel a goroutine about to send.
LeaderKeepsProposing == <>[]lead => []<><<HandleT1>>_vars

(***************************************************************************)
(* The inductive invariant: the flag is only set while the current         *)
(* goroutine has yet to clear it.                                          *)
(***************************************************************************)
RunningIsArmed ==
  isRunning => current # None /\ timer[current] \in {"waiting", "fired"}

\* Where the timer will be started, or the leader has one.
Covered ==
  lead => \/ loop \in {"start", "spawn"}
          \/ loop = "ensure" /\ ~ isRunning
          \/ event
          \/ current # None /\ timer[current] # "none"

IInv ==
  /\ TypeOK
  /\ RunningIsArmed
  /\ loop = "stop" => ~ lead
  /\ Covered
=============================================================================
