-------------------------- MODULE RoundTimerProofs --------------------------
(***************************************************************************)
(* The leader always has a timer, for any number of timer goroutines.      *)
(***************************************************************************)
EXTENDS RoundTimer, TLAPS

\* A goroutine step of t changes no other goroutine and nothing of the main loop; it
\* preserves the invariant because only the current goroutine counts as a timer, and it
\* gives up the flag before it sends and sends before it ends.
LEMMA GoroutineStep ==
  ASSUME NEW t \in Timers, IInv, Goroutine(t)
  PROVE  IInv'
<1> USE TimersAssumption DEF IInv, TypeOK, LoopStates, TimerStates, RunningIsArmed, Covered
<1>1. CASE Expire(t)
  BY <1>1 DEF Expire, loopVars
<1>2. CASE Quit(t)
  BY <1>2 DEF Quit, loopVars
<1>3. CASE MarkNotRunning(t)
  BY <1>3 DEF MarkNotRunning, loopVars
<1>4. CASE SendEvent(t)
  BY <1>4 DEF SendEvent, loopVars
<1> QED
  BY <1>1, <1>2, <1>3, <1>4 DEF Goroutine

\* A step of the main loop preserves the invariant: a leader without a timer finds the
\* flag cleared, and a node that is stopping its timer does not lead.
LEMMA LoopStep ==
  ASSUME IInv, HandleOther \/ HandleT1 \/ Loop
  PROVE  IInv'
<1> USE TimersAssumption DEF IInv, TypeOK, LoopStates, TimerStates, RunningIsArmed, Covered
<1>1. CASE HandleOther
  BY <1>1 DEF HandleOther
<1>2. CASE HandleT1
  BY <1>2 DEF HandleT1
<1>3. CASE EnsureT1TimerState
  BY <1>3 DEF EnsureT1TimerState
<1>4. CASE StopT1Timer
  BY <1>4 DEF StopT1Timer
<1>5. CASE StartT1Timer
  BY <1>5 DEF StartT1Timer
<1> QED
  BY <1>1, <1>2, <1>3, <1>4, <1>5 DEF Loop

\* The invariant holds in every reachable state, however the goroutines of earlier
\* timers interleave with ensureT1TimerState.
THEOREM TimerInvariance == Spec => []IInv
<1>1. Init => IInv
  BY TimersAssumption
     DEF Init, IInv, TypeOK, LoopStates, TimerStates, RunningIsArmed, Covered
<1>2. IInv /\ [Next]_vars => IInv'
  <2> SUFFICES ASSUME IInv, [Next]_vars PROVE IInv'
    OBVIOUS
  <2>1. CASE Next
    BY <2>1, GoroutineStep, LoopStep DEF Next
  <2>2. CASE UNCHANGED vars
    BY <2>2 DEF vars, loopVars, IInv, TypeOK, RunningIsArmed, Covered
  <2> QED
    BY <2>1, <2>2
<1> QED
  BY <1>1, <1>2, PTL DEF Spec

\* A leader waiting in the main loop's select has a T1 event to come: ensureT1TimerState
\* never takes a timer for running that is not.
THEOREM LeaderAlwaysHasTimer == Spec => []LeaderHasTimer
<1>1. IInv => LeaderHasTimer
  BY DEF IInv, Covered, LeaderHasTimer
<1> QED
  BY <1>1, TimerInvariance, PTL
=============================================================================
