---------------------------- MODULE ManagedTimer ----------------------------
(***************************************************************************)
(* Starting and stopping the timer goroutine of a ManagedAwareness         *)
(* (crdt/awareness.go: Start, Stop, run, Destroy).  Every Start makes a    *)
(* new pair of channels and a goroutine, here the run with the next        *)
(* number.  Stop takes the current pair under m.mu and then, without the   *)
(* lock, closes the one, waits for the other and resets stopOnce.          *)
(* What a tick does is module Awareness.                                   *)
(***************************************************************************)
EXTENDS Integers

CONSTANTS Callers,  \* goroutines of the application
          MaxRuns   \* bound on the calls of Start that start a run

VARIABLES
  running,   \* m.running
  current,   \* the run whose channels are m.stopCh and m.doneCh (0: none)
  onceUsed,  \* m.stopOnce has run its function
  closed,    \* runs whose stop channel is closed
  live,      \* runs whose goroutine has not exited
  pc,        \* where a caller is in Stop
  taken      \* the run a Stop took

vars == <<running, current, onceUsed, closed, live, pc, taken>>

Init ==
  /\ running = FALSE
  /\ current = 0
  /\ onceUsed = FALSE
  /\ closed = {}
  /\ live = {}
  /\ pc = [t \in Callers |-> "idle"]
  /\ taken = [t \in Callers |-> 0]

\* A Start that finds the timer running changes nothing.
Start(t) ==
  /\ pc[t] = "idle"
  /\ ~running /\ current < MaxRuns
  /\ running' = TRUE
  /\ current' = current + 1
  /\ live' = live \cup {current'}
  /\ UNCHANGED <<onceUsed, closed, pc, taken>>

\* Stop under m.mu takes the channels of the current run.
Stop(t) ==
  /\ pc[t] = "idle" /\ running
  /\ taken' = [taken EXCEPT ![t] = current]
  /\ running' = FALSE
  /\ pc' = [pc EXCEPT ![t] = "close"]
  /\ UNCHANGED <<current, onceUsed, closed, live>>

\* Stop finds the timer not running and returns.
StopNothing(t) ==
  /\ pc[t] = "idle" /\ ~running
  /\ pc' = [pc EXCEPT ![t] = "returned"]
  /\ UNCHANGED <<running, current, onceUsed, closed, live, taken>>

\* stopOnce.Do(func() { close(stop) })
StopClose(t) ==
  /\ pc[t] = "close"
  /\ closed' = IF onceUsed THEN closed ELSE closed \cup {taken[t]}
  /\ onceUsed' = TRUE
  /\ pc' = [pc EXCEPT ![t] = "join"]
  /\ UNCHANGED <<running, current, live, taken>>

\* <-done
StopJoin(t) ==
  /\ pc[t] = "join" /\ taken[t] \notin live
  /\ pc' = [pc EXCEPT ![t] = "reset"]
  /\ UNCHANGED <<running, current, onceUsed, closed, live, taken>>

\* m.stopOnce = sync.Once{}, and Stop returns.
StopReset(t) ==
  /\ pc[t] = "reset"
  /\ onceUsed' = FALSE
  /\ taken' = [taken EXCEPT ![t] = 0]
  /\ pc' = [pc EXCEPT ![t] = "returned"]
  /\ UNCHANGED <<running, current, closed, live>>

\* The caller goes on after Stop.
Proceed(t) ==
  /\ pc[t] = "returned"
  /\ pc' = [pc EXCEPT ![t] = "idle"]
  /\ UNCHANGED <<running, current, onceUsed, closed, live, taken>>

\* run returns when it finds its stop channel closed, and closes done.
Exit(r) ==
  /\ r \in live \cap closed
  /\ live' = live \ {r}
  /\ UNCHANGED <<running, current, onceUsed, closed, pc, taken>>

Next ==
  \/ \E t \in Callers : \/ Start(t) \/ Stop(t) \/ StopNothing(t)
                        \/ StopClose(t) \/ StopJoin(t) \/ StopReset(t) \/ Proceed(t)
  \/ \E r \in 1 .. MaxRuns : Exit(r)

Spec == Init /\ [][Next]_vars

\* A Stop under way goes on, and the select of run() sees a closed channel.
Fairness ==
  /\ \A t \in Callers : WF_vars(StopClose(t) \/ StopJoin(t) \/ StopReset(t))
  /\ \A r \in 1 .. MaxRuns : WF_vars(Exit(r))

FairSpec == Spec /\ Fairness

-----------------------------------------------------------------------------
\* While m.running holds, the goroutine of the latest Start is alive and nobody
\* has stopped it: no Stop of an earlier run reaches it.
RunningIsLive == running => current \in live \ closed

\* No two calls of Stop take the same run, and the channel a Stop is about to
\* close is open: close(stop) never panics.
StopOwnsItsRun ==
  \A t \in Callers : pc[t] \in {"close", "join", "reset"} =>
    /\ taken[t] \in 1 .. current
    /\ pc[t] = "close" => taken[t] \notin closed
    /\ \A u \in Callers : u # t => taken[u] # taken[t]

-----------------------------------------------------------------------------
\* What the comment on Stop claims, and the code does not do when two goroutines
\* use the value: a Stop that waits for the goroutine to exit returns.
StopReturns == \A t \in Callers : pc[t] = "join" ~> pc[t] = "returned"

=============================================================================
