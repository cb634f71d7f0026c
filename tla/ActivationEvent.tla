--------------------------- MODULE ActivationEvent ---------------------------
(***************************************************************************)
(* What SAFS's thread class promises the code built on activate(), wait()  *)
(* and stop(): an event that remembers one activation.  wait() returns     *)
(* only when the event is set or the thread has been stopped, clears the   *)
(* event, and does return once one of the two holds.                       *)
(***************************************************************************)
VARIABLES
  flag,                     \* an activation that no wait() has consumed
  stopped,
  waiting                   \* the thread is inside wait()

eventVars == <<flag, stopped, waiting>>

EventInit ==
  /\ flag = FALSE
  /\ stopped = FALSE
  /\ waiting = FALSE

Activate ==
  /\ flag' = TRUE
  /\ UNCHANGED <<stopped, waiting>>

Stop ==
  /\ stopped' = TRUE
  /\ UNCHANGED <<flag, waiting>>

CallWait ==
  /\ ~ waiting
  /\ waiting' = TRUE
  /\ UNCHANGED <<flag, stopped>>

ReturnFromWait ==
  /\ waiting
  /\ flag \/ stopped
  /\ flag' = FALSE
  /\ waiting' = FALSE
  /\ UNCHANGED stopped

EventNext == Activate \/ Stop \/ CallWait \/ ReturnFromWait

EventSafety == EventInit /\ [][EventNext]_eventVars

EventSpec == EventSafety /\ WF_eventVars(ReturnFromWait)
==============================================================================
