----------------------------- MODULE RemoteCall -----------------------------
(***************************************************************************)
(* What the caller of an accelerator is promised: a call hands over one     *)
(* piece of work, the accelerator serves it once, and only then does the    *)
(* call return.  RpuDoorbell keeps the promise for a batch and KernelLane   *)
(* for one kernel job; the posted writes, the interrupts and the sleeps of  *)
(* both are invisible here.                                                 *)
(***************************************************************************)
CONSTANTS Callers, NoCaller

VARIABLES phase,    \* "idle", "called" (submitted, not served), "served"
          caller    \* whose call is in progress

callVars == <<phase, caller>>

CallInit == phase = "idle" /\ caller = NoCaller

Call(c) == /\ phase = "idle"
           /\ phase' = "called" /\ caller' = c

Serve == /\ phase = "called"
         /\ phase' = "served"
         /\ UNCHANGED caller

Return == /\ phase = "served"
          /\ phase' = "idle" /\ caller' = NoCaller

CallNext == (\E c \in Callers : Call(c)) \/ Serve \/ Return

\* What may happen, and with it that a call is served and returns.
CallSafety == CallInit /\ [][CallNext]_callVars
CallSpec   == CallSafety /\ WF_callVars(Serve) /\ WF_callVars(Return)
=============================================================================
