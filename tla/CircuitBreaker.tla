--------------------------- MODULE CircuitBreaker ---------------------------
(***************************************************************************)
(* CircuitBreaker (gateway/core/circuit_breaker.py): the breaker of one    *)
(* upstream, shared by every task that calls it.                           *)
(*                                                                         *)
(* _lock is held over code that never suspends, so the admission, the      *)
(* outcome and the reset of a call are each one step.  Between them the    *)
(* upstream call is awaited, and any other step may happen: a call that    *)
(* was admitted in one state may end in another.                           *)
(*                                                                         *)
(* A caller is any task with a call in flight; a refused call raises       *)
(* CircuitOpenError, changes nothing and is not a step.  Left out: the     *)
(* gauge, logging, and the clock, of which the code only asks whether the  *)
(* recovery window since the last failure is over.                         *)
(***************************************************************************)
EXTENDS Integers, FiniteSets

CONSTANTS
  Callers,            \* tasks that use the breaker
  FailureThreshold,   \* config.failure_threshold
  SuccessThreshold,   \* config.success_threshold
  MaxFaults           \* bound: calls of one behaviour that fail or are cancelled

ASSUME ThresholdsAssumption ==
  /\ FailureThreshold \in Nat \ {0}
  /\ SuccessThreshold \in Nat \ {0}
  /\ MaxFaults \in Nat

VARIABLES
  state,         \* "closed", "open", "half_open"
  failureCount,  \* failure_count
  successCount,  \* success_count
  windowOver,    \* recovery_timeout has elapsed since last_failure_time
  slot,          \* _half_open_in_progress
  caller,        \* "idle", or in flight: a "plain" call or one that took the slot, a "probe"
  faults         \* how much of MaxFaults is used

vars == <<state, failureCount, successCount, windowOver, slot, caller, faults>>

InFlight == {c \in Callers : caller[c] # "idle"}

Probes == {c \in Callers : caller[c] = "probe"}

Init ==
  /\ state = "closed"
  /\ failureCount = 0 /\ successCount = 0
  /\ windowOver = TRUE      \* last_failure_time is None
  /\ slot = FALSE
  /\ caller = [c \in Callers |-> "idle"]
  /\ faults = 0

-----------------------------------------------------------------------------

(* Variant: a producer holds events back for as long as the circuit is open. *)
ProbeNeverDue == state # "open"

(* probe_due: whether a producer that buffers on an open circuit should let  *)
(* an event through.                                                         *)
ProbeDue == state # "open" \/ (~slot /\ windowOver)

(* call, up to the await: _check_state admits the caller, as the probe      *)
(* unless the circuit is closed.                                            *)
Call(c) ==
  /\ caller[c] = "idle"
  /\ \/ /\ state = "closed"
        /\ caller' = [caller EXCEPT ![c] = "plain"]
        /\ UNCHANGED <<state, successCount, slot>>
     \/ /\ state = "open" /\ windowOver /\ ~slot
        /\ state' = "half_open"
        /\ successCount' = 0
        /\ slot' = TRUE
        /\ caller' = [caller EXCEPT ![c] = "probe"]
     \/ /\ state = "half_open" /\ ~slot
        /\ slot' = TRUE
        /\ caller' = [caller EXCEPT ![c] = "probe"]
        /\ UNCHANGED <<state, successCount>>
  /\ UNCHANGED <<failureCount, windowOver, faults>>

(* _check_state raises CircuitOpenError. *)
Refuses == state # "closed" /\ (slot \/ (state = "open" /\ ~windowOver))

Return(c) ==
  /\ caller[c] # "idle"
  /\ caller' = [caller EXCEPT ![c] = "idle"]

Fault ==
  /\ faults < MaxFaults
  /\ faults' = faults + 1

(* Variant: a success takes back one failure instead of forgetting them all. *)
SucceedForgivingOne(c) ==
  /\ Return(c)
  /\ failureCount' = failureCount - 1
  /\ UNCHANGED <<state, successCount, windowOver, slot, faults>>

(* _on_success: whoever returns while the circuit is half open counts and   *)
(* frees the slot.                                                          *)
Succeed(c) ==
  /\ Return(c)
  /\ failureCount' = 0
  /\ IF state = "half_open"
     THEN /\ successCount' = successCount + 1
          /\ slot' = FALSE
          /\ state' = IF successCount' >= SuccessThreshold THEN "closed" ELSE state
     ELSE UNCHANGED <<state, successCount, slot>>
  /\ UNCHANGED <<windowOver, faults>>

(* _on_failure, also for a call that was admitted before the circuit opened. *)
Fail(c) ==
  /\ Return(c)
  /\ Fault
  /\ failureCount' = failureCount + 1
  /\ windowOver' = FALSE
  /\ state' = IF state = "half_open" \/ failureCount' >= FailureThreshold THEN "open" ELSE state
  /\ slot' = (slot /\ state # "half_open")
  /\ UNCHANGED successCount

(* Variant: cancellation frees nothing. *)
CancelKeepingSlot(c) ==
  /\ Return(c)
  /\ Fault
  /\ UNCHANGED <<state, failureCount, successCount, windowOver, slot>>

(* The task is cancelled while it awaits the upstream. *)
Cancel(c) ==
  /\ Return(c)
  /\ Fault
  /\ slot' = (slot /\ ~(caller[c] = "probe" /\ state = "half_open"))
  /\ UNCHANGED <<state, failureCount, successCount, windowOver>>

(* reset, from the admin API. *)
Reset ==
  /\ state' = "closed"
  /\ failureCount' = 0 /\ successCount' = 0
  /\ windowOver' = TRUE
  /\ slot' = FALSE
  /\ UNCHANGED <<caller, faults>>

WindowElapses ==
  /\ ~windowOver
  /\ windowOver' = TRUE
  /\ UNCHANGED <<state, failureCount, successCount, slot, caller, faults>>

-----------------------------------------------------------------------------

Next ==
  \/ \E c \in Callers : Call(c) \/ Succeed(c) \/ Fail(c) \/ Cancel(c)
  \/ Reset
  \/ WindowElapses

Spec == Init /\ [][Next]_vars

(* Every call ends (execute_provider_failover and the sinks bound it), time  *)
(* passes, and producers that ask probe_due first keep coming.               *)
FairSpec ==
  /\ Spec
  /\ \A c \in Callers : WF_vars(ProbeDue /\ Call(c)) /\ WF_vars(Succeed(c))
  /\ WF_vars(WindowElapses)

-----------------------------------------------------------------------------
(* Properties *)

TypeOK ==
  /\ state \in {"closed", "open", "half_open"}
  /\ failureCount \in Nat /\ successCount \in Nat
  /\ windowOver \in BOOLEAN /\ slot \in BOOLEAN
  /\ caller \in [Callers -> {"idle", "plain", "probe"}]
  /\ faults \in 0..MaxFaults

(* The half-open slot is never taken without a probe in flight that will     *)
(* free it: a cancelled, failed or overtaken probe cannot wedge the circuit, *)
(* whose callers would all be refused until a manual reset.                  *)
SlotIsHeld == slot => state = "half_open" /\ Probes # {}

(* The circuit is closed only below the failure threshold and half open only *)
(* below the success threshold, though calls admitted in an earlier state    *)
(* count towards the present one.                                            *)
CountersBelowThresholds ==
  /\ state = "closed" => failureCount < FailureThreshold
  /\ state = "half_open" => successCount < SuccessThreshold

(* Once calls stop failing the circuit closes for good, even when every       *)
(* producer asks probe_due before it calls: an open circuit is not starved of *)
(* probes and a half-open one is not left without its slot.                   *)
Recovers == <>[](state = "closed")

=============================================================================
