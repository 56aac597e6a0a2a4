------------------------ MODULE CircuitBreakerProofs ------------------------
(***************************************************************************)
(* Theorems about CircuitBreaker, for any number of callers and any         *)
(* thresholds: types, a half-open slot that is always freed, and counters   *)
(* that stay below their thresholds.  The three are inductive together.     *)
(***************************************************************************)
EXTENDS CircuitBreaker, TLAPS

IInv == TypeOK /\ SlotIsHeld /\ CountersBelowThresholds

(* A new breaker is closed, with its slot free and its counters at zero. *)
LEMMA InitIInv == Init => IInv
<1> SUFFICES ASSUME Init PROVE IInv
  OBVIOUS
<1>1. caller \in [Callers -> {"idle", "plain", "probe"}]
  BY DEF Init
<1>2. faults \in 0..MaxFaults /\ failureCount \in Nat /\ successCount \in Nat
  BY ThresholdsAssumption DEF Init
<1>3. TypeOK
  BY <1>1, <1>2 DEF Init, TypeOK
<1>4. SlotIsHeld /\ CountersBelowThresholds
  BY ThresholdsAssumption DEF Init, SlotIsHeld, CountersBelowThresholds
<1> QED BY <1>3, <1>4 DEF IInv

(* Every admission, outcome, reset and tick of the clock keeps the three. *)
LEMMA NextIInv == IInv /\ [Next]_vars => IInv'
<1> SUFFICES ASSUME IInv, [Next]_vars PROVE IInv'
  OBVIOUS
<1> USE ThresholdsAssumption DEF IInv
<1>1. ASSUME NEW c \in Callers, Call(c) PROVE IInv'
  <2>1. TypeOK'
    <3>1. caller' \in [Callers -> {"idle", "plain", "probe"}]
      BY <1>1 DEF Call, TypeOK
    <3>2. slot' \in BOOLEAN /\ windowOver' \in BOOLEAN
      BY <1>1 DEF Call, TypeOK
    <3>3. failureCount' \in Nat /\ successCount' \in Nat /\ faults' \in 0..MaxFaults
      BY <1>1 DEF Call, TypeOK
    <3>4. state' \in {"closed", "open", "half_open"}
      BY <1>1 DEF Call, TypeOK
    <3> QED BY <3>1, <3>2, <3>3, <3>4 DEF TypeOK
  <2>2. SlotIsHeld'
    <3>1. caller'[c] \in {"plain", "probe"} /\ (slot' /\ ~slot => caller'[c] = "probe")
      BY <1>1 DEF Call, TypeOK
    <3>2. CASE slot
      BY <1>1, <3>2 DEF Call, SlotIsHeld
    <3>3. CASE ~slot
      BY <1>1, <3>1, <3>3 DEF Call, SlotIsHeld, Probes
    <3> QED BY <3>2, <3>3
  <2>3. CountersBelowThresholds'
    BY <1>1 DEF Call, CountersBelowThresholds
  <2> QED BY <2>1, <2>2, <2>3
<1>2. ASSUME NEW c \in Callers, Succeed(c) PROVE IInv'
  <2>1. TypeOK'
    <3>1. caller' \in [Callers -> {"idle", "plain", "probe"}]
      BY <1>2 DEF Succeed, Return, TypeOK
    <3>2. slot' \in BOOLEAN /\ windowOver' \in BOOLEAN
      BY <1>2 DEF Succeed, TypeOK
    <3>3. failureCount' \in Nat /\ successCount' \in Nat /\ faults' \in 0..MaxFaults
      BY <1>2 DEF Succeed, TypeOK
    <3>4. state' \in {"closed", "open", "half_open"}
      BY <1>2 DEF Succeed, TypeOK
    <3> QED BY <3>1, <3>2, <3>3, <3>4 DEF TypeOK
  <2>2. SlotIsHeld'
    BY <1>2 DEF Succeed, SlotIsHeld
  <2>3. CountersBelowThresholds'
    BY <1>2 DEF Succeed, CountersBelowThresholds, TypeOK
  <2> QED BY <2>1, <2>2, <2>3
<1>3. ASSUME NEW c \in Callers, Fail(c) PROVE IInv'
  <2>1. TypeOK'
    <3>1. caller' \in [Callers -> {"idle", "plain", "probe"}]
      BY <1>3 DEF Fail, Return, TypeOK
    <3>2. slot' \in BOOLEAN /\ windowOver' \in BOOLEAN
      BY <1>3 DEF Fail, TypeOK
    <3>3. failureCount' \in Nat /\ successCount' \in Nat /\ faults' \in 0..MaxFaults
      BY <1>3 DEF Fail, Fault, TypeOK
    <3>4. state' \in {"closed", "open", "half_open"}
      BY <1>3 DEF Fail, TypeOK
    <3> QED BY <3>1, <3>2, <3>3, <3>4 DEF TypeOK
  <2>2. SlotIsHeld'
    BY <1>3 DEF Fail, SlotIsHeld
  <2>3. CountersBelowThresholds'
    BY <1>3 DEF Fail, CountersBelowThresholds, TypeOK
  <2> QED BY <2>1, <2>2, <2>3
<1>4. ASSUME NEW c \in Callers, Cancel(c) PROVE IInv'
  <2>1. TypeOK'
    BY <1>4 DEF Cancel, Return, Fault, TypeOK
  <2>2. SlotIsHeld'
    <3>1. CASE slot' /\ slot
      <4>1. state = "half_open" /\ state' = state /\ caller[c] # "probe"
        BY <1>4, <3>1 DEF Cancel, SlotIsHeld
      <4>2. PICK d \in Callers : caller[d] = "probe"
        BY <3>1 DEF SlotIsHeld, Probes
      <4>3. caller'[d] = "probe"
        BY <1>4, <4>1, <4>2 DEF Cancel, Return, TypeOK
      <4> QED BY <4>1, <4>3 DEF SlotIsHeld, Probes
    <3>2. CASE ~slot'
      BY <3>2 DEF SlotIsHeld
    <3> QED BY <1>4, <3>1, <3>2 DEF Cancel
  <2>3. CountersBelowThresholds'
    BY <1>4 DEF Cancel, CountersBelowThresholds
  <2> QED BY <2>1, <2>2, <2>3
<1>5. CASE Reset
  <2>1. TypeOK' /\ SlotIsHeld'
    BY <1>5 DEF Reset, TypeOK, SlotIsHeld
  <2>2. CountersBelowThresholds'
    BY <1>5 DEF Reset, CountersBelowThresholds
  <2> QED BY <2>1, <2>2
<1>6. CASE WindowElapses \/ UNCHANGED vars
  <2>1. TypeOK'
    <3>1. UNCHANGED <<state, failureCount, successCount, slot, caller, faults>>
      BY <1>6 DEF WindowElapses, vars
    <3>2. windowOver' \in BOOLEAN
      BY <1>6 DEF WindowElapses, vars, TypeOK
    <3> QED BY <3>1, <3>2 DEF TypeOK
  <2>2. SlotIsHeld'
    BY <1>6 DEF WindowElapses, vars, SlotIsHeld, Probes
  <2>3. CountersBelowThresholds'
    BY <1>6 DEF WindowElapses, vars, CountersBelowThresholds
  <2> QED BY <2>1, <2>2, <2>3
<1> QED BY <1>1, <1>2, <1>3, <1>4, <1>5, <1>6 DEF Next

(* The three hold in every reachable state. *)
LEMMA Invariance == Spec => []IInv
BY InitIInv, NextIInv, PTL DEF Spec

(* Every variable keeps its type. *)
THEOREM TypeCorrect == Spec => []TypeOK
<1>1. IInv => TypeOK
  BY DEF IInv
<1> QED BY <1>1, Invariance, PTL

(* No sequence of overlapping successes, failures, cancellations and resets *)
(* leaves the half-open slot taken with nobody in flight to free it.        *)
THEOREM NeverWedged == Spec => []SlotIsHeld
<1>1. IInv => SlotIsHeld
  BY DEF IInv
<1> QED BY <1>1, Invariance, PTL

(* A closed circuit is below its failure threshold, a half-open one below    *)
(* its success threshold, whenever the calls that count were admitted.       *)
THEOREM CountersCorrect == Spec => []CountersBelowThresholds
<1>1. IInv => CountersBelowThresholds
  BY DEF IInv
<1> QED BY <1>1, Invariance, PTL

=============================================================================
