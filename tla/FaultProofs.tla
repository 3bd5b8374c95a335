----------------------------- MODULE FaultProofs -----------------------------
(* Proofs about the fault controller and everybody who calls it: the two
   faces of a fault agree, and no timed fault outlasts its duration, for any
   requests at any time. *)
EXTENDS FaultScenario, TLAPS

(* What every step of the controller keeps. *)
FaultInv == FaultTypeOK /\ StateAgrees /\ TimedFaultsEnd

LEMMA InjectKeepsFaultInv ==
    ASSUME FaultInv, NEW type, NEW duration \in Int, now + duration <= Horizon,
           NEW who \in Owners, Inject(type, duration, who)
    PROVE  FaultInv'
<1>1. /\ Horizon \in Nat /\ None \notin Owners /\ None \notin FAULT_TYPES
      /\ now \in 0 .. Horizon /\ now' = now
      /\ Never = Horizon + 1
      /\ timers \in [0 .. Horizon -> Nat]
  BY HorizonAssumption DEF FaultInv, FaultTypeOK, Inject, FAULT_TYPES, None, Never
<1>2. CASE type \in FAULT_TYPES /\ duration # 0
  <2>0. PICK end \in Int : end = EndOf(duration) /\ now <= end /\ end <= Horizon
    BY <1>1 DEF EndOf
  <2>1. /\ state' = [active |-> TRUE, type |-> type]
        /\ active_fault' = type
        /\ owner' = who
        /\ due' = end
        /\ timers' = [timers EXCEPT ![end] = @ + 1]
    BY <1>2, <2>0 DEF Inject
  <2>2. end \in 0 .. Horizon
    BY <1>1, <2>0
  <2>3. timers' \in [0 .. Horizon -> Nat] /\ timers'[end] > 0
    BY <1>1, <2>1, <2>2
  <2>4. FaultTypeOK'
    BY <1>1, <1>2, <2>1, <2>2, <2>3 DEF FaultTypeOK
  <2>5. StateAgrees'
    BY <1>1, <1>2, <2>1 DEF StateAgrees
  <2>6. TimedFaultsEnd'
    BY <1>1, <1>2, <2>0, <2>1, <2>2, <2>3 DEF TimedFaultsEnd
  <2> QED
    BY <2>4, <2>5, <2>6 DEF FaultInv
<1>3. CASE type \in FAULT_TYPES /\ duration = 0
  <2>1. /\ state' = [active |-> TRUE, type |-> type]
        /\ active_fault' = type
        /\ owner' = who
        /\ due' = Never
        /\ timers' = timers
    BY <1>3 DEF Inject
  <2> QED
    BY <1>1, <1>3, <2>1 DEF FaultInv, FaultTypeOK, StateAgrees, TimedFaultsEnd
<1>4. CASE type \notin FAULT_TYPES
  BY <1>4 DEF Inject, FaultInv, FaultTypeOK, StateAgrees, TimedFaultsEnd
<1> QED
  BY <1>2, <1>3, <1>4

(* Once nothing is active, there is no end to wait for. *)
LEMMA ClearedKeepsFaultInv ==
    ASSUME FaultInv, Cleared, now' = now, timers' \in [0 .. Horizon -> Nat]
    PROVE  FaultInv'
  BY HorizonAssumption
  DEF FaultInv, FaultTypeOK, StateAgrees, TimedFaultsEnd, Cleared, Never

LEMMA ClearKeepsFaultInv ==
    ASSUME FaultInv, Clear
    PROVE  FaultInv'
  BY ClearedKeepsFaultInv DEF FaultInv, FaultTypeOK, Clear

(* The task that runs either clears the fault or finds none. *)
LEMMA ExpireKeepsFaultInv ==
    ASSUME FaultInv, Expire
    PROVE  FaultInv'
<1>1. /\ now \in 0 .. Horizon /\ now' = now
      /\ timers \in [0 .. Horizon -> Nat] /\ timers[now] > 0
      /\ timers' = [timers EXCEPT ![now] = @ - 1]
  BY DEF FaultInv, FaultTypeOK, Expire
<1>2. timers' \in [0 .. Horizon -> Nat]
  <2>1. timers[now] - 1 \in Nat
    BY <1>1
  <2> QED
    BY <1>1, <2>1
<1>3. CASE state.active
  BY <1>1, <1>2, <1>3, ClearedKeepsFaultInv DEF Expire
<1>4. CASE ~state.active
  <2>1. UNCHANGED <<state, active_fault, due, owner>>
    BY <1>4 DEF Expire
  <2> QED
    BY <1>1, <1>2, <1>4, <2>1 DEF FaultInv, FaultTypeOK, StateAgrees, TimedFaultsEnd
<1> QED
  BY <1>3, <1>4

(* The clock does not pass a task that is due, so the task that will end the
   fault in time is still ahead. *)
LEMMA ElapseKeepsFaultInv ==
    ASSUME FaultInv, Elapse
    PROVE  FaultInv'
<1>1. /\ Horizon \in Nat /\ now \in 0 .. Horizon /\ now < Horizon /\ now' = now + 1
      /\ timers \in [0 .. Horizon -> Nat] /\ timers[now] = 0
      /\ UNCHANGED <<state, active_fault, timers, due, owner>>
      /\ due \in 0 .. Never /\ Never = Horizon + 1
  BY HorizonAssumption DEF FaultInv, FaultTypeOK, Elapse, Never
<1>2. FaultTypeOK' /\ StateAgrees'
  BY <1>1 DEF FaultInv, FaultTypeOK, StateAgrees
<1>3. TimedFaultsEnd'
  <2>1. SUFFICES ASSUME state.active, due # Never
                 PROVE  /\ now + 1 <= due
                        /\ \E t \in now + 1 .. due : timers[t] > 0
    BY <1>1 DEF TimedFaultsEnd
  <2>2. PICK t \in now .. due : timers[t] > 0
    BY <2>1 DEF FaultInv, TimedFaultsEnd
  <2>3. t # now
    BY <1>1, <2>2
  <2>4. t \in now + 1 .. due /\ now + 1 <= due
    BY <1>1, <2>2, <2>3
  <2> QED
    BY <2>2, <2>4
<1> QED
  BY <1>2, <1>3 DEF FaultInv

-----------------------------------------------------------------------------
(* Whoever acts: the invariant of the whole scenario. *)
IInv == TypeOK /\ FaultInv

LEMMA InitIInv == Init => IInv
<1> SUFFICES ASSUME Init
             PROVE  IInv
  OBVIOUS
<1>1. /\ Horizon \in Nat /\ Requests \in Nat /\ Len(DemoScript) = 3
  BY HorizonAssumption, ScenarioAssumption DEF DemoScript
<1>2. FaultInv
  BY <1>1 DEF Init, FaultInit, FaultInv, FaultTypeOK, StateAgrees, TimedFaultsEnd, Never
<1>3. TypeOK
  BY <1>1, <1>2 DEF Init, FaultInv, TypeOK
<1> QED
  BY <1>2, <1>3 DEF IInv

LEMMA NextIInv == IInv /\ [Next]_vars => IInv'
<1> SUFFICES ASSUME IInv, [Next]_vars
             PROVE  IInv'
  OBVIOUS
<1>1. /\ Horizon \in Nat /\ Requests \in Nat /\ Len(DemoScript) = 3
      /\ "operator" \in Owners /\ "manual" \in Owners /\ "demo" \in Owners
      /\ ManualAt + ManualDuration <= Horizon /\ Durations \subseteq Int
  BY HorizonAssumption, ScenarioAssumption DEF DemoScript
<1>2. /\ now \in 0 .. Horizon /\ FaultInv
      /\ demo \in 0 .. 3 /\ asked \in 0 .. Requests
      /\ manual \in ManualFaults \union {None}
  BY <1>1 DEF IInv, TypeOK, FaultInv, FaultTypeOK
<1>3. SUFFICES /\ FaultInv'
               /\ demo' \in 0 .. 3 /\ asked' \in 0 .. Requests
               /\ manual' \in ManualFaults \union {None}
  BY <1>1 DEF IInv, TypeOK, FaultInv
<1>4. ASSUME Asks
      PROVE  /\ demo' \in 0 .. 3 /\ asked' \in 0 .. Requests
             /\ manual' \in ManualFaults \union {None}
  BY <1>1, <1>2, <1>4 DEF Asks
<1>5. CASE \E type \in Requested, duration \in Durations : RequestInject(type, duration)
  <2>1. PICK type \in Requested, duration \in Durations : RequestInject(type, duration)
    BY <1>5
  <2>2. /\ Asks /\ duration \in Int /\ now + duration <= Horizon
        /\ Inject(type, duration, "operator")
    BY <1>1, <2>1 DEF RequestInject
  <2> QED
    BY <1>1, <1>2, <1>4, <2>2, InjectKeepsFaultInv
<1>6. CASE RequestClear
  BY <1>2, <1>4, <1>6, ClearKeepsFaultInv DEF RequestClear
<1>7. CASE ManualInject
  <2>1. /\ now = ManualAt /\ manual' = None /\ UNCHANGED <<demo, asked>>
        /\ Inject(manual, ManualDuration, "manual")
    BY <1>7 DEF ManualInject
  <2>2. ManualDuration \in Nat /\ now + ManualDuration <= Horizon
    BY <1>1, <2>1 DEF ManualDuration
  <2>3. FaultInv'
    BY <1>1, <1>2, <2>1, <2>2, InjectKeepsFaultInv
  <2> QED
    BY <1>2, <2>1, <2>3
<1>8. CASE DemoStep
  <2>1. /\ demo < 3 /\ demo' = demo + 1 /\ UNCHANGED <<manual, asked>>
        /\ Clear \/ Inject(DemoScript[demo + 1].call, 0, "demo")
    BY <1>1, <1>8 DEF DemoStep, DemoDue
  <2>2. 0 \in Nat /\ now + 0 <= Horizon
    BY <1>1, <1>2
  <2>3. FaultInv'
    BY <1>1, <1>2, <2>1, <2>2, ClearKeepsFaultInv, InjectKeepsFaultInv
  <2> QED
    BY <1>2, <2>1, <2>3
<1>9. CASE TimedOut
  BY <1>2, <1>9, ExpireKeepsFaultInv DEF TimedOut
<1>10. CASE TimePasses
  BY <1>2, <1>10, ElapseKeepsFaultInv DEF TimePasses
<1>11. CASE UNCHANGED vars
  BY <1>2, <1>11
  DEF vars, faultVars, FaultInv, FaultTypeOK, StateAgrees, TimedFaultsEnd
<1> QED
  BY <1>5, <1>6, <1>7, <1>8, <1>9, <1>10, <1>11 DEF Next

(* The invariant holds of every behaviour, for any set of requests. *)
THEOREM Invariance == Spec => []IInv
<1> QED
  BY InitIInv, NextIInv, PTL DEF Spec

(* Every variable keeps its type: no timer count is ever negative. *)
THEOREM TypeCorrect == Spec => []TypeOK
<1>1. IInv => TypeOK
  BY DEF IInv
<1> QED
  BY Invariance, <1>1, PTL

(* The dictionary the slice workers read and the controller name the same
   fault, whoever injected, replaced, cleared or timed it out. *)
THEOREM DictionaryAgrees == Spec => []StateAgrees
<1>1. IInv => StateAgrees
  BY DEF IInv, FaultInv
<1> QED
  BY Invariance, <1>1, PTL

(* No fault injected with a duration outlasts it, although nobody cancels or
   restarts a timer. *)
THEOREM NoFaultOutlastsItsDuration == Spec => []TimedFaultsEnd
<1>1. IInv => TimedFaultsEnd
  BY DEF IInv, FaultInv
<1> QED
  BY Invariance, <1>1, PTL

=============================================================================
