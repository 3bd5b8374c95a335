---------------------------- MODULE FaultInjector ----------------------------
(***************************************************************************)
(* The fault controller: one fault at a time, in a dictionary that every   *)
(* slice worker reads, and a task per timed injection that clears whatever *)
(* is active when its sleep ends.  Time is counted in whole seconds; a     *)
(* task that is due runs before the clock moves on.                        *)
(*                                                                         *)
(* due and owner are history variables: the second until which the active  *)
(* fault was asked for, and who asked for it.                              *)
(***************************************************************************)
EXTENDS Integers

CONSTANTS
    Horizon,        \* bound: the last second of a run
    Owners          \* who injects faults

FAULT_TYPES == {"latency_spike", "packet_loss", "slowdown"}

None == "none"

ASSUME HorizonAssumption == Horizon \in Nat /\ None \notin Owners

(* Beyond the horizon: the end of a fault injected without a duration. *)
Never == Horizon + 1

VARIABLES
    state,          \* the shared dictionary: active, and the type of the fault
    active_fault,   \* FaultInjector._active_fault
    timers,         \* how many _auto_clear tasks wake up at each second
    now,
    due,
    owner

faultVars == <<state, active_fault, timers, now, due, owner>>

FaultInit ==
    /\ state = [active |-> FALSE, type |-> None]
    /\ active_fault = None
    /\ timers = [t \in 0 .. Horizon |-> 0]
    /\ now = 0
    /\ due = Never
    /\ owner = None

(* When a timer set now ends: a sleep of a negative time ends at once. *)
EndOf(duration) == now + (IF duration > 0 THEN duration ELSE 0)

(* inject: an unknown type changes nothing; duration 0 stands for none. *)
Inject(type, duration, who) ==
    /\ IF type \in FAULT_TYPES
       THEN /\ state' = [active |-> TRUE, type |-> type]
            /\ active_fault' = type
            /\ timers' = IF duration # 0
                         THEN [timers EXCEPT ![EndOf(duration)] = @ + 1]
                         ELSE timers
            /\ due' = IF duration # 0 THEN EndOf(duration) ELSE Never
            /\ owner' = who
       ELSE UNCHANGED <<state, active_fault, timers, due, owner>>
    /\ UNCHANGED now

(* Faulty variant: the name used for the message is kept. *)
ClearedAsUnknown ==
    /\ state' = [active |-> FALSE, type |-> None]
    /\ active_fault' = IF active_fault = None THEN "unknown" ELSE None
    /\ due' = Never
    /\ owner' = None

Cleared ==
    /\ state' = [active |-> FALSE, type |-> None]
    /\ active_fault' = None
    /\ due' = Never
    /\ owner' = None

Clear == Cleared /\ UNCHANGED <<timers, now>>

(* Faulty variant: a task that clears a fault but not the dictionary. *)
ExpireHalf ==
    /\ timers[now] > 0
    /\ timers' = [timers EXCEPT ![now] = @ - 1]
    /\ IF state.active
       THEN /\ active_fault' = None
            /\ due' = Never
            /\ owner' = None
            /\ UNCHANGED state
       ELSE UNCHANGED <<state, active_fault, due, owner>>
    /\ UNCHANGED now

(* Faulty variant: only a fault with an overdue end is cleared. *)
ExpireTooLate ==
    /\ timers[now] > 0
    /\ timers' = [timers EXCEPT ![now] = @ - 1]
    /\ IF state.active /\ due < now
       THEN Cleared
       ELSE UNCHANGED <<state, active_fault, due, owner>>
    /\ UNCHANGED now

(* _auto_clear after its sleep. *)
Expire ==
    /\ timers[now] > 0
    /\ timers' = [timers EXCEPT ![now] = @ - 1]
    /\ IF state.active
       THEN Cleared
       ELSE UNCHANGED <<state, active_fault, due, owner>>
    /\ UNCHANGED now

Elapse ==
    /\ now < Horizon
    /\ timers[now] = 0
    /\ now' = now + 1
    /\ UNCHANGED <<state, active_fault, timers, due, owner>>

-----------------------------------------------------------------------------
FaultTypeOK ==
    /\ state \in [active : BOOLEAN, type : FAULT_TYPES \union {None}]
    /\ active_fault \in FAULT_TYPES \union {None}
    /\ timers \in [0 .. Horizon -> Nat]
    /\ now \in 0 .. Horizon
    /\ due \in 0 .. Never
    /\ owner \in Owners \union {None}

(* What the slice workers read and what the controller reports agree: the
   dictionary and _active_fault name the same fault, whoever injected,
   replaced, cleared or timed it out. *)
StateAgrees ==
    /\ state.active <=> active_fault # None
    /\ state.type = active_fault
    /\ state.active <=> owner # None

(* A fault with a duration never outlasts it, whatever was injected, replaced
   and cleared before it: a task is always waiting to end it in time. *)
TimedFaultsEnd ==
    state.active /\ due # Never =>
        /\ now <= due
        /\ \E t \in now .. due : timers[t] > 0

(* "inject fault (?duration=30)": a task ends no fault before its time. *)
FaultsRunTheirCourse == [][Expire /\ state.active => due = now]_faultVars

=============================================================================
