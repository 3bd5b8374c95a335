---------------------------- MODULE FaultScenario ----------------------------
(***************************************************************************)
(* Everybody who injects faults into one running system: the operator,     *)
(* through the REST API, the option --inject of main.py, and the scripted  *)
(* demo.  They share one event loop and do not know of each other.         *)
(***************************************************************************)
EXTENDS FaultInjector, Sequences

CONSTANTS
    Requested,      \* bound: the types an operator asks for, one unknown
    Durations,      \* bound: the durations an operator asks for, 0 for none;
                    \* nothing keeps one from being negative
    Requests,       \* bound: how often the operator asks
    ManualFaults    \* bound: the arguments of --inject, None for no such option

(* The sleeps of DemoScenario.run up to its calls, and the delay and the
   duration of --inject, in seconds since the start. *)
DemoScript ==
    <<[at |-> 20, call |-> "latency_spike"],
      [at |-> 23, call |-> "packet_loss"],
      [at |-> 43, call |-> "clear"]>>
ManualAt == 10
ManualDuration == 30

ASSUME ScenarioAssumption ==
    /\ Requests \in Nat
    /\ Durations \subseteq Int
    /\ ManualFaults \subseteq FAULT_TYPES \union {None}
    /\ ManualAt + ManualDuration <= Horizon
    /\ DemoScript[Len(DemoScript)].at <= Horizon
    /\ {"operator", "manual", "demo"} \subseteq Owners

VARIABLES
    demo,           \* how many calls of the script have been made
    manual,         \* the fault --inject is still to inject, or None
    asked           \* how many requests the operator has made

vars == <<faultVars, demo, manual, asked>>

Init ==
    /\ FaultInit
    /\ demo = 0
    /\ manual \in ManualFaults
    /\ asked = 0

Asks == asked < Requests /\ asked' = asked + 1 /\ UNCHANGED <<demo, manual>>

(* POST /api/fault/inject/<type>; the type is not checked there. *)
RequestInject(type, duration) ==
    /\ Asks
    /\ now + duration <= Horizon
    /\ Inject(type, duration, "operator")

(* POST /api/fault/clear *)
RequestClear == Asks /\ Clear

ManualInject ==
    /\ manual # None /\ now = ManualAt
    /\ Inject(manual, ManualDuration, "manual")
    /\ manual' = None
    /\ UNCHANGED <<demo, asked>>

DemoDue == demo < Len(DemoScript) /\ DemoScript[demo + 1].at = now

(* Faulty variant: the demo never clears its fault. *)
DemoStepNoClear ==
    /\ DemoDue
    /\ IF DemoScript[demo + 1].call = "clear"
       THEN UNCHANGED faultVars
       ELSE Inject(DemoScript[demo + 1].call, 0, "demo")
    /\ demo' = demo + 1
    /\ UNCHANGED <<manual, asked>>

DemoStep ==
    /\ DemoDue
    /\ IF DemoScript[demo + 1].call = "clear"
       THEN Clear
       ELSE Inject(DemoScript[demo + 1].call, 0, "demo")
    /\ demo' = demo + 1
    /\ UNCHANGED <<manual, asked>>

TimePasses ==
    /\ ~DemoDue
    /\ ~(manual # None /\ now = ManualAt)
    /\ Elapse
    /\ UNCHANGED <<demo, manual, asked>>

TimedOut == Expire /\ UNCHANGED <<demo, manual, asked>>

Next ==
    \/ \E type \in Requested, duration \in Durations : RequestInject(type, duration)
    \/ RequestClear
    \/ ManualInject
    \/ DemoStep
    \/ TimedOut
    \/ TimePasses

(* Time passes, and the event loop runs the tasks that are due. *)
Spec == Init /\ [][Next]_vars /\ WF_vars(ManualInject \/ DemoStep \/ TimedOut \/ TimePasses)

-----------------------------------------------------------------------------
TypeOK ==
    /\ FaultTypeOK
    /\ demo \in 0 .. Len(DemoScript)
    /\ manual \in ManualFaults \union {None}
    /\ asked \in 0 .. Requests

(* A fault of the operator that has no duration may stay for ever; every
   other fault, the demo's untimed ones included, is gone in the end. *)
LeftOn == owner = "operator" /\ due = Never
SystemHeals == <>[](state.active => LeftOn)

=============================================================================
