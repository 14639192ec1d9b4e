----------------------------- MODULE MCScheduler -----------------------------
(***************************************************************************)
(* Instances for TLC of the scheduler, with fairness, and of the events    *)
(* that one task sends to another.  A behaviour is one of one component,   *)
(* the one that part names; the other keeps an initial state.              *)
(***************************************************************************)
EXTENDS Scheduler, EventQueue

VARIABLE part

TasksInit ==
    /\ part \in {"sched", "events"}
    /\ Init /\ EqInit
    /\ part # "events" => queueKind = "key"

SchedOnly == part = "sched" /\ UNCHANGED <<eqVars, part>>
EventsOnly == part = "events" /\ UNCHANGED <<vars, part>>

TasksNext ==
    \/ SchedOnly /\ Next
    \/ EventsOnly /\ EqNext
    \/ EventsOnly /\ UNCHANGED eqVars   \* a queue that nobody uses

(* The fairness of FairSpec.                                               *)
TasksFairness ==
    /\ WF_vars(SchedOnly /\ BootCreate(NoCtx)) /\ WF_vars(SchedOnly /\ Start)
    /\ \A c \in Cpus : WF_vars(SchedOnly /\ Timer(c)) /\ WF_vars(SchedOnly /\ SwitchDone(c))
    /\ \A s \in Slots \ {0} : SF_vars(SchedOnly /\ LoopStep(s))

TasksSpec == TasksInit /\ [][TasksNext]_<<vars, eqVars, part>> /\ TasksFairness
==============================================================================
