----------------------------- MODULE MCScenarios ----------------------------
(***************************************************************************)
(* The static 2D structures under bounds chosen for one question each.  A  *)
(* behaviour is one scenario; the variables of the other structures stay   *)
(* as they are.                                                            *)
(*                                                                         *)
(*   visibility  queue: descriptors read node first, for which a dequeue   *)
(*               that finds nothing is right                               *)
(*   deep        queue: windows of depth 2, in which a torn descriptor can *)
(*               pass the double check                                     *)
(*   wide        queue: three sub-queues, a producer and a consumer        *)
(*   sequential  queue: one thread, eight operations                       *)
(*   relaxed     stack: a pusher and a popper, eight operations            *)
(*   floor       stack: one sub-stack, two poppers                         *)
(*   decoupled   stack with two windows: a pusher and a popper             *)
(*   counter     counter: two threads, three operations each               *)
(*   lockfree    queue: t2 may be suspended for ever, t1 may not           *)
(*   progress    stack: no thread is suspended for ever                    *)
(*                                                                         *)
(* Spec has the first eight, FairSpec the last two.                        *)
(***************************************************************************)
EXTENDS Integers, FiniteSets, TLC

CONSTANTS t1, t2, t3, t4

VARIABLES
    scenario,
    \* of all structures
    thread_index, contention, hops, random, pc, linear_clone, ops,
    \* of the queue, and some of the decoupled stack
    put_array, get_array, global_PWindow, global_GWindow, thread_PWindow,
    thread_GWindow, notempty, put_descriptor, get_descriptor, put_count, items,
    enq_descriptor, stamp, published,
    \* of the stack, and some of the counter
    set_array, global_Window, thread_Window, empty, descriptor, next, present

queueOnly == <<put_array, get_array, global_PWindow, global_GWindow, thread_PWindow,
               thread_GWindow, notempty, put_descriptor, get_descriptor, put_count,
               items, enq_descriptor, stamp, published>>
stackOnly == <<set_array, global_Window, thread_Window, empty, descriptor, next, present>>
common == <<thread_index, contention, hops, random, pc, linear_clone, ops>>
vars == <<scenario, common, queueOnly, stackOnly>>

Both == {"node_first", "count_first"}
Visibility == INSTANCE Queue2Dd
    WITH Threads <- {t1, t2}, Producers <- {t1, t2}, Consumers <- {t1, t2}, Width <- 2,
         Depth <- 1, RandomHops <- 1, MaxOps <- 3, Scheduled <- {},
         PutReadOrders <- {"node_first"}, GetReadOrders <- {"node_first"}

Deep == INSTANCE Queue2Dd
    WITH Threads <- {t1, t2}, Producers <- {t1, t2}, Consumers <- {t1, t2}, Width <- 2,
         Depth <- 2, RandomHops <- 0, MaxOps <- 3, Scheduled <- {},
         PutReadOrders <- {"node_first"}, GetReadOrders <- {"count_first"}

Wide == INSTANCE Queue2Dd
    WITH Threads <- {t3, t4}, Producers <- {t3}, Consumers <- {t4}, Width <- 3, Depth <- 1,
         RandomHops <- 0, MaxOps <- 6, Scheduled <- {},
         PutReadOrders <- {"node_first"}, GetReadOrders <- Both

Sequential == INSTANCE Queue2Dd
    WITH Threads <- {t3}, Producers <- {t3}, Consumers <- {t3}, Width <- 3, Depth <- 1,
         RandomHops <- 2, MaxOps <- 8, Scheduled <- {},
         PutReadOrders <- {"node_first"}, GetReadOrders <- Both

Relaxed == INSTANCE Stack2Dc
    WITH Threads <- {t3, t4}, Pushers <- {t3}, Poppers <- {t4}, Width <- 2, Depth <- 1,
         RandomHops <- 0, MaxOps <- (t3 :> 6 @@ t4 :> 2), Scheduled <- {},
         ReadOrders <- {"count_first"}, VersionModulus <- 6

Floor == INSTANCE Stack2Dc
    WITH Threads <- {t1, t2, t3}, Pushers <- {t3}, Poppers <- {t1, t2}, Width <- 1,
         Depth <- 1, RandomHops <- 0, MaxOps <- (t1 :> 1 @@ t2 :> 1 @@ t3 :> 3),
         Scheduled <- {}, ReadOrders <- {"count_first"}, VersionModulus <- 2

Decoupled == INSTANCE Stack2Dd
    WITH Threads <- {t3, t4}, Pushers <- {t3}, Poppers <- {t4}, Width <- 2, Depth <- 1,
         RandomHops <- 0, MaxOps <- (t3 :> 7 @@ t4 :> 3), CountModulus <- 16,
         PutReadOrders <- {"count_first"}, GetReadOrders <- {"count_first"},
         array <- put_array

Counter == INSTANCE Counter2Dc
    WITH Threads <- {t1, t2}, Width <- 2, Depth <- 2, RandomHops <- 0,
         MaxOps <- (t1 :> 3 @@ t2 :> 3), VersionModulus <- 16

Lockfree == INSTANCE Queue2Dd
    WITH Threads <- {t1, t2}, Producers <- {t1, t2}, Consumers <- {t1, t2}, Width <- 2,
         Depth <- 1, RandomHops <- 1, MaxOps <- 2, Scheduled <- {t1},
         PutReadOrders <- Both, GetReadOrders <- Both

Progress == INSTANCE Stack2Dc
    WITH Threads <- {t1, t2}, Pushers <- {t1, t2}, Poppers <- {t1, t2}, Width <- 2,
         Depth <- 2, RandomHops <- 0, MaxOps <- (t1 :> 3 @@ t2 :> 3), Scheduled <- {t1, t2},
         ReadOrders <- {"count_first"}, VersionModulus <- 6

Unused(x) == x = <<>>
NoQueue ==
    /\ Unused(put_array) /\ Unused(get_array) /\ Unused(global_PWindow)
    /\ Unused(global_GWindow) /\ Unused(thread_PWindow) /\ Unused(thread_GWindow)
    /\ Unused(notempty) /\ Unused(put_descriptor) /\ Unused(get_descriptor)
    /\ Unused(put_count) /\ Unused(items) /\ Unused(enq_descriptor) /\ Unused(stamp)
    /\ Unused(published)
NoCoupled ==
    /\ Unused(set_array) /\ Unused(global_Window) /\ Unused(thread_Window)
    /\ Unused(empty) /\ Unused(descriptor) /\ Unused(present)
NoStack == NoCoupled /\ Unused(next)

Init ==
    \/ scenario = "visibility" /\ Visibility!Init /\ NoStack
    \/ scenario = "deep" /\ Deep!Init /\ NoStack
    \/ scenario = "wide" /\ Wide!Init /\ NoStack
    \/ scenario = "sequential" /\ Sequential!Init /\ NoStack
    \/ scenario = "relaxed" /\ Relaxed!Init /\ NoQueue
    \/ scenario = "floor" /\ Floor!Init /\ NoQueue
    \/ /\ scenario = "decoupled" /\ Decoupled!Init /\ NoCoupled
       /\ Unused(get_array) /\ Unused(items) /\ Unused(enq_descriptor) /\ Unused(stamp)
       /\ Unused(published)
    \/ /\ scenario = "counter" /\ Counter!Init /\ NoQueue
       /\ Unused(next) /\ Unused(present) /\ Unused(linear_clone)

QueueNext ==
    /\ \/ scenario = "visibility" /\ Visibility!Next
       \/ scenario = "deep" /\ Deep!Next
       \/ scenario = "wide" /\ Wide!Next
       \/ scenario = "sequential" /\ Sequential!Next
    /\ UNCHANGED <<scenario, stackOnly>>

StackNext ==
    /\ \/ scenario = "relaxed" /\ Relaxed!Next
       \/ scenario = "floor" /\ Floor!Next
    /\ UNCHANGED <<scenario, queueOnly>>

DecoupledNext ==
    /\ scenario = "decoupled" /\ Decoupled!Next
    /\ UNCHANGED <<scenario, get_array, items, enq_descriptor, stamp, published, set_array,
                   global_Window, thread_Window, empty, descriptor, present>>

CounterNext ==
    /\ scenario = "counter" /\ Counter!Next
    /\ UNCHANGED <<scenario, queueOnly, next, present, linear_clone>>

Next == QueueNext \/ StackNext \/ DecoupledNext \/ CounterNext

Spec == Init /\ [][Next]_vars

FairInit ==
    \/ scenario = "lockfree" /\ Lockfree!Init /\ NoStack
    \/ scenario = "progress" /\ Progress!Init /\ NoQueue

FairNext ==
    \/ scenario = "lockfree" /\ Lockfree!Next /\ UNCHANGED <<scenario, stackOnly>>
    \/ scenario = "progress" /\ Progress!Next /\ UNCHANGED <<scenario, queueOnly>>

\* A scheduled thread that is inside an operation goes on.
FairSpec ==
    /\ FairInit /\ [][FairNext]_vars
    /\ WF_vars(scenario = "lockfree" /\ Lockfree!Running(t1)
               /\ UNCHANGED <<scenario, stackOnly>>)
    /\ \A t \in {t1, t2} :
          WF_vars(scenario = "progress" /\ Progress!Running(t)
                  /\ UNCHANGED <<scenario, queueOnly>>)

-----------------------------------------------------------------------------
\* Visibility: a dequeue that reports an empty queue has seen every item that
\* was published when it began removed (Queue2Dd!EmptyJustified).
EmptyJustified ==
    [][scenario = "visibility" =>
          \A t \in {t1, t2} : Visibility!DeqReturnsEmpty(t) =>
              published[t] \cap Visibility!Queued = {}]_vars

\* Deep: a tail that lags belongs to an enqueue that has not returned, although
\* the swing of a torn descriptor fails unnoticed (Queue2Dd!LagHasOwner).
LagHasOwner == scenario = "deep" => Deep!LagHasOwner

\* Wide: the get window leaves no sub-queue more than two shifts behind, which
\* takes three sub-queues to reach (Queue2Dd!GetWindowLag).
GetWindowLag == scenario = "wide" => Wide!GetWindowLag

\* Sequential: one thread dequeues one of the depth * (width - 1) + 1 oldest
\* items (Queue2Dd!KOutOfOrder).
QueueKOutOfOrder ==
    [][scenario = "sequential" =>
          (Sequential!DeqTake(t3) =>
              Sequential!Skipped(Sequential!TakenBy(t3)) <= Sequential!RelaxationBound)]_vars

\* Relaxed: a pop takes one of the newest items, up to the documented bound
\* (Stack2Dc!KOutOfOrder).
StackKOutOfOrder ==
    [][scenario = "relaxed" =>
          (Relaxed!PopCAE(t4) =>
              Relaxed!Skipped(descriptor[t4].node) <= Relaxed!DocumentedBound)]_vars

\* Relaxed: a push that slept while the window moved down leaves its sub-stack
\* at most one shift above the window (Stack2Dc!WindowCeiling).
WindowCeiling == scenario = "relaxed" => Relaxed!WindowCeiling

\* Floor: pops that slept while the window moved up leave their sub-stack at
\* most one shift, and one item for each further popper, below the window
\* (Stack2Dc!WindowFloor).
WindowFloor == scenario = "floor" => Floor!WindowFloor

\* Decoupled: the put window bounds the pushes of every sub-stack although it
\* starts at zero, and a sub-stack holds the pushes less the pops
\* (Stack2Dd!PushesWithinWindow).
PushesWithinWindow == scenario = "decoupled" => Decoupled!PushesWithinWindow

\* Decoupled: a pop skips at most relaxation_bound newer items, which the
\* instance reaches (Stack2Dd!KOutOfOrder).
DecoupledKOutOfOrder ==
    [][scenario = "decoupled" =>
          (Decoupled!PopCAE(t4) =>
              Decoupled!Skipped(get_descriptor[t4].node) <= Decoupled!RelaxationBound)]_vars

\* Counter: get_window returns an empty sub-counter as one inside the window
\* only to a thread that has not read the window yet
\* (Counter2Dc!EmptyOnlyToFresh).
EmptyOnlyToFresh ==
    [][scenario = "counter" =>
          \A t \in {t1, t2} :
              (Counter!Window!GetReturn(t) /\ descriptor[t].count = 0)
                  => thread_Window[t].max = 0]_vars

\* Lockfree: an operation of the scheduled thread returns even if the other one
\* is suspended in the middle of its own (Queue2Dd!OperationsReturn).
OperationsReturn == (scenario = "lockfree" /\ pc[t1] # "idle") ~> pc[t1] = "idle"

\* Progress: when every thread is inside an operation, some operation eventually
\* returns (Stack2Dc!SomeReturns).
SomeReturns ==
    (scenario = "progress" /\ \A t \in {t1, t2} : pc[t] # "idle")
        ~> \E t \in {t1, t2} : pc[t] = "idle"

\* t1 and t2 have the same role wherever they occur.
Symmetry == Permutations({t1, t2})
=============================================================================
