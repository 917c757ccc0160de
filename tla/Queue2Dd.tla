------------------------------ MODULE Queue2Dd ------------------------------
(***************************************************************************)
(* The static decoupled 2D queue, src/2Dd-queue/2Dd-queue.c, on top of the *)
(* decoupled window.  Every sub-queue is a Michael-Scott list whose tail   *)
(* and head pointers carry a count and live in put_array and get_array.    *)
(*                                                                         *)
(* A node is its position in its sub-queue: items[i] is everything ever    *)
(* linked into sub-queue i, position 0 is the dummy node of create_queue,  *)
(* and the next pointer of node p is NULL exactly when p = Len(items[i]).  *)
(* Nodes are not reused: the epoch-based allocator (SSMEM, external) keeps *)
(* a node until every operation that may hold a pointer to it is over.     *)
(*                                                                         *)
(* An item is the stamp that the build with RELAXATION_ANALYSIS gives it   *)
(* when it is linked (enq_cas), and linear_clone is the strict FIFO list   *)
(* that build keeps beside the queue to measure how far out of order an    *)
(* item is removed.  Stamps are added at its tail in increasing order, so  *)
(* the set of stamps in it says all there is to say.                       *)
(***************************************************************************)
EXTENDS Window2Dd, Sequences, FiniteSets

CONSTANTS
    Producers,   \* threads that call enqueue
    Consumers,   \* threads that call dequeue
    MaxOps,      \* bound on the operations of one thread
    Scheduled    \* threads that are never suspended for ever

ASSUME RolesAssumption == Producers \subseteq Threads /\ Consumers \subseteq Threads
ASSUME ScheduledAssumption == Scheduled \subseteq Threads
ASSUME MaxOpsAssumption == MaxOps \in Nat

VARIABLES
    items,           \* what has been linked into each sub-queue, oldest first
    enq_descriptor,  \* dequeue's copy of the put descriptor
    linear_clone,    \* stamps in the strict list of the relaxation analysis
    stamp,           \* the static count of gen_relaxation_count
    ops,             \* operations started by each thread
    published        \* auxiliary: what was published when a dequeue began

windowVars == <<arrays, windows, thread_PWindow, thread_GWindow, thread_index,
                contention, search, put_descriptor, get_descriptor, put_count>>
analysis == <<linear_clone, stamp>>
queueVars == <<items, enq_descriptor, analysis, ops, published>>
vars == <<windowVars, pc, queueVars>>

NoPut == [node |-> 0, put_count |-> 0]
NoGet == [node |-> 0, get_count |-> 0]

\* Stamps between the head and the tail pointer of sub-queue i.
PublishedIn(i) ==
    {items[i][p] : p \in get_array[i].node + 1 .. put_array[i].node}

\* Stamps linked into sub-queue i and not yet removed.
QueuedIn(i) == {items[i][p] : p \in get_array[i].node + 1 .. Len(items[i])}

Queued == UNION {QueuedIn(i) : i \in Index}

NextIsNull(i, p) == p = Len(items[i])

\* The node after node p of a sub-queue.
Successor(p) == p + 1

-----------------------------------------------------------------------------
(***************************************************************************)
(* The relaxation analysis: add_linear at the tail, and remove_linear,     *)
(* which takes a stamp out and measures how many older ones it skipped.    *)
(***************************************************************************)
\* gen_relaxation_count: stamps count up from one.
NextStamp == stamp + 1

AddLinear(s) == linear_clone' = linear_clone \cup {s}

RemoveLinear(s) == linear_clone' = linear_clone \ {s}

Skipped(s) == Cardinality({x \in linear_clone : x < s})

-----------------------------------------------------------------------------
(***************************************************************************)
(* enqueue                                                                 *)
(***************************************************************************)
EnqueueCall(t) ==
    /\ Goto(t, "idle", "put_window")
    /\ t \in Producers
    /\ ops[t] < MaxOps
    /\ ops' = [ops EXCEPT ![t] = @ + 1]
    /\ contention' = [contention EXCEPT ![t] = 0]
    /\ UNCHANGED <<arrays, windows, thread_PWindow, thread_GWindow, thread_index,
                   search, put_descriptor, get_descriptor, put_count,
                   items, enq_descriptor, analysis, published>>

\* tail->next is NULL: the descriptor may be current.
EnqReadNext(t) ==
    /\ Goto(t, "put_return", "enq_recheck")
    /\ NextIsNull(thread_index[t], put_descriptor[t].node)
    /\ UNCHANGED <<windowVars, queueVars>>

\* Mutant of AdvanceTail: the count is not compared.
AdvanceTailNodeOnly(t, read) ==
    put_array' = IF put_array[thread_index[t]].node = read.node
                 THEN [put_array EXCEPT ![thread_index[t]] =
                          [node |-> Successor(read.node),
                           put_count |-> read.put_count + 1]]
                 ELSE put_array

\* Compare-exchange of a put descriptor that moves the tail one node on.
AdvanceTail(t, read) ==
    put_array' = IF put_array[thread_index[t]] = read
                 THEN [put_array EXCEPT ![thread_index[t]] =
                          [node |-> Successor(read.node),
                           put_count |-> read.put_count + 1]]
                 ELSE put_array

\* A compare-exchange that fails raises the contention flag.
ContentionUnless(t, success) ==
    contention' = [contention EXCEPT ![t] = IF success THEN @ ELSE 1]

\* Mutant of EnqHelp: retries without helping.
EnqHelpNot(t) ==
    /\ Goto(t, "put_return", "put_window")
    /\ ~NextIsNull(thread_index[t], put_descriptor[t].node)
    /\ contention' = [contention EXCEPT ![t] = 1]
    /\ UNCHANGED <<arrays, windows, thread_PWindow, thread_GWindow, thread_index,
                   search, put_descriptor, get_descriptor, put_count, queueVars>>

\* tail->next is not NULL: help the pending enqueue and try again.
EnqHelp(t) ==
    /\ Goto(t, "put_return", "put_window")
    /\ ~NextIsNull(thread_index[t], put_descriptor[t].node)
    /\ AdvanceTail(t, put_descriptor[t])
    /\ ContentionUnless(t, put_array[thread_index[t]] = put_descriptor[t])
    /\ UNCHANGED <<get_array, windows, thread_PWindow, thread_GWindow, thread_index,
                   search, put_descriptor, get_descriptor, put_count, queueVars>>

\* Mutant of RecheckFull: no double check.
RecheckSkipped(t) == FALSE

\* The double check against a descriptor whose words were read apart.
RecheckFull(t) ==
    put_array[thread_index[t]].put_count >= thread_PWindow[t]

EnqRecheckFails(t) ==
    /\ Goto(t, "enq_recheck", "put_window")
    /\ RecheckFull(t)
    /\ UNCHANGED <<windowVars, queueVars>>

EnqRecheckPasses(t) ==
    /\ Goto(t, "enq_recheck", "enq_cas")
    /\ ~RecheckFull(t)
    /\ UNCHANGED <<windowVars, queueVars>>

\* enq_cas links the new node, stamping it under the relaxation lock.
EnqLink(t) ==
    /\ Goto(t, "enq_cas", "enq_tail")
    /\ NextIsNull(thread_index[t], put_descriptor[t].node)
    /\ stamp' = NextStamp
    /\ items' = [items EXCEPT ![thread_index[t]] = Append(@, NextStamp)]
    /\ AddLinear(NextStamp)
    /\ UNCHANGED <<windowVars, enq_descriptor, ops, published>>

EnqLinkFails(t) ==
    /\ Goto(t, "enq_cas", "put_window")
    /\ ~NextIsNull(thread_index[t], put_descriptor[t].node)
    /\ contention' = [contention EXCEPT ![t] = 1]
    /\ UNCHANGED <<arrays, windows, thread_PWindow, thread_GWindow, thread_index,
                   search, put_descriptor, get_descriptor, put_count, queueVars>>

\* Mutant of EnqSwingTail: returns without moving the tail.
EnqSwingNot(t) ==
    /\ Goto(t, "enq_tail", "idle")
    /\ contention' = [contention EXCEPT ![t] = 0]
    /\ put_descriptor' = [put_descriptor EXCEPT ![t] = NoPut]
    /\ UNCHANGED <<arrays, windows, thread_PWindow, thread_GWindow, thread_index,
                   search, get_descriptor, put_count, queueVars>>

\* Swing the tail to the new node and return; a failure means it was helped.
EnqSwingTail(t) ==
    /\ Goto(t, "enq_tail", "idle")
    /\ AdvanceTail(t, put_descriptor[t])
    /\ contention' = [contention EXCEPT ![t] = 0]
    /\ put_descriptor' = [put_descriptor EXCEPT ![t] = NoPut]
    /\ UNCHANGED <<get_array, windows, thread_PWindow, thread_GWindow, thread_index,
                   search, get_descriptor, put_count, queueVars>>

Enqueue(t) ==
    \/ EnqueueCall(t) \/ EnqReadNext(t) \/ EnqHelp(t) \/ EnqRecheckFails(t)
    \/ EnqRecheckPasses(t) \/ EnqLink(t) \/ EnqLinkFails(t) \/ EnqSwingTail(t)

-----------------------------------------------------------------------------
(***************************************************************************)
(* dequeue                                                                 *)
(***************************************************************************)
DequeueCall(t) ==
    /\ Goto(t, "idle", "get_window")
    /\ t \in Consumers
    /\ ops[t] < MaxOps
    /\ ops' = [ops EXCEPT ![t] = @ + 1]
    /\ contention' = [contention EXCEPT ![t] = 0]
    /\ published' = [published EXCEPT ![t] = UNION {PublishedIn(i) : i \in Index}]
    /\ UNCHANGED <<arrays, windows, thread_PWindow, thread_GWindow, thread_index,
                   search, put_descriptor, get_descriptor, put_count,
                   items, enq_descriptor, analysis>>

DeqReadTail(t) ==
    /\ Goto(t, "get_return", "deq_reread")
    /\ enq_descriptor' = [enq_descriptor EXCEPT ![t] = put_array[thread_index[t]]]
    /\ UNCHANGED <<windowVars, items, analysis, ops, published>>

DeqRereadTail(t) ==
    /\ Goto(t, "deq_reread", "deq_test")
    /\ \E order \in GetReadOrders :
          enq_descriptor' = [enq_descriptor EXCEPT ![t] =
                                SecondLoad(order, @, put_array[thread_index[t]])]
    /\ UNCHANGED <<windowVars, items, analysis, ops, published>>

\* Mutant of HeadIsTail: compares the counts, which may be torn from the nodes.
HeadIsTailByCount(t) == get_descriptor[t].get_count = enq_descriptor[t].put_count

HeadIsTail(t) == get_descriptor[t].node = enq_descriptor[t].node

\* Locals of dequeue at its return.
DeqLeave(t) ==
    /\ contention' = [contention EXCEPT ![t] = 0]
    /\ get_descriptor' = [get_descriptor EXCEPT ![t] = NoGet]
    /\ enq_descriptor' = [enq_descriptor EXCEPT ![t] = NoPut]
    /\ published' = [published EXCEPT ![t] = {}]
    /\ UNCHANGED <<put_array, windows, thread_PWindow, thread_GWindow, thread_index,
                   search, put_descriptor, put_count, items, stamp, ops>>

DeqReturnsEmpty(t) ==
    /\ Goto(t, "deq_test", "idle")
    /\ HeadIsTail(t)
    /\ NextIsNull(thread_index[t], get_descriptor[t].node)
    /\ DeqLeave(t)
    /\ UNCHANGED <<get_array, linear_clone>>

\* The tail lags behind: help the pending enqueue and try again.
DeqHelp(t) ==
    /\ Goto(t, "deq_test", "get_window")
    /\ HeadIsTail(t)
    /\ ~NextIsNull(thread_index[t], get_descriptor[t].node)
    /\ AdvanceTail(t, enq_descriptor[t])
    /\ ContentionUnless(t, put_array[thread_index[t]] = enq_descriptor[t])
    /\ UNCHANGED <<get_array, windows, thread_PWindow, thread_GWindow, thread_index,
                   search, put_descriptor, get_descriptor, put_count, queueVars>>

\* The value that a dequeue of thread t takes: head->next->val.
TakenBy(t) == items[thread_index[t]][Successor(get_descriptor[t].node)]

\* Mutant of HeadUnchanged: the head is stored, not compared and exchanged.
HeadOverwritten(t) == TRUE

HeadUnchanged(t) == get_array[thread_index[t]] = get_descriptor[t]

DeqTake(t) ==
    /\ Goto(t, "deq_test", "idle")
    /\ ~HeadIsTail(t)
    /\ HeadUnchanged(t)
    /\ get_array' = [get_array EXCEPT ![thread_index[t]] =
                        [node |-> Successor(get_descriptor[t].node),
                         get_count |-> get_descriptor[t].get_count + 1]]
    /\ RemoveLinear(TakenBy(t))
    /\ DeqLeave(t)

DeqTakeFails(t) ==
    /\ Goto(t, "deq_test", "get_window")
    /\ ~HeadIsTail(t)
    /\ ~HeadUnchanged(t)
    /\ contention' = [contention EXCEPT ![t] = 1]
    /\ UNCHANGED <<arrays, windows, thread_PWindow, thread_GWindow, thread_index,
                   search, put_descriptor, get_descriptor, put_count, queueVars>>

Dequeue(t) ==
    \/ DequeueCall(t) \/ DeqReadTail(t) \/ DeqRereadTail(t)
    \/ DeqReturnsEmpty(t) \/ DeqHelp(t) \/ DeqTake(t) \/ DeqTakeFails(t)

-----------------------------------------------------------------------------
\* create_queue: empty sub-queues, each with a dummy node.
Init ==
    /\ InitWindow
    /\ put_array = [i \in Index |-> NoPut]
    /\ get_array = [i \in Index |-> NoGet]
    /\ put_descriptor = [t \in Threads |-> NoPut]
    /\ get_descriptor = [t \in Threads |-> NoGet]
    /\ pc = [t \in Threads |-> "idle"]
    /\ items = [i \in Index |-> <<>>]
    /\ enq_descriptor = [t \in Threads |-> NoPut]
    /\ linear_clone = {}
    /\ stamp = 0
    /\ ops = [t \in Threads |-> 0]
    /\ published = [t \in Threads |-> {}]

WindowStep(t) ==
    /\ PutWindow(t) \/ GetWindow(t)
    /\ UNCHANGED queueVars

ThreadStep(t) == WindowStep(t) \/ Enqueue(t) \/ Dequeue(t)

\* Every thread has returned from its last operation.
Finished ==
    /\ \A t \in Threads :
          /\ pc[t] = "idle"
          /\ t \in Producers \cup Consumers => ops[t] = MaxOps
    /\ UNCHANGED vars

Next == (\E t \in Threads : ThreadStep(t)) \/ Finished

Spec == Init /\ [][Next]_vars

(***************************************************************************)
(* The operating system lets a scheduled thread that is inside an          *)
(* operation go on.  Nothing is assumed of a thread between two            *)
(* operations, nor of the threads that are not scheduled: they may stop    *)
(* for ever at any point, holding whatever they hold.                      *)
(***************************************************************************)
Running(t) == pc[t] # "idle" /\ ThreadStep(t)

FairSpec == Spec /\ \A t \in Scheduled : WF_vars(Running(t))

-----------------------------------------------------------------------------
PCs == PutWindowPCs \cup GetWindowPCs \cup
       {"idle", "put_return", "enq_recheck", "enq_cas", "enq_tail",
        "get_return", "deq_reread", "deq_test"}

PutDescriptor == [node : Nat, put_count : Nat]
GetDescriptor == [node : Nat, get_count : Nat]

\* Every variable has the type its C declaration gives it, and the searches
\* never run past the array or count more hops than one round.
TypeOK ==
    /\ put_array \in [Index -> PutDescriptor]
    /\ get_array \in [Index -> GetDescriptor]
    /\ global_PWindow \in Nat
    /\ global_GWindow \in Nat
    /\ thread_PWindow \in [Threads -> Nat]
    /\ thread_GWindow \in [Threads -> Nat]
    /\ thread_index \in [Threads -> Index]
    /\ contention \in [Threads -> {0, 1}]
    /\ hops \in [Threads -> 0 .. Width]
    /\ random \in [Threads -> 0 .. RandomHops]
    /\ notempty \in [Threads -> {0, 1}]
    /\ put_descriptor \in [Threads -> PutDescriptor]
    /\ get_descriptor \in [Threads -> GetDescriptor]
    /\ put_count \in [Threads -> Nat]
    /\ pc \in [Threads -> PCs]
    /\ items \in [Index -> Seq(Nat)]
    /\ enq_descriptor \in [Threads -> PutDescriptor]
    /\ linear_clone \in SUBSET Nat
    /\ stamp \in Nat
    /\ ops \in [Threads -> Nat]
    /\ published \in [Threads -> SUBSET Nat]

-----------------------------------------------------------------------------
\* "two windows which bounds the number of enqueues" (README of 2Dd-queue): no
\* sub-queue gets past the put window, and the window is shifted only when
\* every sub-queue has reached it, so none is left more than Depth behind.
PutWithinWindow ==
    \A i \in Index :
        /\ put_array[i].put_count <= global_PWindow
        /\ Len(items[i]) <= global_PWindow
        /\ global_PWindow <= put_array[i].put_count + Depth

\* The get window never runs ahead of the put window, and a sub-queue that was
\* read empty during the round that shifts it is left behind by at most two
\* shifts.
GetWindowLag ==
    /\ global_GWindow <= global_PWindow
    /\ \A i \in Index : global_GWindow <= get_array[i].get_count + 2 * Depth

\* Helping and compare-exchange on two words keep every descriptor whole: the
\* counts of a descriptor match its node, the head never passes the tail, and
\* the tail is at most one node behind the list it points into.
DescriptorsWhole ==
    \A i \in Index :
        /\ put_array[i].put_count = put_array[i].node
        /\ get_array[i].get_count = get_array[i].node
        /\ get_array[i].node <= put_array[i].node
        /\ Len(items[i]) - put_array[i].node \in {0, 1}

\* No item is lost, removed twice or removed before it is linked: the strict
\* list always holds exactly the stamps that are queued, and the item a dequeue
\* is about to take is in it, as the asserts of remove_linear demand.
ExactlyOnce ==
    /\ linear_clone = Queued
    /\ \A t \in Threads :
          pc[t] = "deq_test" /\ ~HeadIsTail(t) /\ HeadUnchanged(t)
              => TakenBy(t) \in linear_clone

\* A dequeue that is past the test for an empty sub-queue never follows a NULL
\* next pointer: head->next->val exists.
HeadHasNext ==
    \A t \in Threads :
        pc[t] = "deq_test" /\ ~HeadIsTail(t) =>
            get_descriptor[t].node < Len(items[thread_index[t]])

\* When enqueue returns its node is in front of the tail pointer: a tail that
\* lags always belongs to an enqueue that has not returned yet.
LagHasOwner ==
    \A i \in Index : put_array[i].node < Len(items[i]) =>
        \E t \in Threads : pc[t] = "enq_tail" /\ thread_index[t] = i

\* A dequeue reports the queue empty only if everything that was published
\* when it began has been removed since.
EmptyJustified ==
    [][\A t \in Threads : DeqReturnsEmpty(t) => published[t] \cap Queued = {}]_vars

\* The k of create_queue: relaxation_bound = depth * (width - 1).
RelaxationBound == Depth * (Width - 1)

\* A dequeue removes one of the oldest items: it skips at most k older ones.
KOutOfOrder ==
    [][\A t \in Threads : DeqTake(t) => Skipped(TakenBy(t)) <= RelaxationBound]_vars

\* Lock-freedom: an operation of a scheduled thread returns even if other
\* threads are suspended in the middle of theirs, as long as only finitely many
\* operations are started.
OperationsReturn == \A t \in Scheduled : pc[t] # "idle" ~> pc[t] = "idle"

-----------------------------------------------------------------------------
(***************************************************************************)
(* The inductive invariant behind PutWithinWindow.                         *)
(***************************************************************************)
\* Where put_descriptor holds words read from put_array[thread_index].
HoldsPut == {"put_reread", "put_check", "put_return",
             "enq_recheck", "enq_cas", "enq_tail"}

\* The indices that h linear hops ending at index i have left behind.
Visited(i, h) ==
    {j \in Index : (j < i /\ j >= i - h) \/ (j >= i /\ j >= Width + i - h)}

\* Put descriptors are whole, and the tail lags by at most one node.
PutWhole ==
    \A i \in Index :
        /\ put_array[i].put_count = put_array[i].node
        /\ put_array[i].node <= Len(items[i])
        /\ Len(items[i]) <= put_array[i].node + 1

\* A word of a descriptor that a thread has read is never ahead of the array.
PutDescriptorOld(t) ==
    pc[t] \in HoldsPut =>
        /\ put_descriptor[t].node <= put_array[thread_index[t]].node
        /\ put_descriptor[t].put_count <= put_array[thread_index[t]].put_count

\* A thread's window is never ahead of the global one.
PutWindowOld(t) == thread_PWindow[t] <= global_PWindow

\* The double check leaves room below the window; the link leaves a node behind.
EnqProgress(t) ==
    /\ pc[t] = "enq_cas" => put_descriptor[t].node < thread_PWindow[t]
    /\ pc[t] = "enq_tail" => put_descriptor[t].node < Len(items[thread_index[t]])

\* Every index that the current round has left behind was full under the
\* thread's window, and the random hops are over once a round has begun.
PutRound(t) ==
    pc[t] \in PutScanning \cup {"put_shift"} =>
        /\ \A j \in Visited(thread_index[t], hops[t]) :
              thread_PWindow[t] <= put_array[j].put_count
        /\ hops[t] > 0 => random[t] >= RandomHops
        /\ pc[t] = "put_shift" => hops[t] = Width

PutThreadInv(t) ==
    PutDescriptorOld(t) /\ PutWindowOld(t) /\ EnqProgress(t) /\ PutRound(t)

\* The put side as a whole; inductive together with TypeOK.
PutInv ==
    /\ PutWhole
    /\ PutWithinWindow
    /\ \A t \in Threads : PutThreadInv(t)
-----------------------------------------------------------------------------
(***************************************************************************)
(* The inductive invariant behind DescriptorsWhole, HeadHasNext and        *)
(* GetWindowLag.                                                           *)
(***************************************************************************)
\* Where get_descriptor holds words read from get_array[thread_index].
HoldsGet == {"get_reread", "get_count", "get_check", "get_return",
             "deq_reread", "deq_test"}

\* Get descriptors are whole, and no head is past its tail.
GetWhole ==
    \A i \in Index :
        /\ get_array[i].get_count = get_array[i].node
        /\ get_array[i].node <= put_array[i].node

\* Both windows move in whole shifts, so one that is ahead is a shift ahead.
WindowsAligned ==
    /\ \E k \in 0 .. global_PWindow : global_PWindow = k * Depth
    /\ \E k \in 0 .. global_GWindow : global_GWindow = k * Depth

\* A word of a descriptor that a thread has read is never ahead of the array.
GetDescriptorOld(t) ==
    pc[t] \in HoldsGet =>
        /\ get_descriptor[t].node <= get_array[thread_index[t]].node
        /\ get_descriptor[t].get_count <= get_array[thread_index[t]].get_count

\* A thread's window is never ahead of the global one.
GetWindowOld(t) == thread_GWindow[t] <= global_GWindow

\* The tail that dequeue compares with was read after the head.
TailReadLater(t) ==
    pc[t] \in {"deq_reread", "deq_test"} =>
        /\ get_descriptor[t].node <= enq_descriptor[t].node
        /\ enq_descriptor[t].node <= put_array[thread_index[t]].node

\* The put count that get_window compares with was read after the get count,
\* when the put window had left it at most one shift behind.
CountReadLater(t) ==
    pc[t] = "get_check" =>
        /\ get_descriptor[t].get_count <= put_count[t]
        /\ put_count[t] <= put_array[thread_index[t]].put_count
        /\ thread_GWindow[t] <= put_count[t] + Depth

\* No index that the current round has left behind lags more than one shift
\* behind the thread's window, and a round that saw an item saw it above that
\* window.
GetRound(t) ==
    pc[t] \in GetScanning \cup {"get_shift"} =>
        /\ \A j \in Visited(thread_index[t], hops[t]) :
              thread_GWindow[t] <= get_array[j].get_count + Depth
        /\ hops[t] > 0 => random[t] >= RandomHops
        /\ notempty[t] = 1 => \E j \in Index : thread_GWindow[t] < put_array[j].put_count
        /\ pc[t] = "get_shift" => hops[t] = Width /\ notempty[t] = 1

GetThreadInv(t) ==
    /\ GetDescriptorOld(t) /\ GetWindowOld(t) /\ TailReadLater(t)
    /\ CountReadLater(t) /\ GetRound(t)

\* The get side as a whole; inductive together with TypeOK and PutInv.
GetInv ==
    /\ GetWhole
    /\ WindowsAligned
    /\ GetWindowLag
    /\ \A t \in Threads : GetThreadInv(t)

\* Both sides: nothing in the windows, the descriptors or the searches of any
\* thread ever disagrees, whatever the threads have read and when.
QueueInv == PutInv /\ GetInv

\* Stamps are given once.
StampsUnique ==
    /\ \A i \in Index : \A p \in 1 .. Len(items[i]) : items[i][p] \in 1 .. stamp
    /\ \A i, j \in Index : \A p \in 1 .. Len(items[i]), q \in 1 .. Len(items[j]) :
          items[i][p] = items[j][q] => i = j /\ p = q

\* The strict list and the sub-queues hold the same stamps.
ItemsInv == StampsUnique /\ linear_clone = Queued

-----------------------------------------------------------------------------
(***************************************************************************)
(* What the orders of the two loads of a descriptor add, if put_window, or *)
(* get_window, loads the node first.                                       *)
(***************************************************************************)
\* A put descriptor's count is at least as new as its node.
PutCountNewer ==
    \A t \in Threads : pc[t] \in HoldsPut =>
        put_descriptor[t].node <= put_descriptor[t].put_count

\* A tail that lags is the very descriptor that its owner is going to exchange.
LagOwned ==
    \A i \in Index : put_array[i].node < Len(items[i]) =>
        \E t \in Threads : /\ pc[t] = "enq_tail" /\ thread_index[t] = i
                            /\ put_descriptor[t] = put_array[i]

LagInv == PutCountNewer /\ LagOwned

\* Nothing that was published when t's dequeue began is in sub-queue j behind
\* position n.
NonePublished(t, j, n) ==
    \A p \in n + 1 .. Len(items[j]) : items[j][p] \notin published[t]

\* Nothing of it is left in any sub-queue.
NoneLeft(t) == \A j \in Index : NonePublished(t, j, get_array[j].node)

\* Inside dequeue, from its call on.
InDequeue == GetWindowPCs \cup {"get_return", "deq_reread", "deq_test"}

\* What was published when a dequeue began was in front of the tails, and of
\* the put count that get_window has read.
PublishedInFront(t) ==
    /\ \A x \in published[t] : x <= stamp
    /\ pc[t] \in InDequeue =>
          \A j \in Index : NonePublished(t, j, put_array[j].node)
    /\ pc[t] = "get_check" => NonePublished(t, thread_index[t], put_count[t])

\* A get descriptor's count is at least as new as its node.
GetCountNewer(t) ==
    pc[t] \in HoldsGet => get_descriptor[t].node <= get_descriptor[t].get_count

\* An index that a round left behind as empty has nothing left.
LeftBehindEmpty(t) ==
    pc[t] \in GetScanning /\ notempty[t] = 0 =>
        \A j \in Visited(thread_index[t], hops[t]) :
            NonePublished(t, j, get_array[j].node)

\* get_window returns either when nothing is left, or with a head that has an
\* item in front of the tail; and so it stays when dequeue has read the tail.
GetReturnJustified(t) ==
    /\ pc[t] = "get_return" =>
          NoneLeft(t) \/ get_descriptor[t].node < put_array[thread_index[t]].node
    /\ pc[t] \in {"deq_reread", "deq_test"} =>
          NoneLeft(t) \/ get_descriptor[t].node < enq_descriptor[t].node

EmptyThreadInv(t) ==
    /\ PublishedInFront(t) /\ GetCountNewer(t)
    /\ LeftBehindEmpty(t) /\ GetReturnJustified(t)

\* What makes a dequeue that reports the queue empty right.
EmptyInv == \A t \in Threads : EmptyThreadInv(t)
=============================================================================
