----------------------------- MODULE MultiQueue -----------------------------
(***************************************************************************)
(* The multi-queue, src/multi-queue_random-relaxed: Width Michael-Scott    *)
(* queues, an operation goes to a random one, or, with NUM_CHOICES, to the *)
(* best of several.  The best is the one whose node is older: by a time    *)
(* stamp, of which nothing is known here, or, in src/queue-dra, by its     *)
(* count, which is its number in the sub-queue.                            *)
(*                                                                         *)
(* Nodes of a sub-queue are numbered as they are linked, 0 the dummy.  One *)
(* action is one access to shared memory, but for the look at a sub-queue  *)
(* while choosing one, which only rates it: what is done there later tests *)
(* what it finds again.                                                    *)
(***************************************************************************)
EXTENDS Integers, Sequences

CONSTANTS
    Enqueuers,  \* threads that enqueue
    Dequeuers,  \* threads that dequeue
    Width,      \* set->width
    Choices,    \* NUM_CHOICES, or 1 in a build without
    ByCount,    \* whether nodes are rated by count, as in queue-dra
    MaxOps      \* bound on the operations of one thread

VARIABLES
    linked,                \* the last node of each sub-queue
    put_array, get_array,  \* tail and head of each sub-queue
    local,                 \* index, node and tail of each thread
    pc, ops,
    wasEmpty               \* auxiliary: sub-queues that were empty during a dequeue

shared == <<linked, put_array, get_array>>
vars == <<shared, local, pc, ops, wasEmpty>>

Threads == Enqueuers \cup Dequeuers
Index == 0 .. Width - 1
IsNull(i, n) == n = linked[i]
NoLocals == [index |-> 0, node |-> 0, tail |-> 0, looked |-> 0]

Goto(t, from, to) == pc[t] = from /\ pc' = [pc EXCEPT ![t] = to]
Branch(t, from, cond, then, else) == Goto(t, from, IF cond THEN then ELSE else)
Content(i) == [n \in 1 .. linked[i] - get_array[i] |-> get_array[i] + n]

\* wasEmpty follows the sub-queues while a dequeue is in progress.
Watch ==
    wasEmpty' = [t \in Dequeuers |->
        IF pc'[t] = "idle" THEN {}
        ELSE {i \in Index : get_array'[i] = linked'[i] \/ i \in wasEmpty[t]}]

Call(t, entry) ==
    /\ ops[t] < MaxOps
    /\ ops' = [ops EXCEPT ![t] = @ + 1]
    /\ Goto(t, "idle", entry)
    /\ UNCHANGED <<shared, local>>

Return(t, from) ==
    /\ Goto(t, from, "idle")
    /\ local' = [local EXCEPT ![t] = NoLocals]

(***************************************************************************)
(* Look at one more index.  If none was found before, or if the tests for  *)
(* NULL allow, it replaces the one found before; otherwise that one stays. *)
(***************************************************************************)
Look(t, array, Replaces(_, _), Stays(_, _)) ==
    \E i \in Index :
        LET found == [local[t] EXCEPT !.index = i, !.node = array[i],
                                      !.looked = @ + 1]
        IN  \/ /\ local[t].looked = 0 \/ Replaces(local[t], found)
               /\ local' = [local EXCEPT ![t] = found]
            \/ /\ local[t].looked > 0 /\ Stays(local[t], found)
               /\ local' = [local EXCEPT ![t].looked = @ + 1]

-----------------------------------------------------------------------------
\* Whether a new find can be older than the one before, and the other way.
NewIsOlder(old, new) == ByCount => new.node < old.node
OldIsOlder(old, new) == ByCount => new.node >= old.node

\* enqueue, get_enqueue_index; put_array holds no NULL.
EnqChoose(t) ==
    /\ Branch(t, "enq_index", local[t].looked + 1 < Choices, "enq_index", "enq_next")
    /\ Look(t, put_array, NewIsOlder, OldIsOlder)
    /\ UNCHANGED <<shared, ops>>

EnqNext(t) ==
    /\ Branch(t, "enq_next", IsNull(local[t].index, local[t].node), "enq_cae", "enq_help")
    /\ UNCHANGED <<shared, local, ops>>

LinkNull(t) == IsNull(local[t].index, local[t].node)

EnqCAE(t) ==
    /\ \/ /\ LinkNull(t)
          /\ Goto(t, "enq_cae", "enq_swing")
          /\ linked' = [linked EXCEPT ![local[t].index] = @ + 1]
          /\ UNCHANGED local
       \/ /\ ~LinkNull(t)
          /\ Goto(t, "enq_cae", "enq_index")
          /\ local' = [local EXCEPT ![t].looked = 0]
          /\ UNCHANGED linked
    /\ UNCHANGED <<put_array, get_array, ops>>

\* CAS of the tail from the node read to its next.
AdvanceTail(t, node) ==
    /\ put_array' = [put_array EXCEPT ![local[t].index] = IF @ = node THEN @ + 1 ELSE @]
    /\ UNCHANGED <<linked, get_array, ops>>

EnqHelp(t) ==
    /\ Goto(t, "enq_help", "enq_index")
    /\ AdvanceTail(t, local[t].node)
    /\ local' = [local EXCEPT ![t].looked = 0]

EnqSwing(t) == Return(t, "enq_swing") /\ AdvanceTail(t, local[t].node)

Enqueue(t) ==
    \/ (t \in Enqueuers /\ Call(t, "enq_index"))
    \/ EnqChoose(t) \/ EnqNext(t) \/ EnqCAE(t) \/ EnqHelp(t) \/ EnqSwing(t)

-----------------------------------------------------------------------------
\* dequeue, get_dequeue_index: an empty sub-queue gives way to the next one
\* looked at, and one that is not stays when that one is empty.
Empty(d) == IsNull(d.index, d.node)
NewReplaces(old, new) == Empty(old) \/ (~Empty(new) /\ NewIsOlder(old, new))
OldStays(old, new) == ~Empty(old) /\ (Empty(new) \/ OldIsOlder(old, new))

DeqChoose(t) ==
    /\ Branch(t, "deq_index", local[t].looked + 1 < Choices, "deq_index", "deq_tail")
    /\ Look(t, get_array, NewReplaces, OldStays)
    /\ UNCHANGED <<shared, ops>>

DeqTail(t) ==
    /\ Goto(t, "deq_tail", "deq_test")
    /\ local' = [local EXCEPT ![t].tail = put_array[local[t].index]]
    /\ UNCHANGED <<shared, ops>>

HeadIsTail(t) == local[t].node = local[t].tail

DeqEmpty(t) ==
    /\ HeadIsTail(t) /\ IsNull(local[t].index, local[t].node)
    /\ Return(t, "deq_test")
    /\ UNCHANGED <<shared, ops>>

DeqTest(t) ==
    /\ ~(HeadIsTail(t) /\ IsNull(local[t].index, local[t].node))
    /\ Branch(t, "deq_test", HeadIsTail(t), "deq_help", "deq_cae")
    /\ UNCHANGED <<shared, local, ops>>

DeqHelp(t) ==
    /\ Goto(t, "deq_help", "deq_index")
    /\ AdvanceTail(t, local[t].tail)
    /\ local' = [local EXCEPT ![t].looked = 0]

HeadUnchanged(t) == get_array[local[t].index] = local[t].node

DeqCAE(t) ==
    /\ \/ /\ HeadUnchanged(t)
          /\ get_array' = [get_array EXCEPT ![local[t].index] = local[t].node + 1]
          /\ Return(t, "deq_cae")
       \/ /\ ~HeadUnchanged(t)
          /\ Goto(t, "deq_cae", "deq_index")
          /\ local' = [local EXCEPT ![t].looked = 0]
          /\ UNCHANGED get_array
    /\ UNCHANGED <<linked, put_array, ops>>

Dequeue(t) ==
    \/ (t \in Dequeuers /\ Call(t, "deq_index"))
    \/ DeqChoose(t) \/ DeqTail(t) \/ DeqEmpty(t) \/ DeqTest(t) \/ DeqHelp(t) \/ DeqCAE(t)

-----------------------------------------------------------------------------
\* create_queue: a dummy node in every sub-queue.
Init ==
    /\ linked = [i \in Index |-> 0]
    /\ put_array = [i \in Index |-> 0]
    /\ get_array = [i \in Index |-> 0]
    /\ local = [t \in Threads |-> NoLocals]
    /\ pc = [t \in Threads |-> "idle"]
    /\ ops = [t \in Threads |-> 0]
    /\ wasEmpty = [t \in Dequeuers |-> {}]

Finished ==
    /\ \A t \in Threads : pc[t] = "idle" /\ ops[t] = MaxOps
    /\ UNCHANGED vars

Next ==
    \/ (\E t \in Threads : Enqueue(t) \/ Dequeue(t)) /\ Watch
    \/ Finished

Spec == Init /\ [][Next]_vars

=============================================================================
