---------------------------- MODULE ElasticQueue ----------------------------
(***************************************************************************)
(* What the two elastic 2D queues have in common: sub-queues with a head   *)
(* and a tail descriptor, enqueue and dequeue inside a window that a       *)
(* put_window or get_window found, and the dimensions of the next window,  *)
(* which update_width and update_depth change at any time.                 *)
(*                                                                         *)
(* A queue node is its position in its sub-queue, 0 the dummy; its next    *)
(* pointer is NULL when it is the last.  The rows a window spans are       *)
(* numbered, and a window [max, depth, width, ...] is the rows above       *)
(* max - depth up to max.  Counts are uint64_t: max - depth wraps around.  *)
(* One action is one access to shared memory; a descriptor is read by two  *)
(* loads, in either order.  A queue extends this module, adds its windows  *)
(* and moves a thread from "put_enter" to "put_return", and from           *)
(* "get_enter" to "get_return".                                            *)
(***************************************************************************)
EXTENDS Integers, Sequences

CONSTANTS
    Threads, Producers, Consumers,
    Widths,      \* the widths that update_width is called with
    Depths,      \* the depths that update_depth is called with
    RandomHops,  \* set->random_hops
    MaxOps,      \* operations of each thread
    MaxUpdates   \* calls of update_width and update_depth

VARIABLES
    put_array,  \* tail descriptor [node, count] of each sub-queue
    get_array,  \* head descriptor [node, count] of each sub-queue
    items,      \* per sub-queue, the number of nodes that were linked
    set,        \* width and depth of the next window, and the updates so far
    th          \* thread-local variables and the locals of each operation

shared == <<put_array, get_array, items, set>>

UINT64 == 1000   \* stands for 2^64: above every count of a bounded run
UINT16 == 16     \* stands for 2^16, the range of width_t: above every width
Index == 0 .. (CHOOSE m \in Widths : \A w \in Widths : w <= m) - 1
Dummy == [node |-> 0, count |-> 0]

Bottom(win) == (win.max - win.depth) % UINT64
NextIsNull(i, n) == n >= items[i]
At(t, label) == th[t].pc = label

\* A thread between two operations, with its two indices and windows.
Locals(pi, gi, pw, gw, ops) ==
    [pc |-> "idle", pi |-> pi, gi |-> gi, pw |-> pw, gw |-> gw, ops |-> ops,
     contention |-> 0, hops |-> 0, random |-> 0, notempty |-> 0,
     des |-> Dummy, enq |-> Dummy, count |-> 0, new |-> gw]

Return(t) == th' = [th EXCEPT ![t] = Locals(@.pi, @.gi, @.pw, @.gw, @.ops)]

\* Compare-and-exchange of a descriptor.
CAE(array, i, old, new) == IF array[i] = old THEN [array EXCEPT ![i] = new] ELSE array

\* The second of the two loads of a descriptor.
SecondLoad(old, new) == {[new EXCEPT !.node = old.node], [old EXCEPT !.node = new.node]}

\* An index is moved back into a window that is narrower.
Clamp(i, win) == IF i >= win.width THEN 0 ELSE i

\* hop: random hops first, then a counted linear search over the window's width.
Hop(me, index, win) ==
    IF me.random < RandomHops
    THEN {[random |-> me.random + 1, hops |-> me.hops, index |-> i] :
              i \in 0 .. win.width - 1}
    ELSE {[random |-> me.random, hops |-> (me.hops + 1) % UINT16,
           index |-> Clamp(index + 1, win)]}

PutHop(t) ==
    \E h \in Hop(th[t], th[t].pi, th[t].pw) :
        th' = [th EXCEPT ![t].pc = "put_read", ![t].random = h.random,
                         ![t].hops = h.hops, ![t].pi = h.index]

GetHop(t, notempty) ==
    \E h \in Hop(th[t], th[t].gi, th[t].gw) :
        th' = [th EXCEPT ![t].pc = "get_read", ![t].random = h.random, ![t].hops = h.hops,
                         ![t].gi = h.index, ![t].notempty = notempty]

\* put_window and get_window return: equal widths share the index.
SharedWidth(me) == me.gw.width = me.pw.width

PutReturn(t) ==
    th' = [th EXCEPT ![t].pc = "put_return",
                     ![t].gi = IF SharedWidth(th[t]) THEN th[t].pi ELSE @]

GetReturn(t) ==
    th' = [th EXCEPT ![t].pc = "get_return",
                     ![t].pi = IF SharedWidth(th[t]) THEN th[t].gi ELSE @]

\* The descriptor reads of put_window and get_window.
ReadDescriptors(t) ==
    /\ \/ /\ At(t, "put_read")
          /\ th' = [th EXCEPT ![t].pc = "put_reread", ![t].des = put_array[th[t].pi]]
       \/ /\ At(t, "put_reread")
          /\ \E d \in SecondLoad(th[t].des, put_array[th[t].pi]) :
                th' = [th EXCEPT ![t].pc = "put_check", ![t].des = d]
       \/ /\ At(t, "get_read")
          /\ th' = [th EXCEPT ![t].pc = "get_reread", ![t].des = get_array[th[t].gi]]
       \/ /\ At(t, "get_reread")
          /\ \E d \in SecondLoad(th[t].des, get_array[th[t].gi]) :
                th' = [th EXCEPT ![t].pc = "get_count", ![t].des = d]
    /\ UNCHANGED shared

\* The sub-queue read lies in the get window and was read non-empty.
NonEmpty(t) == th[t].des.count < th[t].count
GetValid(t) == th[t].des.count < th[t].gw.max /\ NonEmpty(t)

-----------------------------------------------------------------------------
EnqueueCall(t) ==
    /\ At(t, "idle") /\ t \in Producers /\ th[t].ops < MaxOps
    /\ th' = [th EXCEPT ![t].pc = "put_enter", ![t].ops = @ + 1]
    /\ UNCHANGED shared

\* The count of the next item: a gap closes at the bottom of the window.
CountAbove(count, bottom) == (IF count >= bottom THEN count + 1 ELSE bottom + 1) % UINT64

\* Mutant of EnqRecheck: no double check.
EnqRecheckSkipped(t) ==
    /\ At(t, "put_return")
    /\ th' = [th EXCEPT ![t].pc = "enq_next"]
    /\ UNCHANGED shared

\* The double check against a descriptor whose words were read apart.
EnqRecheck(t) ==
    /\ At(t, "put_return")
    /\ th' = [th EXCEPT ![t].pc = IF put_array[th[t].pi].count >= th[t].pw.max
                                  THEN "put_enter" ELSE "enq_next"]
    /\ UNCHANGED shared

NewDescriptor(t) ==
    [node |-> th[t].des.node + 1, count |-> CountAbove(th[t].des.count, Bottom(th[t].pw))]

\* tail->next is NULL: try to link; else help the pending enqueue and retry.
EnqNext(t) ==
    LET me == th[t] IN
    /\ At(t, "enq_next")
    /\ \/ /\ NextIsNull(me.pi, me.des.node)
          /\ th' = [th EXCEPT ![t].pc = "enq_cae"]
          /\ UNCHANGED put_array
       \/ /\ ~NextIsNull(me.pi, me.des.node)
          /\ put_array' = CAE(put_array, me.pi, me.des, NewDescriptor(t))
          /\ th' = [th EXCEPT ![t].pc = "put_enter", ![t].contention =
                                  IF put_array[me.pi] = me.des THEN @ ELSE 1]
    /\ UNCHANGED <<get_array, items, set>>

EnqCae(t) ==
    LET me == th[t] IN
    /\ At(t, "enq_cae")
    /\ \/ /\ NextIsNull(me.pi, me.des.node)
          /\ items' = [items EXCEPT ![me.pi] = @ + 1]
          /\ th' = [th EXCEPT ![t].pc = "enq_tail"]
       \/ /\ ~NextIsNull(me.pi, me.des.node)
          /\ th' = [th EXCEPT ![t].pc = "put_enter", ![t].contention = 1]
          /\ UNCHANGED items
    /\ UNCHANGED <<put_array, get_array, set>>

EnqTail(t) ==
    /\ At(t, "enq_tail")
    /\ put_array' = CAE(put_array, th[t].pi, th[t].des, NewDescriptor(t))
    /\ Return(t)
    /\ UNCHANGED <<get_array, items, set>>

Enqueue(t) == EnqueueCall(t) \/ EnqRecheck(t) \/ EnqNext(t) \/ EnqCae(t) \/ EnqTail(t)

-----------------------------------------------------------------------------
CanDequeue(t) == At(t, "idle") /\ t \in Consumers /\ th[t].ops < MaxOps

\* safe tells that the put window is known to be above this get window, so that
\* the tail need not be looked at.
DeqReadTail(t, safe) ==
    /\ At(t, "get_return")
    /\ th' = IF safe THEN [th EXCEPT ![t].pc = "deq_cae"]
             ELSE [th EXCEPT ![t].pc = "deq_reread", ![t].enq = put_array[th[t].gi]]
    /\ UNCHANGED shared

DeqRereadTail(t) ==
    /\ At(t, "deq_reread")
    /\ \E d \in SecondLoad(th[t].enq, put_array[th[t].gi]) :
          th' = [th EXCEPT ![t].enq = d,
                           ![t].pc = IF d.node = th[t].des.node THEN "deq_next" ELSE "deq_cae"]
    /\ UNCHANGED shared

\* head = tail: the sub-queue is empty, or its tail lags behind; the helper
\* computes the count from the put window it reads now.
DeqNext(t, bottom) ==
    /\ At(t, "deq_next")
    /\ \/ NextIsNull(th[t].gi, th[t].des.node) /\ Return(t)
       \/ /\ ~NextIsNull(th[t].gi, th[t].des.node)
          /\ th' = [th EXCEPT ![t].pc = "deq_help",
                              ![t].count = CountAbove(th[t].enq.count, bottom)]
    /\ UNCHANGED shared

DeqHelp(t) ==
    LET me == th[t] IN
    /\ At(t, "deq_help")
    /\ put_array' = CAE(put_array, me.gi, me.enq,
                        [node |-> me.enq.node + 1, count |-> me.count])
    /\ th' = [th EXCEPT ![t].pc = "get_enter", ![t].enq = Dummy, ![t].contention =
                            IF put_array[me.gi] = me.enq THEN @ ELSE 1]
    /\ UNCHANGED <<get_array, items, set>>

DeqCae(t) ==
    LET me == th[t] IN
    /\ At(t, "deq_cae")
    /\ \/ /\ get_array[me.gi] = me.des
          /\ get_array' = [get_array EXCEPT ![me.gi] =
                 [node |-> me.des.node + 1,
                  count |-> CountAbove(me.des.count, Bottom(me.gw))]]
          /\ Return(t)
       \/ /\ get_array[me.gi] # me.des
          /\ th' = [th EXCEPT ![t].pc = "get_enter", ![t].enq = Dummy, ![t].contention = 1]
          /\ UNCHANGED get_array
    /\ UNCHANGED <<put_array, items, set>>

-----------------------------------------------------------------------------
UpdateWidth ==
    /\ set.updates < MaxUpdates
    /\ \E w \in Widths \ {set.width} : set' = [set EXCEPT !.width = w, !.updates = @ + 1]
    /\ UNCHANGED <<put_array, get_array, items, th>>

UpdateDepth ==
    /\ set.updates < MaxUpdates
    /\ \E d \in Depths \ {set.depth} : set' = [set EXCEPT !.depth = d, !.updates = @ + 1]
    /\ UNCHANGED <<put_array, get_array, items, th>>

\* create_queue: every sub-queue up to the largest width has its dummy node.
InitQueue(w, d) ==
    /\ put_array = [i \in Index |-> Dummy]
    /\ get_array = [i \in Index |-> Dummy]
    /\ items = [i \in Index |-> 0]
    /\ set = [width |-> w, depth |-> d, updates |-> 0]

AllIdle == \A t \in Threads : At(t, "idle")
-----------------------------------------------------------------------------
\* No dequeue installs the NULL next pointer of the last node and reads its
\* value, although the tail is not looked at when the put window is above.
HeadHasNext ==
    \A t \in Threads : At(t, "deq_cae") /\ get_array[th[t].gi] = th[t].des =>
        ~NextIsNull(th[t].gi, th[t].des.node)
=============================================================================
