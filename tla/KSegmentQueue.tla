---------------------------- MODULE KSegmentQueue ----------------------------
(***************************************************************************)
(* The k-segment queue, src/queue-k-segment.  A list of segments of        *)
(* segment_size slots: items go to any free slot of the last segment and   *)
(* come from any live slot of the first; a slot is used once.  A full last *)
(* segment gets a successor, a used-up first one is passed.                *)
(*                                                                         *)
(* Segment s + 1 is the next of segment s.  An item is the stamp it gets   *)
(* when it enters its slot (RELAXATION_ANALYSIS).  One action is one       *)
(* access to shared memory, with the local steps around it.                *)
(***************************************************************************)
EXTENDS Integers, Sequences, FiniteSets

CONSTANTS
    Enqueuers,    \* threads that insert
    Dequeuers,    \* threads that delete
    SegmentSize,  \* segment_size
    MaxOps        \* bound on the operations of one thread

VARIABLES
    segments,   \* slots [node, deleted] of every segment, in list order
    head, tail, \* first and last segment
    stamp,      \* stamps given so far
    local,      \* thread-local variables
    pc,
    ops,        \* operations started by each thread
    published   \* auxiliary: what the queue held when a delete began

vars == <<segments, head, tail, stamp, local, pc, ops, published>>

Threads == Enqueuers \cup Dequeuers
Slots == 0 .. SegmentSize - 1
NULL == 0
Free == [node |-> NULL, deleted |-> 0]
Slot(t) == segments[local[t].segment][local[t].slot]
NextSlot(i) == IF i + 1 >= SegmentSize THEN 0 ELSE i + 1

Goto(t, from, to) == pc[t] = from /\ pc' = [pc EXCEPT ![t] = to]
Branch(t, from, cond, then, else) == Goto(t, from, IF cond THEN then ELSE else)

Live == {s \in 1 .. stamp : \E g \in DOMAIN segments, i \in Slots :
            segments[g][i] = [node |-> s, deleted |-> 0]}

\* Start of both searches: a random slot of the given segment.
Start(t, segment) ==
    \E i \in Slots :
        local' = [local EXCEPT ![t].slot = i, ![t].segment = segment, ![t].walk = 0,
                               ![t].pending = 0]

Return(t, from) ==
    /\ Goto(t, from, "idle")
    /\ local' = [local EXCEPT ![t] = [slot |-> 0, segment |-> 1, walk |-> 0, node |-> NULL,
                                      deleted |-> 0, pending |-> 0]]
    /\ published' = [published EXCEPT ![t] = {}]

-----------------------------------------------------------------------------
\* queue_relaxed_insert, get_push_slot
InsertCall(t) ==
    /\ t \in Enqueuers /\ ops[t] < MaxOps
    /\ ops' = [ops EXCEPT ![t] = @ + 1]
    /\ Goto(t, "idle", "push_start")
    /\ UNCHANGED <<segments, head, tail, stamp, local, published>>

PushStart(t) ==
    /\ Goto(t, "push_start", "push_read")
    /\ Start(t, tail)
    /\ UNCHANGED <<segments, head, tail, stamp, ops, published>>

PushRead(t) ==
    /\ Branch(t, "push_read", Slot(t).node = NULL, "enq_cae", "push_walk")
    /\ UNCHANGED <<segments, head, tail, stamp, local, ops, published>>

\* Mutant of PushWalk: a search that moves to another segment goes on counting.
PushWalkOn(t) ==
    /\ Branch(t, "push_walk", local[t].walk >= SegmentSize, "create", "push_read")
    /\ local' = [local EXCEPT
           ![t].walk = IF local[t].walk >= SegmentSize THEN @ ELSE @ + 1,
           ![t].slot = IF local[t].segment = tail THEN NextSlot(@) ELSE @,
           ![t].segment = tail]
    /\ UNCHANGED <<segments, head, tail, stamp, ops, published>>

\* The slot is taken: go to the next one, or to the segment that is last now;
\* after a whole round make a new segment.
PushWalk(t) ==
    LET here == local[t].segment = tail
        walk == IF here THEN local[t].walk ELSE 0
    IN  /\ Branch(t, "push_walk", walk >= SegmentSize, "create", "push_read")
        /\ local' = [local EXCEPT
               ![t].walk = IF walk >= SegmentSize THEN walk ELSE walk + 1,
               ![t].slot = IF here THEN NextSlot(@) ELSE @,
               ![t].segment = tail]
        /\ UNCHANGED <<segments, head, tail, stamp, ops, published>>

\* try_create_segment: link a new segment, or see that there is one to help.
CreateSegment(t) ==
    /\ \/ /\ local[t].segment = Len(segments)
          /\ segments' = Append(segments, [i \in Slots |-> Free])
          /\ Goto(t, "create", "swing")
       \/ /\ local[t].segment # Len(segments)
          /\ Branch(t, "create", tail = local[t].segment, "swing", "created")
          /\ UNCHANGED segments
    /\ UNCHANGED <<head, tail, stamp, local, ops, published>>

SwingTail(t) ==
    /\ Goto(t, "swing", "created")
    /\ tail' = IF tail = local[t].segment THEN tail + 1 ELSE tail
    /\ UNCHANGED <<segments, head, stamp, local, ops, published>>

Created(t) ==
    /\ Goto(t, "created", "push_read")
    /\ local' = [local EXCEPT ![t].segment = tail, ![t].walk = 0]
    /\ UNCHANGED <<segments, head, tail, stamp, ops, published>>

\* enq_cae stamps the item under the relaxation lock.
EnqCAE(t) ==
    /\ \/ /\ Slot(t).node = NULL
          /\ stamp' = stamp + 1
          /\ segments' = [segments EXCEPT ![local[t].segment][local[t].slot].node = stamp + 1]
          /\ Return(t, "enq_cae")
       \/ /\ Slot(t).node # NULL
          /\ Goto(t, "enq_cae", "push_start")
          /\ UNCHANGED <<stamp, segments, local, published>>
    /\ UNCHANGED <<head, tail, ops>>

Insert(t) ==
    \/ InsertCall(t) \/ PushStart(t) \/ PushRead(t) \/ PushWalk(t) \/ CreateSegment(t)
    \/ SwingTail(t) \/ Created(t) \/ EnqCAE(t)

-----------------------------------------------------------------------------
\* queue_relaxed_delete, get_pop_slot
DeleteCall(t) ==
    /\ t \in Dequeuers /\ ops[t] < MaxOps
    /\ ops' = [ops EXCEPT ![t] = @ + 1]
    /\ Goto(t, "idle", "pop_start")
    /\ published' = [published EXCEPT ![t] = Live]
    /\ UNCHANGED <<segments, head, tail, stamp, local>>

\* Mutant of PopStart: the search begins at the last segment.
PopStartLast(t) ==
    /\ Goto(t, "pop_start", "pop_top")
    /\ Start(t, tail)
    /\ UNCHANGED <<segments, head, tail, stamp, ops, published>>

PopStart(t) ==
    /\ Goto(t, "pop_start", "pop_top")
    /\ Start(t, head)
    /\ UNCHANGED <<segments, head, tail, stamp, ops, published>>

\* Top of the loop: after a whole round give up on the last segment, pass
\* another one unless a slot of it was seen free, else walk on.
PopTop(t) ==
    /\ \/ /\ local[t].walk >= SegmentSize /\ local[t].segment = tail
          /\ Goto(t, "pop_top", "deq_cas") /\ UNCHANGED local
       \/ /\ local[t].walk >= SegmentSize /\ local[t].segment # tail
          /\ Branch(t, "pop_top", local[t].pending = 0, "pop_pass", "pop_read")
          /\ UNCHANGED local
       \/ /\ local[t].walk < SegmentSize
          /\ Goto(t, "pop_top", "pop_read")
          /\ local' = [local EXCEPT ![t].walk = @ + 1]
    /\ UNCHANGED <<segments, head, tail, stamp, ops, published>>

PassSegment(t) ==
    /\ Goto(t, "pop_pass", "passed")
    /\ head' = IF head = local[t].segment THEN head + 1 ELSE head
    /\ UNCHANGED <<segments, tail, stamp, local, ops, published>>

Passed(t) ==
    /\ Goto(t, "passed", "pop_read")
    /\ local' = [local EXCEPT ![t].segment = head, ![t].walk = 0]
    /\ UNCHANGED <<segments, head, tail, stamp, ops, published>>

PopRead(t) ==
    /\ Goto(t, "pop_read", "pop_deleted")
    /\ local' = [local EXCEPT ![t].node = Slot(t).node]
    /\ UNCHANGED <<segments, head, tail, stamp, ops, published>>

PopReadDeleted(t) ==
    /\ Branch(t, "pop_deleted", local[t].node # NULL /\ Slot(t).deleted = 0,
              "deq_cas", "pop_walk")
    /\ local' = [local EXCEPT ![t].deleted = Slot(t).deleted]
    /\ UNCHANGED <<segments, head, tail, stamp, ops, published>>

\* Nothing here: go to the next slot, or to the segment that is first now.
PopWalk(t) ==
    /\ Goto(t, "pop_walk", "pop_top")
    /\ local' = IF local[t].segment = head
                THEN [local EXCEPT ![t].slot = NextSlot(@),
                                   ![t].pending = IF local[t].node = NULL THEN 1 ELSE @]
                ELSE [local EXCEPT ![t].segment = head, ![t].walk = 0]
    /\ UNCHANGED <<segments, head, tail, stamp, ops, published>>

NothingFound(t) == local[t].deleted = 1 \/ local[t].node = NULL

ReturnEmpty(t) ==
    /\ NothingFound(t)
    /\ Return(t, "deq_cas")
    /\ UNCHANGED <<segments, head, tail, stamp, ops>>

\* Mutant of Undeleted: a plain store instead of the compare and swap.
UndeletedAnyway(t) == TRUE

Undeleted(t) == Slot(t).deleted = 0

DeqCAS(t) ==
    /\ ~NothingFound(t)
    /\ \/ /\ Undeleted(t)
          /\ segments' = [segments EXCEPT ![local[t].segment][local[t].slot].deleted = 1]
          /\ Return(t, "deq_cas")
       \/ /\ ~Undeleted(t)
          /\ Goto(t, "deq_cas", "pop_start")
          /\ UNCHANGED <<segments, local, published>>
    /\ UNCHANGED <<head, tail, stamp, ops>>

Delete(t) ==
    \/ DeleteCall(t) \/ PopStart(t) \/ PopTop(t) \/ PassSegment(t) \/ Passed(t)
    \/ PopRead(t) \/ PopReadDeleted(t) \/ PopWalk(t) \/ ReturnEmpty(t) \/ DeqCAS(t)

-----------------------------------------------------------------------------
Init ==
    /\ segments = <<[i \in Slots |-> Free]>>
    /\ head = 1 /\ tail = 1
    /\ stamp = 0
    /\ local = [t \in Threads |-> [slot |-> 0, segment |-> 1, walk |-> 0, node |-> NULL,
                                   deleted |-> 0, pending |-> 0]]
    /\ pc = [t \in Threads |-> "idle"]
    /\ ops = [t \in Threads |-> 0]
    /\ published = [t \in Threads |-> {}]

Finished ==
    /\ \A t \in Threads : pc[t] = "idle" /\ ops[t] = MaxOps
    /\ UNCHANGED vars

Next == (\E t \in Threads : Insert(t) \/ Delete(t)) \/ Finished

Spec == Init /\ [][Next]_vars

-----------------------------------------------------------------------------
\* What is in the queue, in the order it entered: the i-th item is the one
\* before which i - 1 others entered.
Older(s) == {r \in Live : r < s}
Content == [i \in 1 .. Cardinality(Live) |->
               CHOOSE s \in Live : Cardinality(Older(s)) = i - 1]

\* The pointers stay on the list, and no segment is left behind with an item
\* in it or with a slot that an insert may still take.
SegmentsUsedUp ==
    /\ head <= tail /\ tail <= Len(segments) /\ Len(segments) <= tail + 1
    /\ \A g \in 1 .. head - 1, i \in Slots : segments[g][i].deleted = 1
    /\ \A g \in 1 .. Len(segments) - 1, i \in Slots : segments[g][i].node # NULL
=============================================================================
