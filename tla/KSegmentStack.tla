---------------------------- MODULE KSegmentStack ----------------------------
(***************************************************************************)
(* The k-segment stack, src/stack-k-segment.  A stack of segments of       *)
(* segment_size slots: items go to a free slot of the top segment and come *)
(* from a used one.  A full segment gets another on top; one that two      *)
(* passes found empty is removed, after the first pass has announced this  *)
(* in the counter remove, at which a push looks before it returns.         *)
(*                                                                         *)
(* The model is the build without RELAXATION_ANALYSIS, in which nothing    *)
(* but the compare-exchanges orders a push and a pop.  A node is the       *)
(* number of its push; one action is one access to shared memory.          *)
(***************************************************************************)
EXTENDS Integers, Sequences, FiniteSets

CONSTANTS
    Pushers,      \* threads that insert
    Poppers,      \* threads that delete
    SegmentSize,  \* segment_size
    MaxOps,       \* operations of each thread
    MaxSegments   \* bound on the segments created

VARIABLES
    segments,  \* [slots, next, remove] of every segment created
    head,      \* [segment, version]
    local,     \* thread-local variables
    pc,
    ops,       \* operations started by each thread
    nodes,     \* nodes created so far
    pushed,    \* auxiliary: nodes whose push has returned
    popped     \* auxiliary: nodes that a pop took

vars == <<segments, head, local, pc, ops, nodes, pushed, popped>>

Threads == Pushers \cup Poppers
Slots == 0 .. SegmentSize - 1
NULL == 0
Segment(t) == segments[local[t].segment]
Slot(t) == Segment(t).slots[local[t].slot]
SetSlot(t, n) ==
    segments' = [segments EXCEPT ![local[t].segment].slots[local[t].slot] = n]
AddRemove(t, n) == segments' = [segments EXCEPT ![local[t].segment].remove = @ + n]
NextSlot(i) == IF i + 1 >= SegmentSize THEN 0 ELSE i + 1
NewSegment(below) == [slots |-> [i \in Slots |-> NULL], next |-> below, remove |-> 0]

Goto(t, from, to) == pc[t] = from /\ pc' = [pc EXCEPT ![t] = to]
Branch(t, from, cond, then, else) == Goto(t, from, IF cond THEN then ELSE else)

NoLocals == [slot |-> 0, head |-> [segment |-> 1, version |-> 0], segment |-> 1,
             walk |-> 0, node |-> NULL, new |-> NULL, marked |-> 0, resume |-> "idle"]

\* current_head = *head, current_segment = current_head.segment: two loads.
Reload(t, walk, resume) ==
    local' = [local EXCEPT ![t].walk = walk, ![t].resume = resume, ![t].marked = 0]

LoadSegment(t) ==
    /\ Goto(t, "load", "load_version")
    /\ local' = [local EXCEPT ![t].head.segment = head.segment,
                              ![t].segment = head.segment]
    /\ UNCHANGED <<segments, head, ops, nodes, pushed, popped>>

LoadVersion(t) ==
    /\ Goto(t, "load_version", local[t].resume)
    /\ local' = [local EXCEPT ![t].head.version = head.version]
    /\ UNCHANGED <<segments, head, ops, nodes, pushed, popped>>

\* Start of both searches: a random slot of the top segment.
Start(t, from, resume) ==
    /\ Goto(t, from, "load")
    /\ \E i \in Slots :
          local' = [local EXCEPT ![t].slot = i, ![t].walk = 0, ![t].marked = 0,
                                 ![t].resume = resume]
    /\ UNCHANGED <<segments, head, ops, nodes, pushed, popped>>

Return(t, from) ==
    /\ Goto(t, from, "idle")
    /\ local' = [local EXCEPT ![t] = NoLocals]

-----------------------------------------------------------------------------
\* mstack_relaxed_insert, get_push_slot
InsertCall(t) ==
    /\ t \in Pushers /\ ops[t] < MaxOps[t]
    /\ ops' = [ops EXCEPT ![t] = @ + 1]
    /\ Goto(t, "idle", "push_start")
    /\ nodes' = nodes + 1
    /\ local' = [local EXCEPT ![t].new = nodes + 1]
    /\ UNCHANGED <<segments, head, pushed, popped>>

PushStart(t) == Start(t, "push_start", "push_top")

PushTop(t) ==
    /\ Branch(t, "push_top", local[t].walk >= SegmentSize, "create", "push_read")
    /\ local' = [local EXCEPT ![t].walk = IF @ >= SegmentSize THEN @ ELSE @ + 1]
    /\ UNCHANGED <<segments, head, ops, nodes, pushed, popped>>

HeadUnchanged(t) == head = local[t].head

\* try_create_segment
CreateSegment(t) ==
    /\ Len(segments) < MaxSegments
    /\ Goto(t, "create", "load")
    /\ \/ /\ HeadUnchanged(t)
          /\ segments' = Append(segments, NewSegment(local[t].segment))
          /\ head' = [segment |-> Len(segments) + 1, version |-> local[t].head.version + 1]
       \/ ~HeadUnchanged(t) /\ UNCHANGED <<segments, head>>
    /\ Reload(t, 1, "push_read")
    /\ UNCHANGED <<ops, nodes, pushed, popped>>

PushRead(t) ==
    /\ Branch(t, "push_read", Slot(t) = NULL, "push_cas", "push_walk")
    /\ UNCHANGED <<segments, head, local, ops, nodes, pushed, popped>>

PushWalk(t) ==
    /\ \/ /\ local[t].segment = head.segment
          /\ Goto(t, "push_walk", "push_top")
          /\ local' = [local EXCEPT ![t].slot = NextSlot(@)]
       \/ /\ local[t].segment # head.segment
          /\ Goto(t, "push_walk", "load")
          /\ Reload(t, 0, "push_top")
    /\ UNCHANGED <<segments, head, ops, nodes, pushed, popped>>

PushCAS(t) ==
    /\ Branch(t, "push_cas", Slot(t) = NULL, "commit", "push_start")
    /\ IF Slot(t) = NULL THEN SetSlot(t, local[t].new) ELSE UNCHANGED segments
    /\ UNCHANGED <<head, local, ops, nodes, pushed, popped>>

\* check_commit: a node that is gone was popped; one in a segment that may be
\* removed is taken back.
InsertReturns(t, from) ==
    /\ pushed' = pushed \cup {local[t].new}
    /\ Return(t, from)

CheckSlot(t) ==
    /\ \/ Slot(t) # local[t].new /\ InsertReturns(t, "commit")
       \/ /\ Slot(t) = local[t].new
          /\ Goto(t, "commit", "commit_remove")
          /\ UNCHANGED <<local, pushed>>
    /\ UNCHANGED <<segments, head, ops, nodes, popped>>

\* Mutant of MayBeRemoved: a push never looks.
MayBeRemovedNever(t) == FALSE

MayBeRemoved(t) == Segment(t).remove # 0

CheckRemove(t) ==
    /\ \/ ~MayBeRemoved(t) /\ InsertReturns(t, "commit_remove")
       \/ /\ MayBeRemoved(t)
          /\ Goto(t, "commit_remove", "take_back")
          /\ UNCHANGED <<local, pushed>>
    /\ UNCHANGED <<segments, head, ops, nodes, popped>>

TakeBack(t) ==
    /\ \/ /\ Slot(t) = local[t].new
          /\ SetSlot(t, NULL)
          /\ Goto(t, "take_back", "push_start")
          /\ UNCHANGED <<local, pushed>>
       \/ /\ Slot(t) # local[t].new
          /\ InsertReturns(t, "take_back")
          /\ UNCHANGED segments
    /\ UNCHANGED <<head, ops, nodes, popped>>

Insert(t) ==
    \/ InsertCall(t) \/ PushStart(t) \/ PushTop(t) \/ CreateSegment(t) \/ PushRead(t)
    \/ PushWalk(t) \/ PushCAS(t) \/ CheckSlot(t) \/ CheckRemove(t) \/ TakeBack(t)

-----------------------------------------------------------------------------
\* mstack_relaxed_delete, get_pop_slot
DeleteCall(t) ==
    /\ t \in Poppers /\ ops[t] < MaxOps[t]
    /\ ops' = [ops EXCEPT ![t] = @ + 1]
    /\ Goto(t, "idle", "pop_start")
    /\ UNCHANGED <<segments, head, local, nodes, pushed, popped>>

PopStart(t) == Start(t, "pop_start", "pop_top")

IsLast(t) == Segment(t).next = NULL
TwoPasses(t) == local[t].walk >= 2 * SegmentSize

PopMark(t) ==
    /\ Goto(t, "pop_top", "pop_read")
    /\ local[t].walk = SegmentSize /\ ~IsLast(t)
    /\ AddRemove(t, 1)
    /\ local' = [local EXCEPT ![t].walk = @ + 1, ![t].marked = 1]
    /\ UNCHANGED <<head, ops, nodes, pushed, popped>>

PopTop(t) ==
    /\ Goto(t, "pop_top", "pop_read")
    /\ ~TwoPasses(t)
    /\ local[t].walk = SegmentSize => IsLast(t)
    /\ local' = [local EXCEPT ![t].walk = @ + 1]
    /\ UNCHANGED <<segments, head, ops, nodes, pushed, popped>>

\* After the second pass: nothing left in the last segment.
PopLast(t) ==
    /\ TwoPasses(t) /\ IsLast(t)
    /\ Branch(t, "pop_top", local[t].segment = head.segment, "pop_cas", "pop_unmark")
    /\ UNCHANGED <<segments, head, local, ops, nodes, pushed, popped>>

\* After the second pass: remove another segment.
RemoveSegment(t) ==
    /\ TwoPasses(t) /\ ~IsLast(t)
    /\ \/ /\ HeadUnchanged(t)
          /\ head' = [segment |-> Segment(t).next, version |-> local[t].head.version + 1]
          /\ Goto(t, "pop_top", "load")
          /\ Reload(t, 1, "pop_read")
       \/ /\ ~HeadUnchanged(t)
          /\ Goto(t, "pop_top", "pop_unmark")
          /\ UNCHANGED <<head, local>>
    /\ UNCHANGED <<segments, ops, nodes, pushed, popped>>

Unmark(t) ==
    /\ Goto(t, "pop_unmark", "load")
    /\ AddRemove(t, -1)
    /\ Reload(t, 1, "pop_read")
    /\ UNCHANGED <<head, ops, nodes, pushed, popped>>

PopRead(t) ==
    /\ Goto(t, "pop_read",
            CASE Slot(t) = NULL -> "pop_walk"
              [] Slot(t) # NULL /\ local[t].marked = 1 -> "pop_found"
              [] OTHER -> "pop_cas")
    /\ local' = [local EXCEPT ![t].node = Slot(t)]
    /\ UNCHANGED <<segments, head, ops, nodes, pushed, popped>>

PopFound(t) ==
    /\ Goto(t, "pop_found", "pop_cas")
    /\ AddRemove(t, -1)
    /\ local' = [local EXCEPT ![t].marked = 0]
    /\ UNCHANGED <<head, ops, nodes, pushed, popped>>

PopWalk(t) ==
    /\ \/ /\ local[t].segment = head.segment
          /\ Goto(t, "pop_walk", "pop_top")
          /\ local' = [local EXCEPT ![t].slot = NextSlot(@)]
       \/ /\ local[t].segment # head.segment
          /\ Branch(t, "pop_walk", local[t].marked = 1, "pop_leave", "load")
          /\ IF local[t].marked = 1 THEN UNCHANGED local ELSE Reload(t, 0, "pop_top")
    /\ UNCHANGED <<segments, head, ops, nodes, pushed, popped>>

PopLeave(t) ==
    /\ Goto(t, "pop_leave", "load")
    /\ AddRemove(t, -1)
    /\ Reload(t, 0, "pop_top")
    /\ UNCHANGED <<head, ops, nodes, pushed, popped>>

ReturnEmpty(t) ==
    /\ local[t].node = NULL
    /\ Return(t, "pop_cas")
    /\ UNCHANGED <<segments, head, ops, nodes, pushed, popped>>

PopCAS(t) ==
    /\ local[t].node # NULL
    /\ \/ /\ Slot(t) = local[t].node
          /\ SetSlot(t, NULL)
          /\ popped' = popped \cup {local[t].node}
          /\ Return(t, "pop_cas")
       \/ /\ Slot(t) # local[t].node
          /\ Goto(t, "pop_cas", "pop_start")
          /\ UNCHANGED <<segments, local, popped>>
    /\ UNCHANGED <<head, ops, nodes, pushed>>

Delete(t) ==
    \/ DeleteCall(t) \/ PopStart(t) \/ PopMark(t) \/ PopTop(t) \/ PopLast(t)
    \/ RemoveSegment(t) \/ Unmark(t) \/ PopRead(t) \/ PopFound(t) \/ PopWalk(t)
    \/ PopLeave(t) \/ ReturnEmpty(t) \/ PopCAS(t)

-----------------------------------------------------------------------------
Init ==
    /\ segments = <<NewSegment(NULL)>>
    /\ head = [segment |-> 1, version |-> 0]
    /\ local = [t \in Threads |-> NoLocals]
    /\ pc = [t \in Threads |-> "idle"]
    /\ ops = [t \in Threads |-> 0]
    /\ nodes = 0
    /\ pushed = {}
    /\ popped = {}

Finished ==
    /\ \/ \A t \in Threads : pc[t] = "idle" /\ ops[t] = MaxOps[t]
       \/ Len(segments) = MaxSegments
    /\ UNCHANGED vars

ThreadStep(t) == Insert(t) \/ Delete(t) \/ LoadSegment(t) \/ LoadVersion(t)

Next == (\E t \in Threads : ThreadStep(t)) \/ Finished

Spec == Init /\ [][Next]_vars

-----------------------------------------------------------------------------
\* The segments under segment g, and itself.
Under[g \in 0 .. Len(segments)] ==
    IF g = NULL THEN {} ELSE {g} \cup Under[segments[g].next]

Stored(g) == {segments[g].slots[i] : i \in Slots} \ {NULL}

\* A push that returned is not lost with the segment it went to: its node was
\* popped or is in a segment under the head.
NoneLost ==
    pushed \subseteq popped \cup UNION {Stored(g) : g \in Under[head.segment]}

Marking(g) == {t \in Threads : local[t].marked = 1 /\ local[t].segment = g}

\* "if not last segement mark the head to indicate possiblity of remove": the
\* counter of a segment on the stack is the number of pops that announced its
\* removal, so that a push may stay when there are none.
RemoveCounts ==
    \A g \in Under[head.segment] : segments[g].remove = Cardinality(Marking(g))
=============================================================================
