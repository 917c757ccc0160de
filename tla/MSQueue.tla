------------------------------ MODULE MSQueue ------------------------------
(***************************************************************************)
(* The Michael-Scott queue, src/queue-ms.  A linked list with a dummy node *)
(* in front, a head and a tail pointer, each moved by compare-and-swap.    *)
(*                                                                         *)
(* Nodes are numbered in the order they are linked, 0 the dummy, so the    *)
(* next pointer of node n is n + 1, or NULL if n is the last node, linked. *)
(* One action is one access to shared memory.                              *)
(***************************************************************************)
EXTENDS Integers, Sequences

CONSTANTS
    Enqueuers,  \* threads that insert
    Dequeuers,  \* threads that delete
    MaxOps      \* bound on the operations of one thread

VARIABLES
    linked,      \* the last node of the list
    head, tail,  \* qu->head, qu->tail
    local,       \* head, tail and next (NULL or not) of each thread
    pc, ops,
    wasEmpty     \* auxiliary: the queue was empty during this delete

shared == <<linked, head, tail>>
vars == <<shared, local, pc, ops, wasEmpty>>

Threads == Enqueuers \cup Dequeuers
IsNull(n) == n = linked
NoLocals == [head |-> 0, tail |-> 0, last |-> FALSE]

Goto(t, from, to) == pc[t] = from /\ pc' = [pc EXCEPT ![t] = to]
Branch(t, from, cond, then, else) == Goto(t, from, IF cond THEN then ELSE else)
Content == [i \in 1 .. linked - head |-> head + i]

\* wasEmpty follows the queue while a delete is in progress.
Watch ==
    wasEmpty' = [t \in Dequeuers |->
        pc'[t] # "idle" /\ (head' = linked' \/ (pc[t] # "idle" /\ wasEmpty[t]))]

Call(t, entry) ==
    /\ ops[t] < MaxOps
    /\ ops' = [ops EXCEPT ![t] = @ + 1]
    /\ Goto(t, "idle", entry)
    /\ UNCHANGED <<shared, local>>

Return(t, from) ==
    /\ Goto(t, from, "idle")
    /\ local' = [local EXCEPT ![t] = NoLocals]

-----------------------------------------------------------------------------
\* queue_ms_insert
InsReadTail(t) ==
    /\ Goto(t, "ins_tail", "ins_next")
    /\ local' = [local EXCEPT ![t].tail = tail]
    /\ UNCHANGED <<shared, ops>>

InsReadNext(t) ==
    /\ Goto(t, "ins_next", "ins_same")
    /\ local' = [local EXCEPT ![t].last = IsNull(local[t].tail)]
    /\ UNCHANGED <<shared, ops>>

InsTailSame(t) ==
    /\ Goto(t, "ins_same", CASE local[t].tail # tail -> "ins_tail"
                             [] local[t].tail = tail /\ local[t].last -> "ins_link"
                             [] OTHER -> "ins_help")
    /\ UNCHANGED <<shared, local, ops>>

Link(t) ==
    /\ Branch(t, "ins_link", IsNull(local[t].tail), "ins_swing", "ins_tail")
    /\ linked' = IF IsNull(local[t].tail) THEN linked + 1 ELSE linked
    /\ UNCHANGED <<head, tail, local, ops>>

\* CAS of qu->tail from the tail read to its next.
AdvanceTail(t) ==
    /\ tail' = IF tail = local[t].tail THEN tail + 1 ELSE tail
    /\ UNCHANGED <<linked, head, ops>>

InsHelp(t) == Goto(t, "ins_help", "ins_tail") /\ AdvanceTail(t) /\ UNCHANGED local

Swing(t) == Return(t, "ins_swing") /\ AdvanceTail(t)

Insert(t) ==
    \/ (t \in Enqueuers /\ Call(t, "ins_tail"))
    \/ InsReadTail(t) \/ InsReadNext(t) \/ InsTailSame(t) \/ Link(t) \/ InsHelp(t) \/ Swing(t)

-----------------------------------------------------------------------------
\* queue_ms_delete
DelReadHead(t) ==
    /\ Goto(t, "del_head", "del_tail")
    /\ local' = [local EXCEPT ![t].head = head]
    /\ UNCHANGED <<shared, ops>>

DelReadTail(t) ==
    /\ Goto(t, "del_tail", "del_next")
    /\ local' = [local EXCEPT ![t].tail = tail]
    /\ UNCHANGED <<shared, ops>>

\* Mutant of DelReadNext: a head that is the tail is taken to be the last node.
DelReadNextNot(t) ==
    /\ Goto(t, "del_next", "del_same")
    /\ local' = [local EXCEPT ![t].last = local[t].head = local[t].tail]
    /\ UNCHANGED <<shared, ops>>

DelReadNext(t) ==
    /\ Goto(t, "del_next", "del_same")
    /\ local' = [local EXCEPT ![t].last = IsNull(local[t].head)]
    /\ UNCHANGED <<shared, ops>>

HeadIsTail(t) == local[t].head = local[t].tail

DelHeadSame(t) ==
    /\ \/ /\ local[t].head # head
          /\ Goto(t, "del_same", "del_head")
          /\ UNCHANGED local
       \/ /\ local[t].head = head /\ HeadIsTail(t) /\ local[t].last
          /\ Return(t, "del_same")
       \/ /\ local[t].head = head /\ ~(HeadIsTail(t) /\ local[t].last)
          /\ Branch(t, "del_same", HeadIsTail(t), "del_help", "del_cas")
          /\ UNCHANGED local
    /\ UNCHANGED <<shared, ops>>

DelHelp(t) == Goto(t, "del_help", "del_head") /\ AdvanceTail(t) /\ UNCHANGED local

\* Mutant of NewHead: swings the head to the tail.
NewHeadTail(t) == local[t].tail

NewHead(t) == local[t].head + 1

HeadUnchanged(t) == head = local[t].head

DelCAS(t) ==
    /\ \/ HeadUnchanged(t) /\ head' = NewHead(t) /\ Return(t, "del_cas")
       \/ /\ ~HeadUnchanged(t)
          /\ Goto(t, "del_cas", "del_head")
          /\ UNCHANGED <<head, local>>
    /\ UNCHANGED <<linked, tail, ops>>

Delete(t) ==
    \/ (t \in Dequeuers /\ Call(t, "del_head"))
    \/ DelReadHead(t) \/ DelReadTail(t) \/ DelReadNext(t) \/ DelHeadSame(t)
    \/ DelHelp(t) \/ DelCAS(t)

-----------------------------------------------------------------------------
\* queue_new: the dummy node.
Init ==
    /\ linked = 0 /\ head = 0 /\ tail = 0
    /\ local = [t \in Threads |-> NoLocals]
    /\ pc = [t \in Threads |-> "idle"]
    /\ ops = [t \in Threads |-> 0]
    /\ wasEmpty = [t \in Dequeuers |-> FALSE]

Finished ==
    /\ \A t \in Threads : pc[t] = "idle" /\ ops[t] = MaxOps
    /\ UNCHANGED vars

Next ==
    \/ (\E t \in Threads : Insert(t) \/ Delete(t)) /\ Watch
    \/ Finished

Spec == Init /\ [][Next]_vars

-----------------------------------------------------------------------------
\* The tail pointer lags behind the last node by at most one and never falls
\* behind the head, so a delete whose head is not its tail has a next node to
\* move the head to.
TailBetween ==
    /\ head <= tail /\ tail <= linked /\ linked <= tail + 1
    /\ \A t \in Dequeuers : pc[t] = "del_cas" => ~local[t].last
=============================================================================
