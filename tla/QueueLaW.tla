------------------------------ MODULE QueueLaW ------------------------------
(***************************************************************************)
(* The elastic Lateral-as-Window 2D queue, 2Dd-queue_elastic-law.  The     *)
(* lateral is a Michael-Scott queue of windows: its tail is the put        *)
(* window, the node after its head the get window.  A lateral node is its  *)
(* position, id, in nodes.  thread_ltail_pointer is always assigned with   *)
(* thread_put_window (pw), and thread_lhead_pointer is the node before     *)
(* thread_get_window (gw).                                                 *)
(***************************************************************************)
EXTENDS ElasticQueue

VARIABLE lateral    \* [nodes, head, tail]

vars == <<lateral, shared, th>>

LateralNode(id, max, width, depth) ==
    [id |-> id, max |-> max, width |-> width, depth |-> depth]

\* The put window, the get window and the window below it.
PutWin == lateral.nodes[lateral.tail]
GetWin == lateral.nodes[lateral.head + 1]
HeadHasNode == lateral.head < Len(lateral.nodes)

-----------------------------------------------------------------------------
PutEnter(t) ==
    /\ At(t, "put_enter")
    /\ \E i \in 0 .. PutWin.width - 1 :
          /\ th[t].contention = 0 /\ th[t].pi < PutWin.width => i = th[t].pi
          /\ th' = [th EXCEPT ![t].pc = "put_read", ![t].pw = PutWin, ![t].pi = i,
                              ![t].hops = 0, ![t].random = 0]
    /\ UNCHANGED <<lateral, shared>>

\* Adopt the window at the tail of the lateral and start the round again.
AdoptTail(t) ==
    th' = [th EXCEPT ![t].pc = "put_read", ![t].pw = PutWin, ![t].hops = 0,
                     ![t].pi = Clamp(@, PutWin)]

PutCheck(t) ==
    LET me == th[t] IN
    /\ At(t, "put_check")
    /\ \/ lateral.tail # me.pw.id /\ AdoptTail(t)
       \/ lateral.tail = me.pw.id /\ me.des.count < me.pw.max /\ PutReturn(t)
       \/ /\ lateral.tail = me.pw.id /\ me.des.count >= me.pw.max
          /\ me.hops < me.pw.width
          /\ PutHop(t)
       \/ /\ lateral.tail = me.pw.id /\ me.des.count >= me.pw.max
          /\ me.hops >= me.pw.width
          /\ th' = [th EXCEPT ![t].pc = "put_shift"]
    /\ UNCHANGED <<lateral, shared>>

\* shift_put, first half: link a window of the dimensions asked for.
ShiftLink(t) ==
    LET me == th[t]
        next == LateralNode(me.pw.id + 1, me.pw.max + set.depth, set.width, set.depth)
    IN  /\ At(t, "put_shift")
        /\ lateral' = IF lateral.tail = me.pw.id /\ me.pw.id = Len(lateral.nodes)
                      THEN [lateral EXCEPT !.nodes = Append(@, next)] ELSE lateral
        /\ th' = [th EXCEPT ![t].pc = "put_swing"]
        /\ UNCHANGED shared

\* shift_put, second half: swing the lateral's tail.
ShiftSwing(t) ==
    /\ At(t, "put_swing")
    /\ lateral' = [lateral EXCEPT !.tail = IF @ = th[t].pw.id THEN @ + 1 ELSE @]
    /\ th' = [th EXCEPT ![t].pc = "put_resync"]
    /\ UNCHANGED shared

PutResync(t) == At(t, "put_resync") /\ AdoptTail(t) /\ UNCHANGED <<lateral, shared>>

PutWindow(t) ==
    PutEnter(t) \/ PutCheck(t) \/ ShiftLink(t) \/ ShiftSwing(t) \/ PutResync(t)

-----------------------------------------------------------------------------
GetEnter(t) ==
    LET me == th[t]
        moved == lateral.head + 1 # me.gw.id /\ HeadHasNode
    IN  /\ At(t, "get_enter")
        /\ \E i \in 0 .. me.gw.width - 1 :
              /\ me.contention = 0 => i = me.gi
              /\ th' = [th EXCEPT ![t].pc = "get_read", ![t].hops = 0, ![t].random = 0,
                                  ![t].gi = IF moved THEN Clamp(i, GetWin) ELSE i,
                                  ![t].gw = IF moved THEN GetWin ELSE @]
        /\ UNCHANGED <<lateral, shared>>

\* Mutant of PutAbove: a put window level with the get window will do.
PutAboveOrLevel(t) == th[t].pw.max >= th[t].gw.max

\* The put window is known to be above: every sub-queue of this one was filled.
PutAbove(t) == th[t].pw.max > th[t].gw.max

GetCount(t) ==
    /\ At(t, "get_count")
    /\ th' = [th EXCEPT ![t].pc = "get_check", ![t].count =
                 IF PutAbove(t) THEN Bottom(th[t].pw) ELSE put_array[th[t].gi].count]
    /\ UNCHANGED <<lateral, shared>>

\* Adopt the window after the head of the lateral.
AdoptHead(t, hops) ==
    th' = [th EXCEPT ![t].pc = "get_read", ![t].gw = GetWin, ![t].gi = Clamp(@, GetWin),
                     ![t].hops = hops]

\* A window that moved is adopted without starting the round again.
GetCheck(t) ==
    LET me == th[t]
        insync == lateral.head + 1 = me.gw.id
    IN  /\ At(t, "get_check")
        /\ \/ ~insync /\ ~HeadHasNode /\ GetReturn(t)
           \/ ~insync /\ HeadHasNode /\ AdoptHead(t, me.hops)
           \/ insync /\ GetValid(t) /\ GetReturn(t)
           \/ insync /\ ~GetValid(t) /\ me.hops # me.gw.width /\ GetHop(t, 0)
           \/ /\ insync /\ ~GetValid(t) /\ me.hops = me.gw.width
              /\ th' = [th EXCEPT ![t].pc = "get_tail"]
        /\ UNCHANGED <<lateral, shared>>

\* A fruitless round: empty if this is the last window, else shift to the next.
GetTail(t) ==
    /\ At(t, "get_tail")
    /\ \/ th[t].gw.id = lateral.tail /\ GetReturn(t)
       \/ th[t].gw.id # lateral.tail /\ th' = [th EXCEPT ![t].pc = "get_shift"]
    /\ UNCHANGED <<lateral, shared>>

ShiftGet(t) ==
    /\ At(t, "get_shift")
    /\ lateral' = [lateral EXCEPT !.head = IF @ + 1 = th[t].gw.id THEN @ + 1 ELSE @]
    /\ th' = [th EXCEPT ![t].pc = "get_resync"]
    /\ UNCHANGED shared

GetResync(t) == At(t, "get_resync") /\ AdoptHead(t, 0) /\ UNCHANGED <<lateral, shared>>

GetWindow(t) ==
    \/ GetEnter(t) \/ GetCount(t) \/ GetCheck(t) \/ GetTail(t) \/ ShiftGet(t)
    \/ GetResync(t)

DequeueCall(t) ==
    /\ CanDequeue(t)
    /\ th' = [th EXCEPT ![t].pc = "get_enter", ![t].ops = @ + 1, ![t].pw = PutWin]
    /\ UNCHANGED <<lateral, shared>>

\* The queue operations that leave the lateral alone.
QueueStep(t) ==
    /\ \/ ReadDescriptors(t) \/ Enqueue(t) \/ DeqReadTail(t, PutAbove(t))
       \/ DeqRereadTail(t) \/ DeqNext(t, Bottom(PutWin)) \/ DeqHelp(t) \/ DeqCae(t)
    /\ UNCHANGED lateral

-----------------------------------------------------------------------------
\* create_queue with its lateral of two windows, then init_thread_windows.
Init ==
    \E w \in Widths, d \in Depths :
        LET below == LateralNode(1, 0, w, 0)
            first == LateralNode(2, d, w, d)
        IN  /\ InitQueue(w, d)
            /\ lateral = [nodes |-> <<below, first>>, head |-> 1, tail |-> 2]
            /\ th = [t \in Threads |-> Locals(0, 0, first, first, 0)]

ThreadStep(t) == PutWindow(t) \/ GetWindow(t) \/ DequeueCall(t) \/ QueueStep(t)

Update == (UpdateWidth \/ UpdateDepth) /\ UNCHANGED lateral

Next ==
    \/ \E t \in Threads : ThreadStep(t)
    \/ Update
    \/ AllIdle /\ UNCHANGED vars

Spec == Init /\ [][Next]_vars

-----------------------------------------------------------------------------
\* No tail count is above the put window, and a window that was left behind is
\* full: every sub-queue of its width reached its max before the shift.
PutRows ==
    /\ \A i \in Index : put_array[i].count <= PutWin.max
    /\ \A n \in 2 .. lateral.tail - 1 : \A i \in 0 .. lateral.nodes[n].width - 1 :
          put_array[i].count >= lateral.nodes[n].max
=============================================================================
