------------------------------ MODULE QueueLpW ------------------------------
(***************************************************************************)
(* The elastic Lateral-plus-Window 2D queue, 2Dd-queue_elastic-lpw.  The   *)
(* two windows are 128-bit words that compare-exchange replaces whole and  *)
(* that are read by two loads, first max, then the rest.  A change of      *)
(* width is announced one window ahead (next_width) and recorded in the    *)
(* lateral, a Michael-Scott queue of [count, width]: rows from count on    *)
(* have that width.  The get window takes its widths from the lateral.     *)
(***************************************************************************)
EXTENDS ElasticQueue

VARIABLES
    global_PWindow,  \* [max, depth, width, next_width]
    global_GWindow,  \* [max, depth, width]
    lateral          \* [nodes, head, tail]

windows == <<global_PWindow, global_GWindow, lateral>>
vars == <<windows, shared, th>>

Node(n) == lateral.nodes[n]
HasNode(n) == n <= Len(lateral.nodes)

\* word2 of a window read after word1: max stays as it was read.
SecondWord(max, win) == [win EXCEPT !.max = max]

-----------------------------------------------------------------------------
PutEnter(t) ==
    /\ At(t, "put_enter")
    /\ th' = IF th[t].pw.max # global_PWindow.max
             THEN [th EXCEPT ![t].pc = "put_word2", ![t].pw.max = global_PWindow.max]
             ELSE [th EXCEPT ![t].pc = "put_index"]
    /\ UNCHANGED <<windows, shared>>

PutWord2(t) ==
    /\ At(t, "put_word2")
    /\ th' = [th EXCEPT ![t].pc = "put_index",
                        ![t].pw = SecondWord(@.max, global_PWindow)]
    /\ UNCHANGED <<windows, shared>>

PutIndex(t) ==
    /\ At(t, "put_index")
    /\ \E i \in 0 .. th[t].pw.width - 1 :
          /\ th[t].contention = 0 /\ th[t].pi < th[t].pw.width => i = th[t].pi
          /\ th' = [th EXCEPT ![t].pc = "put_read", ![t].pi = i, ![t].hops = 0,
                              ![t].random = 0]
    /\ UNCHANGED <<windows, shared>>

PutCheck(t) ==
    LET me == th[t]
        insync == me.pw.max = global_PWindow.max
    IN  /\ At(t, "put_check")
        /\ \/ /\ ~insync
              /\ th' = [th EXCEPT ![t].pc = "put_sync", ![t].pw.max = global_PWindow.max]
           \/ insync /\ me.des.count < me.pw.max /\ PutReturn(t)
           \/ insync /\ me.des.count >= me.pw.max /\ me.hops < me.pw.width /\ PutHop(t)
           \/ /\ insync /\ me.des.count >= me.pw.max /\ me.hops >= me.pw.width
              /\ th' = [th EXCEPT ![t].pc = "put_lateral"]
        /\ UNCHANGED <<windows, shared>>

\* The rest of the window, and the round starts again.
NewRound(t, pw) ==
    th' = [th EXCEPT ![t].pc = "put_read", ![t].pw = pw, ![t].hops = 0, ![t].pi = Clamp(@, pw)]

PutSync(t) ==
    /\ At(t, "put_sync")
    /\ NewRound(t, SecondWord(th[t].pw.max, global_PWindow))
    /\ UNCHANGED <<windows, shared>>

\* Mutant of PutLateral: a change of width that is recorded is recorded again.
PutLateralAgain(t) ==
    LET me == th[t] IN
    /\ At(t, "put_lateral")
    /\ \/ me.pw.max # global_PWindow.max /\ NewRound(t, me.pw)
       \/ /\ me.pw.max = global_PWindow.max
          /\ th' = IF me.pw.width # me.pw.next_width
                   THEN [th EXCEPT ![t].pc = "lat_link", ![t].count = lateral.tail]
                   ELSE [th EXCEPT ![t].pc = "put_shift"]
    /\ UNCHANGED <<windows, shared>>

\* maybe_enq_lateral: a window about to change width is recorded, once.  count
\* holds the tail that was read.
PutLateral(t) ==
    LET me == th[t] IN
    /\ At(t, "put_lateral")
    /\ \/ me.pw.max # global_PWindow.max /\ NewRound(t, me.pw)
       \/ /\ me.pw.max = global_PWindow.max
          /\ th' = IF me.pw.width # me.pw.next_width /\ Node(lateral.tail).count < me.pw.max + 1
                   THEN [th EXCEPT ![t].pc = "lat_link", ![t].count = lateral.tail]
                   ELSE [th EXCEPT ![t].pc = "put_shift"]
    /\ UNCHANGED <<windows, shared>>

LateralLink(t) ==
    LET me == th[t] IN
    /\ At(t, "lat_link")
    /\ lateral' = IF HasNode(me.count + 1) THEN lateral
                  ELSE [lateral EXCEPT !.nodes =
                           Append(@, [count |-> me.pw.max + 1, width |-> me.pw.next_width])]
    /\ th' = [th EXCEPT ![t].pc = "lat_tail"]
    /\ UNCHANGED <<global_PWindow, global_GWindow, shared>>

LateralTail(t) ==
    /\ At(t, "lat_tail")
    /\ lateral' = [lateral EXCEPT !.tail = IF @ = th[t].count THEN @ + 1 ELSE @]
    /\ th' = [th EXCEPT ![t].pc = "put_shift", ![t].count = 0]
    /\ UNCHANGED <<global_PWindow, global_GWindow, shared>>

PutShift(t) ==
    LET pw == th[t].pw
        new == [max |-> pw.max + set.depth, depth |-> set.depth, width |-> pw.next_width,
                next_width |-> set.width]
    IN  /\ At(t, "put_shift")
        /\ global_PWindow' = IF global_PWindow = pw THEN new ELSE global_PWindow
        /\ NewRound(t, global_PWindow')
        /\ UNCHANGED <<global_GWindow, lateral, shared>>

PutWindow(t) ==
    \/ PutEnter(t) \/ PutWord2(t) \/ PutIndex(t) \/ PutCheck(t) \/ PutSync(t)
    \/ PutLateral(t) \/ LateralLink(t) \/ LateralTail(t) \/ PutShift(t)

-----------------------------------------------------------------------------
GetEnter(t) ==
    LET me == th[t] IN
    /\ At(t, "get_enter")
    /\ \E i \in Index :
          /\ IF me.contention = 0 THEN i = me.gi ELSE i < me.gw.width
          /\ th' = [th EXCEPT ![t].hops = 0, ![t].random = 0, ![t].notempty = 0, ![t].gi = i,
                        ![t].gw.max = global_GWindow.max,
                        ![t].pc = IF me.gw.max # global_GWindow.max
                                  THEN "get_word2" ELSE "get_read"]
    /\ UNCHANGED <<windows, shared>>

AdoptWord2(t) ==
    /\ At(t, "get_word2")
    /\ LET gw == SecondWord(th[t].gw.max, global_GWindow)
       IN  th' = [th EXCEPT ![t].pc = "get_read", ![t].gw = gw, ![t].gi = Clamp(@, gw)]
    /\ UNCHANGED <<windows, shared>>

\* Below the put window every sub-queue is known to be filled.
GetCount(t) ==
    LET lower == Bottom(th[t].pw) IN
    /\ At(t, "get_count")
    /\ th' = [th EXCEPT ![t].pc = "get_check", ![t].count =
                 IF lower >= th[t].des.count THEN lower ELSE put_array[th[t].gi].count]
    /\ UNCHANGED <<windows, shared>>

GetCheck(t) ==
    LET me == th[t]
        insync == me.gw.max = global_GWindow.max
    IN  /\ At(t, "get_check")
        /\ \/ /\ ~insync
              /\ th' = [th EXCEPT ![t].pc = "get_word2", ![t].gw.max = global_GWindow.max,
                                  ![t].hops = 0, ![t].notempty = 0]
           \/ insync /\ GetValid(t) /\ GetReturn(t)
           \/ /\ insync /\ ~GetValid(t) /\ me.hops # me.gw.width
              /\ GetHop(t, IF NonEmpty(t) THEN 1 ELSE me.notempty)
           \/ /\ insync /\ ~GetValid(t) /\ me.hops = me.gw.width
              /\ th' = [th EXCEPT ![t].pc = "get_tail"]
        /\ UNCHANGED <<windows, shared>>

\* Mutant of ShiftMax: the thread's copy of the put window is believed.
ShiftMaxStale(pw, m) == IF m > pw.max THEN pw.max ELSE m

\* get_shift_max: not past the put window, which is read only when the thread's
\* copy of it is too low.
ShiftMax(pw, m) ==
    IF m > pw.max \/ m > global_PWindow.max THEN global_PWindow.max ELSE m

\* A fruitless round: empty if the put window is the same, else shift up.
GetTail(t) ==
    /\ At(t, "get_tail")
    /\ \/ /\ th[t].notempty = 0 /\ th[t].gw.max = global_PWindow.max
          /\ GetReturn(t)
       \/ /\ th[t].notempty = 1 \/ th[t].gw.max # global_PWindow.max
          /\ th' = [th EXCEPT ![t].pc = "get_max"]
    /\ UNCHANGED <<windows, shared>>

\* count holds the max of the new window.
GetMax(t) ==
    /\ At(t, "get_max")
    /\ th' = [th EXCEPT ![t].pc = "get_lateral",
                        ![t].count = ShiftMax(th[t].pw, th[t].gw.max + set.depth)]
    /\ UNCHANGED <<windows, shared>>

\* The last lateral node from the head on that lies at or below a row.
LastUpTo(row) ==
    CHOOSE n \in lateral.head .. Len(lateral.nodes) :
        /\ n > lateral.head => Node(n).count <= row
        /\ HasNode(n + 1) => Node(n + 1).count > row

\* get_next_window_lateral: the width of the first new row; a later change of
\* width cuts the window short.
GetLateral(t) ==
    LET me == th[t]
        current == LastUpTo(me.gw.max + 1)
        max == IF HasNode(current + 1) /\ Node(current + 1).count <= me.count
               THEN Node(current + 1).count - 1 ELSE me.count
    IN  /\ At(t, "get_lateral")
        /\ th' = [th EXCEPT ![t].pc = "get_shift", ![t].count = 0, ![t].new =
                     [max |-> max, depth |-> (max - me.gw.max) % UINT64,
                      width |-> Node(current).width]]
        /\ UNCHANGED <<windows, shared>>

\* The new round, under whatever window the compare-exchange left.
GetRound(t, pc, gw) ==
    th' = [th EXCEPT ![t].pc = pc, ![t].gw = gw, ![t].new = gw, ![t].hops = 0,
                     ![t].notempty = 0, ![t].gi = Clamp(@, gw)]

GetShift(t) ==
    LET me == th[t] IN
    /\ At(t, "get_shift")
    /\ \/ /\ me.gw.max # global_GWindow.max
          /\ GetRound(t, "get_read", me.gw)
          /\ UNCHANGED global_GWindow
       \/ /\ me.gw.max = global_GWindow.max /\ me.gw # global_GWindow
          /\ GetRound(t, "get_read", global_GWindow)
          /\ UNCHANGED global_GWindow
       \/ /\ me.gw = global_GWindow
          /\ global_GWindow' = me.new
          /\ GetRound(t, "deq_lateral", me.new)
    /\ UNCHANGED <<global_PWindow, lateral, shared>>

\* deq_lateral: drop the nodes that the new get window no longer needs; count
\* holds the head that was read.
DeqLateralRead(t) ==
    /\ At(t, "deq_lateral")
    /\ th' = [th EXCEPT ![t].pc = "deq_lateral_cae", ![t].count = lateral.head]
    /\ UNCHANGED <<windows, shared>>

DeqLateral(t) ==
    /\ At(t, "deq_lateral_cae")
    /\ lateral' = [lateral EXCEPT !.head =
                      IF @ = th[t].count THEN LastUpTo(th[t].gw.max) ELSE @]
    /\ th' = [th EXCEPT ![t].pc = "get_read", ![t].count = 0]
    /\ UNCHANGED <<global_PWindow, global_GWindow, shared>>

GetWindow(t) ==
    \/ GetEnter(t) \/ AdoptWord2(t) \/ GetCount(t) \/ GetCheck(t) \/ GetTail(t) \/ GetMax(t)
    \/ GetLateral(t) \/ GetShift(t) \/ DeqLateralRead(t) \/ DeqLateral(t)

\* dequeue first reads the put window, again by two loads.
DequeueCall(t) ==
    /\ \/ /\ CanDequeue(t)
          /\ th' = [th EXCEPT ![t].pc = "deq_word2", ![t].ops = @ + 1,
                              ![t].pw.max = global_PWindow.max]
       \/ /\ At(t, "deq_word2")
          /\ th' = [th EXCEPT ![t].pc = "get_enter",
                              ![t].pw = SecondWord(@.max, global_PWindow)]
    /\ UNCHANGED <<windows, shared>>

\* Head and tail cannot meet: the put window starts above the get window.
NoOverlap(t) == Bottom(th[t].pw) >= th[t].gw.max

QueueStep(t) ==
    /\ \/ ReadDescriptors(t) \/ Enqueue(t) \/ DeqReadTail(t, NoOverlap(t))
       \/ DeqRereadTail(t) \/ DeqNext(t, Bottom(global_PWindow)) \/ DeqHelp(t) \/ DeqCae(t)
    /\ UNCHANGED windows

-----------------------------------------------------------------------------
\* create_queue, initialize_global_window and create_lateral_queue; a thread's
\* copies of the windows start zeroed.
Init ==
    \E w \in Widths, d \in Depths :
        /\ InitQueue(w, d)
        /\ global_PWindow = [max |-> d, depth |-> d, width |-> w, next_width |-> w]
        /\ global_GWindow = [max |-> d, depth |-> d, width |-> w]
        /\ lateral = [nodes |-> <<[count |-> 0, width |-> w]>>, head |-> 1, tail |-> 1]
        /\ th = [t \in Threads |->
                    Locals(0, 0, [max |-> 0, depth |-> 0, width |-> 0, next_width |-> 0],
                           [max |-> 0, depth |-> 0, width |-> 0], 0)]

ThreadStep(t) == PutWindow(t) \/ GetWindow(t) \/ DequeueCall(t) \/ QueueStep(t)

Update == (UpdateWidth \/ UpdateDepth) /\ UNCHANGED windows

Next ==
    \/ \E t \in Threads : ThreadStep(t)
    \/ Update
    \/ AllIdle /\ UNCHANGED vars

Spec == Init /\ [][Next]_vars

-----------------------------------------------------------------------------
\* No tail count is above the put window, whatever words of a window and of a
\* descriptor an enqueue or a helper read apart.
PutRows == \A i \in Index : put_array[i].count <= global_PWindow.max

\* The lateral records the changes of width in the order of their rows, each
\* once, although every thread that sees the change tries to record it.
LateralSorted ==
    \A n \in 1 .. Len(lateral.nodes) - 1 : Node(n).count < Node(n + 1).count

\* "Since the window is not empty, it must be possible to shift up": a get
\* window that will be installed is above the one it replaces.
ShiftUp ==
    \A t \in Threads :
        At(t, "get_shift") /\ th[t].gw = global_GWindow => th[t].new.max > th[t].gw.max
=============================================================================
