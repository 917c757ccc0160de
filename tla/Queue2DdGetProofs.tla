-------------------------- MODULE Queue2DdGetProofs --------------------------
(***************************************************************************)
(* Proofs about the get side of the 2D queue: the heads, the get window,   *)
(* the items, and what dequeue may rely on.  They hold for every number of *)
(* threads, sub-queues and operations and for every depth; two of them     *)
(* depend on the order in which the words of a descriptor are loaded, and  *)
(* the last one on operations that do not overlap, and say so.             *)
(***************************************************************************)
EXTENDS Queue2DdProofs, FiniteSetTheorems

-----------------------------------------------------------------------------
(***************************************************************************)
(* What a step of one thread leaves alone, and what it can only increase.  *)
(***************************************************************************)
OthersLocal(t) ==
    \A u \in Threads \ {t} :
        /\ pc'[u] = pc[u]
        /\ thread_index'[u] = thread_index[u]
        /\ hops'[u] = hops[u]
        /\ random'[u] = random[u]
        /\ notempty'[u] = notempty[u]
        /\ thread_GWindow'[u] = thread_GWindow[u]
        /\ put_descriptor'[u] = put_descriptor[u]
        /\ get_descriptor'[u] = get_descriptor[u]
        /\ enq_descriptor'[u] = enq_descriptor[u]
        /\ put_count'[u] = put_count[u]
        /\ published'[u] = published[u]

SharedGetGrows ==
    /\ \A i \in Index : /\ get_array[i].node <= get_array'[i].node
                         /\ get_array[i].get_count <= get_array'[i].get_count
    /\ global_GWindow <= global_GWindow'

\* Counts and windows of the get side are natural numbers.
LEMMA GetNumbers ==
    ASSUME TypeOK
    PROVE  /\ global_GWindow \in Nat
           /\ \A i \in Index : /\ get_array[i].node \in Nat
                               /\ get_array[i].get_count \in Nat
           /\ \A t \in Threads : /\ thread_GWindow[t] \in Nat
                                 /\ put_count[t] \in Nat
                                 /\ get_descriptor[t].node \in Nat
                                 /\ get_descriptor[t].get_count \in Nat
                                 /\ enq_descriptor[t].node \in Nat
                                 /\ enq_descriptor[t].put_count \in Nat
<1>1. \A i \in Index : get_array[i] \in GetDescriptor
  BY DEF TypeOK
<1>2. \A t \in Threads : /\ get_descriptor[t] \in GetDescriptor
                         /\ enq_descriptor[t] \in PutDescriptor
  BY DEF TypeOK
<1> QED
  BY <1>1, <1>2 DEF TypeOK, GetDescriptor, PutDescriptor

\* The same of the next state.
LEMMA GetNumbersNext ==
    ASSUME TypeOK'
    PROVE  /\ global_GWindow' \in Nat
           /\ \A i \in Index : /\ get_array'[i].node \in Nat
                               /\ get_array'[i].get_count \in Nat
<1>1. \A i \in Index : get_array'[i] \in GetDescriptor
  BY DEF TypeOK
<1> QED
  BY <1>1 DEF TypeOK, GetDescriptor

\* A step of get_window leaves the locals of the other threads alone.
LEMMA OthersLocalGetWindow ==
    ASSUME TypeOK, NEW t \in Threads, GetWindow(t), UNCHANGED queueVars
    PROVE  OthersLocal(t)
<1> USE DEF OthersLocal, TypeOK, Goto, search, queueVars
<1>1. CASE GetEnter(t)
  BY <1>1 DEF GetEnter, MaybeRandomIndex, ResetSearch
<1>2. CASE GetRead(t) \/ GetReread(t) \/ GetReadPutCount(t)
  BY <1>2 DEF GetRead, GetReread, GetReadPutCount
<1>3. CASE GetSync(t) \/ GetResync(t)
  BY <1>3 DEF GetSync, GetResync
<1>4. CASE GetReturn(t) \/ GetEmpty(t)
  <2>1. GetLeave(t) /\ pc' = [pc EXCEPT ![t] = "get_return"]
    BY <1>4 DEF GetReturn, GetEmpty
  <2> QED
    BY <2>1 DEF GetLeave, ResetSearch
<1>5. CASE GetHop(t)
  BY <1>5 DEF GetHop, Hop, RandomHop, LinearHop
<1>6. CASE GetExhausted(t) \/ GetShift(t)
  BY <1>6 DEF GetExhausted, GetShift
<1> QED
  BY <1>1, <1>2, <1>3, <1>4, <1>5, <1>6 DEF GetWindow

\* A step of put_window leaves the locals of the other threads alone.
LEMMA OthersLocalPutWindow ==
    ASSUME TypeOK, NEW t \in Threads, PutWindow(t), UNCHANGED queueVars
    PROVE  OthersLocal(t)
<1> USE DEF OthersLocal, TypeOK, Goto, search, queueVars
<1>1. CASE PutEnter(t)
  BY <1>1 DEF PutEnter, MaybeRandomIndex, ResetSearch
<1>2. CASE PutRead(t) \/ PutReread(t)
  BY <1>2 DEF PutRead, PutReread
<1>3. CASE PutSync(t) \/ PutResync(t)
  BY <1>3 DEF PutSync, PutResync
<1>4. CASE PutReturn(t)
  BY <1>4 DEF PutReturn, ResetSearch
<1>5. CASE PutHop(t)
  BY <1>5 DEF PutHop, Hop, RandomHop, LinearHop
<1>6. CASE PutExhausted(t) \/ PutShift(t)
  BY <1>6 DEF PutExhausted, PutShift
<1> QED
  BY <1>1, <1>2, <1>3, <1>4, <1>5, <1>6 DEF PutWindow

\* So does every step.
LEMMA OthersLocalStep ==
    ASSUME TypeOK, NEW t \in Threads, ThreadStep(t)
    PROVE  OthersLocal(t)
<1>1. CASE WindowStep(t)
  BY <1>1, OthersLocalGetWindow, OthersLocalPutWindow DEF WindowStep
<1>2. CASE Enqueue(t)
  <2> USE DEF OthersLocal, TypeOK, Goto, search, windowVars, queueVars
  <2>1. CASE EnqueueCall(t) \/ EnqReadNext(t) \/ EnqHelp(t) \/ EnqRecheckFails(t)
    BY <2>1 DEF EnqueueCall, EnqReadNext, EnqHelp, EnqRecheckFails
  <2>2. CASE EnqRecheckPasses(t) \/ EnqLink(t) \/ EnqLinkFails(t) \/ EnqSwingTail(t)
    BY <2>2 DEF EnqRecheckPasses, EnqLink, EnqLinkFails, EnqSwingTail
  <2> QED
    BY <1>2, <2>1, <2>2 DEF Enqueue
<1>3. CASE Dequeue(t)
  <2> USE DEF OthersLocal, TypeOK, Goto, search, windowVars, queueVars
  <2>1. CASE DequeueCall(t) \/ DeqReadTail(t) \/ DeqRereadTail(t) \/ DeqHelp(t)
             \/ DeqTakeFails(t)
    BY <2>1 DEF DequeueCall, DeqReadTail, DeqRereadTail, DeqHelp, DeqTakeFails
  <2>2. CASE DeqReturnsEmpty(t) \/ DeqTake(t)
    BY <2>2 DEF DeqReturnsEmpty, DeqTake, DeqLeave
  <2> QED
    BY <1>3, <2>1, <2>2 DEF Dequeue
<1> QED
  BY <1>1, <1>2, <1>3 DEF ThreadStep

\* The compare-exchanges that move a tail are the only writes of put_array.
LEMMA PutArrayWrites ==
    ASSUME NEW t \in Threads, ThreadStep(t)
    PROVE  \/ UNCHANGED put_array
           \/ (EnqHelp(t) \/ EnqSwingTail(t)) /\ AdvanceTail(t, put_descriptor[t])
           \/ DeqHelp(t) /\ AdvanceTail(t, enq_descriptor[t])
<1> USE DEF arrays, windowVars
<1>1. CASE WindowStep(t)
  <2>1. CASE PutWindow(t)
    BY <2>1 DEF PutWindow, PutEnter, PutRead, PutReread, PutSync, PutReturn, PutHop,
                PutExhausted, PutShift, PutResync
  <2>2. CASE GetWindow(t)
    BY <2>2 DEF GetWindow, GetEnter, GetRead, GetReread, GetReadPutCount, GetSync,
                GetReturn, GetHop, GetExhausted, GetEmpty, GetShift, GetResync, GetLeave
  <2> QED
    BY <1>1, <2>1, <2>2 DEF WindowStep
<1>2. CASE Enqueue(t)
  BY <1>2 DEF Enqueue, EnqueueCall, EnqReadNext, EnqHelp, EnqRecheckFails,
              EnqRecheckPasses, EnqLink, EnqLinkFails, EnqSwingTail
<1>3. CASE Dequeue(t)
  BY <1>3 DEF Dequeue, DequeueCall, DeqReadTail, DeqRereadTail, DeqReturnsEmpty,
              DeqHelp, DeqTake, DeqTakeFails, DeqLeave
<1> QED
  BY <1>1, <1>2, <1>3 DEF ThreadStep

\* Taking an item is the only write of get_array.
LEMMA GetArrayWrites ==
    ASSUME NEW t \in Threads, ThreadStep(t), ~DeqTake(t)
    PROVE  UNCHANGED get_array
<1> USE DEF arrays, windowVars
<1>1. CASE WindowStep(t)
  <2>1. CASE PutWindow(t)
    BY <2>1 DEF PutWindow, PutEnter, PutRead, PutReread, PutSync, PutReturn, PutHop,
                PutExhausted, PutShift, PutResync
  <2>2. CASE GetWindow(t)
    BY <2>2 DEF GetWindow, GetEnter, GetRead, GetReread, GetReadPutCount, GetSync,
                GetReturn, GetHop, GetExhausted, GetEmpty, GetShift, GetResync, GetLeave
  <2> QED
    BY <1>1, <2>1, <2>2 DEF WindowStep
<1>2. CASE Enqueue(t)
  BY <1>2 DEF Enqueue, EnqueueCall, EnqReadNext, EnqHelp, EnqRecheckFails,
              EnqRecheckPasses, EnqLink, EnqLinkFails, EnqSwingTail
<1>3. CASE Dequeue(t)
  BY <1>3 DEF Dequeue, DequeueCall, DeqReadTail, DeqRereadTail, DeqReturnsEmpty,
              DeqHelp, DeqTakeFails
<1> QED
  BY <1>1, <1>2, <1>3 DEF ThreadStep

\* Linking a node is the only write of items.
LEMMA ItemsWrites ==
    ASSUME NEW t \in Threads, ThreadStep(t), ~EnqLink(t)
    PROVE  UNCHANGED <<items, stamp>>
<1> USE DEF queueVars, analysis
<1>1. CASE Enqueue(t)
  BY <1>1 DEF Enqueue, EnqueueCall, EnqReadNext, EnqHelp, EnqRecheckFails,
              EnqRecheckPasses, EnqLinkFails, EnqSwingTail
<1>2. CASE Dequeue(t)
  BY <1>2 DEF Dequeue, DequeueCall, DeqReadTail, DeqRereadTail, DeqReturnsEmpty,
              DeqHelp, DeqTake, DeqTakeFails, DeqLeave
<1> QED
  BY <1>1, <1>2 DEF ThreadStep, WindowStep

\* Each window is written by its own shift only.
LEMMA WindowWrites ==
    ASSUME NEW t \in Threads, ThreadStep(t)
    PROVE  /\ UNCHANGED global_PWindow \/ PutShift(t)
           /\ UNCHANGED global_GWindow \/ GetShift(t)
<1> USE DEF windows, windowVars
<1>1. CASE WindowStep(t)
  <2>1. CASE PutWindow(t)
    BY <2>1 DEF PutWindow, PutEnter, PutRead, PutReread, PutSync, PutReturn, PutHop,
                PutExhausted, PutShift, PutResync
  <2>2. CASE GetWindow(t)
    BY <2>2 DEF GetWindow, GetEnter, GetRead, GetReread, GetReadPutCount, GetSync,
                GetReturn, GetHop, GetExhausted, GetEmpty, GetShift, GetResync, GetLeave
  <2> QED
    BY <1>1, <2>1, <2>2 DEF WindowStep
<1>2. CASE Enqueue(t)
  BY <1>2 DEF Enqueue, EnqueueCall, EnqReadNext, EnqHelp, EnqRecheckFails,
              EnqRecheckPasses, EnqLink, EnqLinkFails, EnqSwingTail
<1>3. CASE Dequeue(t)
  BY <1>3 DEF Dequeue, DequeueCall, DeqReadTail, DeqRereadTail, DeqReturnsEmpty,
              DeqHelp, DeqTake, DeqTakeFails, DeqLeave
<1> QED
  BY <1>1, <1>2, <1>3 DEF ThreadStep

\* A tail that is moved goes up by one, in both words.
LEMMA TailGrows ==
    ASSUME TypeOK, NEW t \in Threads, NEW read, AdvanceTail(t, read)
    PROVE  \A i \in Index : \/ put_array'[i] = put_array[i]
                            \/ /\ i = thread_index[t] /\ put_array[i] = read
                               /\ put_array'[i].node = put_array[i].node + 1
                               /\ put_array'[i].put_count = put_array[i].put_count + 1
BY DEF TypeOK, AdvanceTail, Successor

\* Taking an item moves one head up by one, in both words.
LEMMA HeadGrows ==
    ASSUME TypeOK, NEW t \in Threads, DeqTake(t)
    PROVE  \A i \in Index : \/ i # thread_index[t] /\ get_array'[i] = get_array[i]
                            \/ /\ i = thread_index[t]
                               /\ get_array[i] = get_descriptor[t]
                               /\ get_array'[i].node = get_array[i].node + 1
                               /\ get_array'[i].get_count = get_array[i].get_count + 1
<1>1. get_array' = [get_array EXCEPT ![thread_index[t]] =
                      [node |-> get_descriptor[t].node + 1,
                       get_count |-> get_descriptor[t].get_count + 1]]
  BY DEF DeqTake, Successor
<1>2. get_array[thread_index[t]] = get_descriptor[t]
  BY DEF DeqTake, HeadUnchanged
<1>3. thread_index[t] \in Index /\ get_array \in [Index -> GetDescriptor]
  BY DEF TypeOK
<1>4. \A i \in Index \ {thread_index[t]} : get_array'[i] = get_array[i]
  BY <1>1, <1>3
<1>5. get_array'[thread_index[t]] = [node |-> get_descriptor[t].node + 1,
                                    get_count |-> get_descriptor[t].get_count + 1]
  BY <1>1, <1>3
<1> QED
  BY <1>2, <1>3, <1>4, <1>5

\* Nothing shared ever decreases.
LEMMA SharedGrows ==
    ASSUME TypeOK, NEW t \in Threads, ThreadStep(t)
    PROVE  SharedPutGrows /\ SharedGetGrows
<1> USE PutNumbers, GetNumbers
<1>1. \A i \in Index : /\ put_array[i].node <= put_array'[i].node
                       /\ put_array[i].put_count <= put_array'[i].put_count
  <2>1. CASE UNCHANGED put_array
    BY <2>1
  <2>2. CASE AdvanceTail(t, put_descriptor[t])
    BY <2>2, TailGrows
  <2>3. CASE AdvanceTail(t, enq_descriptor[t])
    BY <2>3, TailGrows
  <2> QED
    BY <2>1, <2>2, <2>3, PutArrayWrites
<1>2. \A i \in Index : Len(items[i]) <= Len(items'[i])
  <2>1. CASE EnqLink(t)
    <3>1. \A i \in Index : items[i] \in Seq(Nat)
      BY DEF TypeOK
    <3>2. NextStamp \in Nat
      BY DEF TypeOK, NextStamp
    <3>3. \A i \in Index : \/ items'[i] = items[i]
                           \/ items'[i] = Append(items[i], NextStamp)
      BY <2>1 DEF EnqLink, TypeOK
    <3> QED
      BY <3>1, <3>2, <3>3
  <2>2. CASE ~EnqLink(t)
    BY <2>2, ItemsWrites
  <2> QED
    BY <2>1, <2>2
<1>3. \A i \in Index : /\ get_array[i].node <= get_array'[i].node
                       /\ get_array[i].get_count <= get_array'[i].get_count
  <2>1. CASE DeqTake(t)
    BY <2>1, HeadGrows
  <2>2. CASE ~DeqTake(t)
    BY <2>2, GetArrayWrites
  <2> QED
    BY <2>1, <2>2
<1>4. global_PWindow <= global_PWindow' /\ global_GWindow <= global_GWindow'
  BY WindowWrites, DepthAssumption DEF PutShift, GetShift
<1> QED
  BY <1>1, <1>2, <1>3, <1>4 DEF SharedPutGrows, SharedGetGrows

-----------------------------------------------------------------------------
(***************************************************************************)
(* The get side.  As on the put side, what is known of a thread survives   *)
(* the steps of the others, and each action answers for its own thread.    *)
(***************************************************************************)
\* The invariant holds of the empty queue.
LEMMA InitGetInv == Init => GetInv
<1> SUFFICES ASSUME Init PROVE GetInv
  OBVIOUS
<1> USE DepthAssumption
<1>1. GetWhole /\ GetWindowLag
  BY DEF Init, InitWindow, GetWhole, GetWindowLag, NoPut, NoGet
<1>2. WindowsAligned
  <2>1. 1 \in 0 .. Depth /\ Depth = 1 * Depth
    OBVIOUS
  <2> QED
    BY <2>1 DEF Init, InitWindow, WindowsAligned
<1>3. ASSUME NEW t \in Threads PROVE GetThreadInv(t)
  BY DEF Init, InitWindow, GetThreadInv, GetDescriptorOld, GetWindowOld,
         TailReadLater, CountReadLater, GetRound, HoldsGet, GetScanning
<1> QED
  BY <1>1, <1>2, <1>3 DEF GetInv

\* What is known of a thread survives the steps of the others.
LEMMA GetOthersKeep ==
    ASSUME TypeOK, TypeOK', GetInv, NEW t \in Threads, OthersLocal(t),
           SharedPutGrows, SharedGetGrows, NEW u \in Threads \ {t}
    PROVE  GetThreadInv(u)'
<1>a. /\ u \in Threads /\ thread_index[u] \in Index /\ Depth \in Nat
      /\ thread_GWindow[u] \in Nat /\ put_count[u] \in Nat
      /\ get_descriptor[u].node \in Nat /\ get_descriptor[u].get_count \in Nat
      /\ enq_descriptor[u].node \in Nat
  BY PutNumbers, GetNumbers, DepthAssumption
<1>b. \A i \in Index : /\ get_array[i].node \in Nat /\ get_array'[i].node \in Nat
                       /\ get_array[i].get_count \in Nat
                       /\ get_array'[i].get_count \in Nat
  BY GetNumbers, GetNumbersNext
<1>c. \A i \in Index : /\ put_array[i].node \in Nat /\ put_array'[i].node \in Nat
                       /\ put_array[i].put_count \in Nat
                       /\ put_array'[i].put_count \in Nat
  BY PutNumbers, PutNumbersNext
<1>1. /\ pc'[u] = pc[u]
      /\ thread_index'[u] = thread_index[u]
      /\ hops'[u] = hops[u]
      /\ random'[u] = random[u]
      /\ notempty'[u] = notempty[u]
      /\ thread_GWindow'[u] = thread_GWindow[u]
      /\ get_descriptor'[u] = get_descriptor[u]
      /\ enq_descriptor'[u] = enq_descriptor[u]
      /\ put_count'[u] = put_count[u]
  BY DEF OthersLocal
<1>2. GetThreadInv(u)
  BY DEF GetInv
<1>3. GetDescriptorOld(u)'
  BY <1>1, <1>2, <1>a, <1>b DEF GetThreadInv, GetDescriptorOld, SharedGetGrows
<1>4. GetWindowOld(u)'
  BY <1>1, <1>2, <1>a, GetNumbers, GetNumbersNext DEF GetThreadInv, GetWindowOld, SharedGetGrows
<1>5. TailReadLater(u)'
  BY <1>1, <1>2, <1>a, <1>c DEF GetThreadInv, TailReadLater, SharedPutGrows
<1>6. CountReadLater(u)'
  BY <1>1, <1>2, <1>a, <1>c DEF GetThreadInv, CountReadLater, SharedPutGrows
<1>7. GetRound(u)'
  <2>1. Visited(thread_index'[u], hops'[u]) = Visited(thread_index[u], hops[u])
    BY <1>1
  <2>2. Visited(thread_index[u], hops[u]) \subseteq Index
    BY DEF Visited
  <2>3. ASSUME pc'[u] \in GetScanning \cup {"get_shift"}
        PROVE  \A j \in Visited(thread_index[u], hops[u]) :
                  thread_GWindow[u] <= get_array'[j].get_count + Depth
    BY <1>1, <1>2, <1>a, <1>b, <2>2, <2>3 DEF GetThreadInv, GetRound, SharedGetGrows
  <2>4. ASSUME pc'[u] \in GetScanning \cup {"get_shift"}, notempty[u] = 1
        PROVE  \E j \in Index : thread_GWindow[u] < put_array'[j].put_count
    BY <1>1, <1>2, <1>a, <1>c, <2>4 DEF GetThreadInv, GetRound, SharedPutGrows
  <2> QED
    BY <1>1, <1>2, <2>1, <2>3, <2>4 DEF GetThreadInv, GetRound
<1> QED
  BY <1>3, <1>4, <1>5, <1>6, <1>7 DEF GetThreadInv

\* A thread outside get_window and past its descriptor owes nothing more.
LEMMA GetQuietThread ==
    ASSUME TypeOK, TypeOK', GetInv, SharedGetGrows, NEW t \in Threads,
           thread_GWindow'[t] = thread_GWindow[t],
           pc'[t] \notin HoldsGet \cup GetScanning \cup {"get_shift"}
    PROVE  GetThreadInv(t)'
<1>1. thread_GWindow'[t] <= global_GWindow'
  BY GetNumbers, GetNumbersNext DEF GetInv, GetThreadInv, GetWindowOld, SharedGetGrows
<1>2. pc'[t] \notin {"deq_reread", "deq_test", "get_check"}
  BY DEF HoldsGet
<1> QED
  BY <1>1, <1>2 DEF GetThreadInv, GetDescriptorOld, GetWindowOld, TailReadLater,
                    CountReadLater, GetRound

\* A window that is a whole number of shifts is so again after one more.
LEMMA ShiftAligned ==
    ASSUME NEW w \in Nat, \E k \in 0 .. w : w = k * Depth
    PROVE  \E k \in 0 .. w + Depth : w + Depth = k * Depth
<1>1. PICK k \in 0 .. w : w = k * Depth
  OBVIOUS
<1>2. k + 1 \in 0 .. w + Depth
  BY DepthAssumption
<1>3. w + Depth = (k + 1) * Depth
  BY <1>1, DepthAssumption
<1> QED
  BY <1>2, <1>3

\* Of two windows in whole shifts, the one behind is at least a shift behind.
LEMMA AlignedGap ==
    ASSUME NEW g \in Nat, NEW p \in Nat, g < p,
           \E k \in 0 .. g : g = k * Depth, \E k \in 0 .. p : p = k * Depth
    PROVE  g + Depth <= p
<1> USE DepthAssumption
<1>1. PICK k \in 0 .. g : g = k * Depth
  OBVIOUS
<1>2. PICK m \in 0 .. p : p = m * Depth
  OBVIOUS
<1>3. m > k
  <2>1. SUFFICES ASSUME m <= k PROVE FALSE
    OBVIOUS
  <2>2. PICK d \in Nat : k = m + d
    BY <2>1
  <2>3. k * Depth = m * Depth + d * Depth
    BY <2>2
  <2>4. d * Depth >= 0
    OBVIOUS
  <2> QED
    BY <1>1, <1>2, <2>3, <2>4
<1>4. PICK d \in Nat : m = k + 1 + d
  <2>1. m - (k + 1) \in Nat /\ m = k + 1 + (m - (k + 1))
    BY <1>3
  <2> QED
    BY <2>1
<1>5. m * Depth = k * Depth + Depth + d * Depth
  BY <1>4
<1>6. d * Depth >= 0
  OBVIOUS
<1> QED
  BY <1>1, <1>2, <1>5, <1>6

\* The shared get side holds after a step that neither takes an item nor shifts
\* the get window.
LEMMA SharedGetKept ==
    ASSUME TypeOK, TypeOK', GetInv, NEW t \in Threads, ThreadStep(t),
           SharedPutGrows, UNCHANGED <<get_array, global_GWindow>>
    PROVE  GetWhole' /\ WindowsAligned' /\ GetWindowLag'
<1> USE PutNumbers, PutNumbersNext, GetNumbers
<1>1. GetWhole'
  BY DEF GetInv, GetWhole, SharedPutGrows
<1>2. WindowsAligned'
  <2>1. \/ global_PWindow' = global_PWindow
        \/ global_PWindow' = global_PWindow + Depth
    BY WindowWrites DEF PutShift
  <2>2. \E k \in 0 .. global_PWindow' : global_PWindow' = k * Depth
    BY <2>1, ShiftAligned DEF GetInv, WindowsAligned
  <2> QED
    BY <2>2 DEF GetInv, WindowsAligned
<1>3. GetWindowLag'
  BY DEF GetInv, GetWindowLag, SharedPutGrows
<1> QED
  BY <1>1, <1>2, <1>3

\* get_window answers for its own thread: what it reads is in the array, put
\* counts are read after get counts, and an index it leaves behind is within a
\* shift of the window.
LEMMA GetWindowThread ==
    ASSUME TypeOK, TypeOK', PutInv, GetInv, NEW t \in Threads, GetWindow(t),
           SharedPutGrows, SharedGetGrows
    PROVE  GetThreadInv(t)'
<1>a. /\ GetThreadInv(t)
      /\ thread_index[t] \in Index /\ thread_index'[t] \in Index
      /\ hops[t] \in 0 .. Width
  BY DEF GetInv, TypeOK
<1>b. /\ Visited(thread_index'[t], 0) = {} /\ Visited(thread_index[t], 0) = {}
  BY <1>a, VisitedRound, WidthAssumption
<1>c. /\ global_GWindow \in Nat /\ thread_GWindow[t] \in Nat /\ put_count[t] \in Nat
      /\ get_descriptor[t].node \in Nat /\ get_descriptor[t].get_count \in Nat
      /\ get_array[thread_index[t]].node \in Nat
      /\ get_array[thread_index[t]].get_count \in Nat
      /\ put_array[thread_index[t]].node \in Nat
      /\ put_array[thread_index[t]].put_count \in Nat
      /\ global_PWindow \in Nat /\ Depth \in Nat
  BY <1>a, PutNumbers, GetNumbers, DepthAssumption
<1> USE DEF GetThreadInv, GetDescriptorOld, GetWindowOld, TailReadLater,
            CountReadLater, GetRound, HoldsGet, GetScanning
<1>1. CASE GetEnter(t)
  <2>1. /\ pc'[t] = "get_read" /\ hops'[t] = 0 /\ notempty'[t] = 0
        /\ thread_GWindow'[t] = global_GWindow' /\ global_GWindow' = global_GWindow
    BY <1>1 DEF GetEnter, ResetSearch, Goto, TypeOK, windows
  <2> QED
    BY <1>b, <1>c, <2>1
<1>2. CASE GetRead(t)
  <2>1. /\ pc[t] = "get_read" /\ pc'[t] = "get_reread"
        /\ get_descriptor'[t] = get_array[thread_index[t]]
        /\ UNCHANGED <<arrays, windows, thread_index, search, thread_GWindow>>
    BY <1>2 DEF GetRead, Goto, TypeOK
  <2> QED
    BY <1>a, <1>c, <2>1 DEF arrays, windows, search
<1>3. CASE GetReread(t)
  <2>1. /\ pc[t] = "get_reread" /\ pc'[t] = "get_count"
        /\ UNCHANGED <<arrays, windows, thread_index, search, thread_GWindow>>
    BY <1>3 DEF GetReread, Goto, TypeOK
  <2>2. PICK order \in GetReadOrders :
          get_descriptor'[t] =
             SecondLoad(order, get_descriptor[t], get_array[thread_index[t]])
    BY <1>3 DEF GetReread, TypeOK
  <2>3. /\ get_descriptor'[t].node
             \in {get_descriptor[t].node, get_array[thread_index[t]].node}
        /\ get_descriptor'[t].get_count
             \in {get_descriptor[t].get_count, get_array[thread_index[t]].get_count}
    BY <1>a, <2>2, SecondLoadGet DEF TypeOK
  <2> QED
    BY <1>a, <1>c, <2>1, <2>3 DEF arrays, windows, search
<1>4. CASE GetReadPutCount(t)
  <2>1. /\ pc[t] = "get_count" /\ pc'[t] = "get_check"
        /\ put_count'[t] = put_array[thread_index[t]].put_count
        /\ UNCHANGED <<arrays, windows, thread_index, search, thread_GWindow,
                       get_descriptor>>
    BY <1>4 DEF GetReadPutCount, Goto, TypeOK
  <2>2. /\ get_descriptor[t].get_count <= put_array[thread_index[t]].put_count
        /\ thread_GWindow[t] <= put_array[thread_index[t]].put_count + Depth
    <3>1. /\ get_array[thread_index[t]].get_count <= put_array[thread_index[t]].put_count
          /\ global_PWindow <= put_array[thread_index[t]].put_count + Depth
          /\ global_GWindow <= global_PWindow
      BY <1>a DEF GetInv, GetWhole, GetWindowLag, PutInv, PutWhole, PutWithinWindow
    <3> QED
      BY <1>a, <1>c, <2>1, <3>1
  <2> QED
    BY <1>a, <1>c, <2>1, <2>2 DEF arrays, windows, search
<1>5. CASE GetSync(t) \/ GetResync(t)
  <2>1. /\ pc'[t] = "get_read" /\ hops'[t] = 0 /\ notempty'[t] = 0
        /\ thread_GWindow'[t] = global_GWindow' /\ global_GWindow' = global_GWindow
    BY <1>5 DEF GetSync, GetResync, Goto, TypeOK, windows
  <2> QED
    BY <1>b, <1>c, <2>1
<1>6. CASE GetReturn(t) \/ GetEmpty(t)
  <2>1. /\ pc[t] = "get_check" /\ pc'[t] = "get_return"
        /\ UNCHANGED <<arrays, windows, thread_index, thread_GWindow, get_descriptor>>
    BY <1>6 DEF GetReturn, GetEmpty, GetLeave, Goto, TypeOK
  <2> QED
    BY <1>a, <2>1 DEF arrays, windows
<1>7. CASE GetHop(t)
  <2>1. /\ pc[t] = "get_check" /\ pc'[t] = "get_read"
        /\ UNCHANGED <<arrays, windows, thread_GWindow>>
        /\ hops[t] # Width /\ GetInvalid(t)
        /\ notempty'[t] = IF SeenNonEmpty(t) THEN 1 ELSE notempty[t]
    BY <1>7 DEF GetHop, Goto, TypeOK
  <2>2. thread_GWindow[t] <= get_array[thread_index[t]].get_count + Depth
    BY <1>a, <1>c, <2>1 DEF GetInvalid, SeenNonEmpty
  <2>3. SeenNonEmpty(t) => thread_GWindow[t] < put_array[thread_index[t]].put_count
    BY <1>a, <1>c, <2>1 DEF GetInvalid, SeenNonEmpty
  <2>4. notempty'[t] = 1 => \E j \in Index : thread_GWindow[t] < put_array[j].put_count
    BY <1>a, <2>1, <2>3
  <2>5. CASE RandomHop(t)
    <3>1. random[t] < RandomHops /\ hops'[t] = hops[t]
      BY <2>5 DEF RandomHop
    <3>2. hops[t] = 0
      <4>1. hops[t] > 0 => random[t] >= RandomHops
        BY <1>a, <2>1
      <4>2. random[t] \in Nat /\ hops[t] \in Nat
        BY RandomHopsAssumption, WidthAssumption DEF TypeOK
      <4> QED
        BY <3>1, <4>1, <4>2, RandomHopsAssumption
    <3> QED
      BY <1>a, <1>b, <2>1, <2>4, <3>1, <3>2 DEF arrays, windows
  <2>6. CASE LinearHop(t)
    <3>1. /\ random'[t] >= RandomHops
          /\ hops'[t] = hops[t] + 1
          /\ thread_index'[t] = NextIndex(thread_index[t])
      BY <2>6 DEF LinearHop, TypeOK
    <3>2. Visited(thread_index'[t], hops'[t])
             \subseteq Visited(thread_index[t], hops[t]) \cup {thread_index[t]}
      BY <1>a, <2>1, <3>1, VisitedRound, WidthAssumption
    <3> QED
      BY <1>a, <2>1, <2>2, <2>4, <3>1, <3>2 DEF arrays, windows
  <2> QED
    BY <1>7, <2>5, <2>6 DEF GetHop, Hop
<1>8. CASE GetExhausted(t)
  <2>1. /\ pc[t] = "get_check" /\ pc'[t] = "get_shift"
        /\ hops[t] = Width /\ notempty[t] = 1
        /\ UNCHANGED <<arrays, windows, thread_index, search, thread_GWindow>>
    BY <1>8 DEF GetExhausted, Goto, TypeOK
  <2> QED
    BY <1>a, <2>1 DEF arrays, windows, search
<1>9. CASE GetShift(t)
  <2>1. pc'[t] = "get_resync" /\ thread_GWindow'[t] = thread_GWindow[t]
    BY <1>9 DEF GetShift, Goto, TypeOK
  <2> QED
    BY <2>1, GetQuietThread
<1> QED
  BY <1>1, <1>2, <1>3, <1>4, <1>5, <1>6, <1>7, <1>8, <1>9 DEF GetWindow

\* dequeue answers for its own thread: the tail is read after the head.
LEMMA DequeueThread ==
    ASSUME TypeOK, TypeOK', GetInv, NEW t \in Threads, Dequeue(t),
           SharedPutGrows, SharedGetGrows
    PROVE  GetThreadInv(t)'
<1>a. GetThreadInv(t) /\ thread_index[t] \in Index
  BY DEF GetInv, TypeOK
<1>b. /\ get_descriptor[t].node \in Nat /\ enq_descriptor[t].node \in Nat
      /\ get_array[thread_index[t]].node \in Nat
      /\ put_array[thread_index[t]].node \in Nat
  BY <1>a, PutNumbers, GetNumbers
<1>1. CASE DeqReadTail(t)
  <2>1. /\ pc[t] = "get_return" /\ pc'[t] = "deq_reread"
        /\ enq_descriptor'[t] = put_array[thread_index[t]]
        /\ UNCHANGED <<arrays, windows, thread_index, thread_GWindow, get_descriptor>>
    BY <1>1 DEF DeqReadTail, Goto, TypeOK, windowVars
  <2>2. get_array[thread_index[t]].node <= put_array[thread_index[t]].node
    BY <1>a DEF GetInv, GetWhole
  <2> QED
    BY <1>a, <1>b, <2>1, <2>2
       DEF arrays, windows, GetThreadInv, GetDescriptorOld, GetWindowOld,
           TailReadLater, CountReadLater, GetRound, HoldsGet, GetScanning
<1>2. CASE DeqRereadTail(t)
  <2>1. /\ pc[t] = "deq_reread" /\ pc'[t] = "deq_test"
        /\ UNCHANGED <<arrays, windows, thread_index, thread_GWindow, get_descriptor>>
    BY <1>2 DEF DeqRereadTail, Goto, TypeOK, windowVars
  <2>2. PICK order \in GetReadOrders :
          enq_descriptor'[t] =
             SecondLoad(order, enq_descriptor[t], put_array[thread_index[t]])
    BY <1>2 DEF DeqRereadTail, TypeOK
  <2>3. enq_descriptor'[t].node
             \in {enq_descriptor[t].node, put_array[thread_index[t]].node}
    BY <1>a, <2>2, SecondLoadPut DEF TypeOK
  <2>4. get_array[thread_index[t]].node <= put_array[thread_index[t]].node
    BY <1>a DEF GetInv, GetWhole
  <2> QED
    BY <1>a, <1>b, <2>1, <2>3, <2>4
       DEF arrays, windows, GetThreadInv, GetDescriptorOld, GetWindowOld,
           TailReadLater, CountReadLater, GetRound, HoldsGet, GetScanning
<1>3. CASE ~DeqReadTail(t) /\ ~DeqRereadTail(t)
  <2>1. pc'[t] \in {"get_window", "idle"} /\ thread_GWindow'[t] = thread_GWindow[t]
    BY <1>3 DEF Dequeue, DequeueCall, DeqReturnsEmpty, DeqHelp, DeqTake, DeqTakeFails,
                DeqLeave, Goto, TypeOK
  <2> QED
    BY <2>1, GetQuietThread DEF HoldsGet, GetScanning
<1> QED
  BY <1>1, <1>2, <1>3

\* put_window and enqueue have nothing to answer for on the get side.
LEMMA PutSideThread ==
    ASSUME TypeOK, TypeOK', GetInv, NEW t \in Threads, PutWindow(t) \/ Enqueue(t),
           SharedGetGrows
    PROVE  GetThreadInv(t)'
<1>1. CASE PutWindow(t)
  <2>1. pc'[t] \in PutWindowPCs \cup {"put_return"} /\ thread_GWindow'[t] = thread_GWindow[t]
    <3>1. UNCHANGED thread_GWindow
      BY <1>1 DEF PutWindow, PutEnter, PutRead, PutReread, PutSync, PutReturn, PutHop,
                  PutExhausted, PutShift, PutResync
    <3>2. \E to \in PutWindowPCs \cup {"put_return"} : pc' = [pc EXCEPT ![t] = to]
      BY <1>1 DEF PutWindow, PutEnter, PutRead, PutReread, PutSync, PutReturn, PutHop,
                  PutExhausted, PutShift, PutResync, Goto, PutWindowPCs, PutScanning
    <3> QED
      BY <3>1, <3>2 DEF TypeOK
  <2> QED
    BY <2>1, GetQuietThread DEF PutWindowPCs, PutScanning, HoldsGet, GetScanning
<1>2. CASE Enqueue(t)
  <2>1. /\ pc'[t] \in {"put_window", "enq_recheck", "enq_cas", "enq_tail", "idle"}
        /\ thread_GWindow'[t] = thread_GWindow[t]
    <3>1. UNCHANGED thread_GWindow
      BY <1>2 DEF Enqueue, EnqueueCall, EnqReadNext, EnqHelp, EnqRecheckFails,
                  EnqRecheckPasses, EnqLink, EnqLinkFails, EnqSwingTail, windowVars
    <3>2. \E to \in {"put_window", "enq_recheck", "enq_cas", "enq_tail", "idle"} :
             pc' = [pc EXCEPT ![t] = to]
      BY <1>2 DEF Enqueue, EnqueueCall, EnqReadNext, EnqHelp, EnqRecheckFails,
                  EnqRecheckPasses, EnqLink, EnqLinkFails, EnqSwingTail, Goto
    <3> QED
      BY <3>1, <3>2 DEF TypeOK
  <2> QED
    BY <2>1, GetQuietThread DEF HoldsGet, GetScanning
<1> QED
  BY <1>1, <1>2

\* A head moves only in front of the tail that was read after it.
LEMMA TakeKeepsShared ==
    ASSUME TypeOK, TypeOK', GetInv, NEW t \in Threads, DeqTake(t)
    PROVE  GetWhole' /\ WindowsAligned' /\ GetWindowLag'
<1> USE PutNumbers, GetNumbers, GetNumbersNext
<1>1. UNCHANGED <<put_array, windows>> /\ pc[t] = "deq_test"
  BY DEF DeqTake, DeqLeave, Goto
<1>2. get_array[thread_index[t]].node < put_array[thread_index[t]].node
  <2>1. get_array[thread_index[t]].node # enq_descriptor[t].node
    BY DEF DeqTake, HeadIsTail, HeadUnchanged
  <2>2. /\ get_array[thread_index[t]].node <= enq_descriptor[t].node
        /\ enq_descriptor[t].node <= put_array[thread_index[t]].node
    BY <1>1 DEF DeqTake, HeadUnchanged, GetInv, GetThreadInv, TailReadLater
  <2> QED
    BY <2>1, <2>2
<1>a. /\ \A i \in Index : \/ get_array'[i] = get_array[i]
                            \/ /\ i = thread_index[t]
                               /\ get_array'[i].node = get_array[i].node + 1
                               /\ get_array'[i].get_count = get_array[i].get_count + 1
      /\ \A i \in Index : get_array[i].node \in Nat /\ get_array[i].get_count \in Nat
                          /\ put_array[i].node \in Nat
  BY HeadGrows
<1>3. GetWhole'
  <2> SUFFICES ASSUME NEW i \in Index
               PROVE  /\ get_array'[i].get_count = get_array'[i].node
                      /\ get_array'[i].node <= put_array[i].node
    BY <1>1 DEF GetWhole
  <2>1. get_array[i].get_count = get_array[i].node /\ get_array[i].node <= put_array[i].node
    BY DEF GetInv, GetWhole
  <2> QED
    BY ONLY <1>a, <1>2, <2>1
<1>4. WindowsAligned'
  BY <1>1 DEF GetInv, WindowsAligned, windows
<1>5. GetWindowLag'
  <2>1. ASSUME NEW i \in Index PROVE global_GWindow <= get_array'[i].get_count + 2 * Depth
    <3>1. global_GWindow <= get_array[i].get_count + 2 * Depth
      BY DEF GetInv, GetWindowLag
    <3>2. global_GWindow \in Nat
      BY DEF TypeOK
    <3> QED
      BY ONLY <1>a, <3>1, <3>2, DepthAssumption
  <2> QED
    BY <1>1, <2>1 DEF GetInv, GetWindowLag, windows
<1> QED
  BY <1>3, <1>4, <1>5

\* A shift of the get window stays behind the put window, because the round saw
\* an item above the window, and leaves no head more than two shifts behind,
\* because the round left every index within one.
LEMMA GetShiftKeepsShared ==
    ASSUME TypeOK, TypeOK', PutInv, GetInv, NEW t \in Threads, GetShift(t)
    PROVE  GetWhole' /\ WindowsAligned' /\ GetWindowLag'
<1> USE PutNumbers, GetNumbers, DepthAssumption
<1>1. /\ UNCHANGED <<put_array, get_array, global_PWindow>>
      /\ pc[t] = "get_shift"
  BY DEF GetShift, Goto, arrays
<1>2. CASE global_GWindow # thread_GWindow[t]
  BY <1>1, <1>2 DEF GetShift, GetInv, GetWhole, WindowsAligned, GetWindowLag
<1>3. CASE global_GWindow = thread_GWindow[t]
  <2>1. global_GWindow' = global_GWindow + Depth
    BY <1>3 DEF GetShift
  <2>2. global_GWindow < global_PWindow
    <3>1. PICK j \in Index : thread_GWindow[t] < put_array[j].put_count
      BY <1>1 DEF GetInv, GetThreadInv, GetRound
    <3>2. put_array[j].put_count <= global_PWindow
      BY DEF PutInv, PutWithinWindow
    <3> QED
      BY <1>3, <3>1, <3>2
  <2>3. global_GWindow + Depth <= global_PWindow
    BY <2>2, AlignedGap DEF GetInv, WindowsAligned
  <2>4. \A j \in Index : thread_GWindow[t] <= get_array[j].get_count + Depth
    <3>1. hops[t] = Width /\ thread_index[t] \in Index
      BY <1>1 DEF GetInv, GetThreadInv, GetRound
    <3>2. Visited(thread_index[t], Width) = Index
      BY <3>1, VisitedRound, WidthAssumption
    <3> QED
      BY <1>1, <3>1, <3>2 DEF GetInv, GetThreadInv, GetRound
  <2>5. GetWhole'
    BY <1>1 DEF GetInv, GetWhole
  <2>6. WindowsAligned'
    BY <1>1, <2>1, ShiftAligned DEF GetInv, WindowsAligned
  <2>7. GetWindowLag'
    BY <1>1, <1>3, <2>1, <2>3, <2>4 DEF GetWindowLag
  <2> QED
    BY <2>5, <2>6, <2>7
<1> QED
  BY <1>2, <1>3

\* Together with TypeOK both sides are inductive.
LEMMA QueueInvStep == TypeOK /\ QueueInv /\ [Next]_vars => TypeOK' /\ QueueInv'
<1> SUFFICES ASSUME TypeOK, QueueInv, [Next]_vars
             PROVE  TypeOK' /\ QueueInv'
  OBVIOUS
<1>a. PutInv /\ GetInv
  BY DEF QueueInv
<1>b. TypeOK' /\ PutInv'
  BY <1>a, PutInvStep
<1>1. ASSUME NEW t \in Threads, ThreadStep(t) PROVE GetInv'
  <2>1. SharedPutGrows /\ SharedGetGrows /\ OthersLocal(t)
    BY <1>1, SharedGrows, OthersLocalStep
  <2>2. GetThreadInv(t)'
    BY <1>1, <1>a, <1>b, <2>1, GetWindowThread, DequeueThread, PutSideThread
       DEF ThreadStep, WindowStep
  <2>3. ASSUME NEW u \in Threads PROVE GetThreadInv(u)'
    <3>1. CASE u = t
      BY <2>2, <3>1
    <3>2. CASE u # t
      BY <1>a, <1>b, <2>1, <3>2, GetOthersKeep
    <3> QED
      BY <3>1, <3>2
  <2>4. GetWhole' /\ WindowsAligned' /\ GetWindowLag'
    <3>1. CASE DeqTake(t)
      BY <1>a, <1>b, <3>1, TakeKeepsShared
    <3>2. CASE GetShift(t)
      BY <1>a, <1>b, <3>2, GetShiftKeepsShared
    <3>3. CASE ~DeqTake(t) /\ ~GetShift(t)
      <4>1. UNCHANGED <<get_array, global_GWindow>>
        BY <1>1, <3>3, GetArrayWrites, WindowWrites
      <4> QED
        BY <1>1, <1>a, <1>b, <2>1, <4>1, SharedGetKept
    <3> QED
      BY <3>1, <3>2, <3>3
  <2> QED
    BY <2>3, <2>4 DEF GetInv
<1>2. ASSUME UNCHANGED vars PROVE GetInv'
  <2>a. UNCHANGED <<put_array, get_array, global_PWindow, global_GWindow, pc, thread_index,
                    thread_GWindow, get_descriptor, enq_descriptor, put_count, hops, random,
                    notempty>>
    BY <1>2 DEF vars, windowVars, queueVars, arrays, windows, search
  <2>1. GetWhole' /\ WindowsAligned' /\ GetWindowLag'
    BY <1>a, <2>a DEF GetInv, GetWhole, WindowsAligned, GetWindowLag
  <2>2. ASSUME NEW u \in Threads PROVE GetThreadInv(u)'
    <3>1. GetThreadInv(u)
      BY <1>a DEF GetInv
    <3> QED
      BY <2>a, <3>1 DEF GetThreadInv, GetDescriptorOld, GetWindowOld, TailReadLater,
                        CountReadLater, GetRound
  <2> QED
    BY <2>1, <2>2 DEF GetInv
<1> QED
  BY <1>1, <1>2, <1>b DEF Next, Finished, QueueInv

-----------------------------------------------------------------------------
(***************************************************************************)
(* Results for every order of loading the words of a descriptor.           *)
(***************************************************************************)
\* Whatever the threads have read and when, the windows, the descriptors and
\* the searches agree: a word once read is never ahead of the array, a thread's
\* windows never ahead of the global ones, and every index a round has left
\* behind is full, or within one shift, as put_window and get_window saw it.
THEOREM QueueInvHolds == Spec => []QueueInv
<1>1. Init => TypeOK /\ QueueInv
  BY InitTypeOK, InitPutInv, InitGetInv DEF QueueInv
<1>2. TypeOK /\ QueueInv /\ [Next]_vars => (TypeOK /\ QueueInv)'
  BY QueueInvStep
<1> QED
  BY <1>1, <1>2, PTL DEF Spec

\* TypeOK and QueueInv hold together; every result below starts from here.
LEMMA Reachable == Spec => [](TypeOK /\ QueueInv)
BY TypeCorrect, QueueInvHolds, PTL

\* Helping and compare-exchange on two words keep every descriptor of the arrays
\* whole, however torn the copies that the threads work from are.
THEOREM DescriptorsStayWhole == Spec => []DescriptorsWhole
<1>1. TypeOK /\ QueueInv => DescriptorsWhole
  <2> SUFFICES ASSUME TypeOK, QueueInv, NEW i \in Index
               PROVE  /\ put_array[i].put_count = put_array[i].node
                      /\ get_array[i].get_count = get_array[i].node
                      /\ get_array[i].node <= put_array[i].node
                      /\ Len(items[i]) - put_array[i].node \in {0, 1}
    BY DEF DescriptorsWhole
  <2> QED
    BY PutNumbers, GetNumbers DEF QueueInv, PutInv, PutWhole, GetInv, GetWhole
<1> QED
  BY <1>1, Reachable, PTL

\* A dequeue that is past the test for an empty sub-queue finds a next node: the
\* tail it compared with was read after the head, so a tail that differs from
\* the head is in front of it.
THEOREM DequeueHasNext == Spec => []HeadHasNext
<1>1. TypeOK /\ QueueInv => HeadHasNext
  <2> SUFFICES ASSUME TypeOK, QueueInv, NEW t \in Threads,
                      pc[t] = "deq_test", ~HeadIsTail(t)
               PROVE  get_descriptor[t].node < Len(items[thread_index[t]])
    BY DEF HeadHasNext
  <2>1. /\ get_descriptor[t].node <= enq_descriptor[t].node
        /\ enq_descriptor[t].node <= put_array[thread_index[t]].node
    BY DEF QueueInv, GetInv, GetThreadInv, TailReadLater
  <2>2. put_array[thread_index[t]].node <= Len(items[thread_index[t]])
    BY PutNumbers DEF QueueInv, PutInv, PutWhole
  <2> QED
    BY <2>1, <2>2, PutNumbers, GetNumbers DEF HeadIsTail
<1> QED
  BY <1>1, Reachable, PTL

\* The get window never runs ahead of the put window, and no head is left more
\* than two shifts behind it.
THEOREM GetWindowHolds == Spec => []GetWindowLag
<1>1. QueueInv => GetWindowLag
  BY DEF QueueInv, GetInv
<1> QED
  BY <1>1, QueueInvHolds, PTL

-----------------------------------------------------------------------------
(***************************************************************************)
(* The items: stamps are given once, and the strict list of the relaxation *)
(* analysis holds what is queued.                                          *)
(***************************************************************************)
\* What is queued, position by position.
LEMMA QueuedIs ==
    ASSUME NEW x
    PROVE  x \in Queued <=>
             \E i \in Index : \E p \in get_array[i].node + 1 .. Len(items[i]) :
                x = items[i][p]
<1>1. x \in Queued <=> \E i \in Index : x \in QueuedIn(i)
  BY Zenon DEF Queued
<1>2. ASSUME NEW i \in Index
      PROVE  x \in QueuedIn(i) <=>
               \E p \in get_array[i].node + 1 .. Len(items[i]) : x = items[i][p]
  BY DEF QueuedIn
<1> QED
  BY <1>1, <1>2

\* The same of the next state.
LEMMA QueuedIsNext ==
    ASSUME NEW x
    PROVE  x \in Queued' <=>
             \E i \in Index : \E p \in get_array'[i].node + 1 .. Len(items'[i]) :
                x = items'[i][p]
<1>1. x \in Queued' <=> \E i \in Index : x \in QueuedIn(i)'
  BY Zenon DEF Queued
<1>2. ASSUME NEW i \in Index
      PROVE  x \in QueuedIn(i)' <=>
               \E p \in get_array'[i].node + 1 .. Len(items'[i]) : x = items'[i][p]
  BY DEF QueuedIn
<1> QED
  BY <1>1, <1>2

\* Every head is in its list.
LEMMA HeadInList ==
    ASSUME TypeOK, QueueInv
    PROVE  \A j \in Index : /\ Len(items[j]) \in Nat
                            /\ get_array[j].node \in Nat
                            /\ get_array[j].node <= Len(items[j])
<1>1. \A j \in Index : /\ get_array[j].node <= put_array[j].node
                       /\ put_array[j].node <= Len(items[j])
  BY DEF QueueInv, PutInv, PutWhole, GetInv, GetWhole
<1> QED
  BY <1>1, PutNumbers, GetNumbers

\* Linking a node adds one new stamp to the queue and to the strict list.
LEMMA LinkKeepsItems ==
    ASSUME TypeOK, QueueInv, ItemsInv, NEW t \in Threads, EnqLink(t)
    PROVE  ItemsInv'
<1> DEFINE i == thread_index[t]
<1> DEFINE s == stamp + 1
<1>a. /\ i \in Index /\ stamp \in Nat /\ s \in Nat
      /\ \A j \in Index : items[j] \in Seq(Nat) /\ Len(items[j]) \in Nat
      /\ \A j \in Index : get_array[j].node \in Nat /\ get_array[j].node <= Len(items[j])
  <2>1. i \in Index /\ stamp \in Nat /\ \A j \in Index : items[j] \in Seq(Nat)
    BY DEF TypeOK
  <2>2. \A j \in Index : get_array[j].node \in Nat /\ get_array[j].node <= Len(items[j])
    BY HeadInList
  <2> QED
    BY <2>1, <2>2
<1>b. /\ UNCHANGED get_array
      /\ stamp' = s
      /\ linear_clone' = linear_clone \cup {s}
  BY DEF EnqLink, AddLinear, NextStamp, windowVars, arrays
<1>c. \A j \in Index \ {i} : items'[j] = items[j]
  BY DEF EnqLink, NextStamp, TypeOK
<1>d. items'[i] = Append(items[i], s)
  BY <1>a DEF EnqLink, NextStamp, TypeOK
<1>e. /\ Len(items'[i]) = Len(items[i]) + 1
      /\ items'[i][Len(items[i]) + 1] = s
      /\ \A p \in 1 .. Len(items[i]) : items'[i][p] = items[i][p]
  BY <1>a, <1>d
<1>f. \A j \in Index : \A p \in 1 .. Len(items'[j]) :
         \/ p \in 1 .. Len(items[j]) /\ items'[j][p] = items[j][p]
         \/ j = i /\ p = Len(items[i]) + 1 /\ items'[j][p] = s
  <2> TAKE j \in Index
  <2> TAKE p \in 1 .. Len(items'[j])
  <2>1. CASE j = i
    BY <1>a, <1>e, <2>1
  <2>2. CASE j # i
    BY <1>a, <1>c, <2>2
  <2> QED
    BY <2>1, <2>2
<1>1. StampsUnique'
  <2>1. ASSUME NEW j \in Index, NEW p \in 1 .. Len(items'[j])
        PROVE  items'[j][p] \in 1 .. stamp'
    <3>1. \A r \in 1 .. Len(items[j]) : items[j][r] \in 1 .. stamp
      BY DEF ItemsInv, StampsUnique
    <3>2. items'[j][p] \in 1 .. stamp \/ items'[j][p] = s
      BY <1>f, <3>1
    <3> QED
      BY <1>a, <1>b, <3>2
  <2>2. ASSUME NEW j \in Index, NEW k \in Index, NEW p \in 1 .. Len(items'[j]),
               NEW q \in 1 .. Len(items'[k]), items'[j][p] = items'[k][q]
        PROVE  j = k /\ p = q
    <3>1. \A l \in Index : \A r \in 1 .. Len(items[l]) : items[l][r] # s
      BY <1>a DEF ItemsInv, StampsUnique
    <3>2. \A l \in 1 .. Len(items[j]) : \A r \in 1 .. Len(items[k]) :
             items[j][l] = items[k][r] => j = k /\ l = r
      BY DEF ItemsInv, StampsUnique
    <3> QED
      BY <1>f, <2>2, <3>1, <3>2
  <2> QED
    BY <2>1, <2>2 DEF StampsUnique
<1>2. linear_clone' = Queued'
  <2>1. ASSUME NEW x \in Queued PROVE x \in Queued'
    <3>1. PICK j \in Index : \E p \in get_array[j].node + 1 .. Len(items[j]) : x = items[j][p]
      BY QueuedIs
    <3>p. PICK p \in get_array[j].node + 1 .. Len(items[j]) : x = items[j][p]
      BY <3>1
    <3>2. p \in get_array'[j].node + 1 .. Len(items'[j]) /\ x = items'[j][p]
      <4>1. CASE j = i
        <5>1. p \in get_array[i].node + 1 .. Len(items[i]) /\ x = items[i][p]
          BY <3>p, <4>1
        <5>2. p \in 1 .. Len(items[i])
          BY <1>a, <5>1
        <5>3. p \in get_array[i].node + 1 .. Len(items[i]) + 1
          BY <1>a, <5>1
        <5> QED
          BY <1>b, <1>e, <4>1, <5>1, <5>2, <5>3
      <4>2. CASE j # i
        BY <1>b, <1>c, <3>p, <4>2
      <4> QED
        BY <4>1, <4>2
    <3> QED
      BY <3>2, QueuedIsNext
  <2>2. s \in Queued'
    <3>1. Len(items[i]) + 1 \in get_array'[i].node + 1 .. Len(items'[i])
      BY <1>a, <1>b, <1>e
    <3> QED
      BY <1>a, <1>e, <3>1, QueuedIsNext
  <2>3. ASSUME NEW x \in Queued', x # s PROVE x \in Queued
    <3>1. PICK j \in Index : \E p \in get_array'[j].node + 1 .. Len(items'[j]) : x = items'[j][p]
      BY QueuedIsNext
    <3>p. PICK p \in get_array'[j].node + 1 .. Len(items'[j]) : x = items'[j][p]
      BY <3>1
    <3>2. p \in 1 .. Len(items'[j])
      BY <1>a, <1>b, <1>c, <1>e, <3>p
    <3>3. p \in 1 .. Len(items[j]) /\ x = items[j][p]
      BY <1>f, <2>3, <3>p, <3>2
    <3>4. p \in get_array[j].node + 1 .. Len(items[j])
      BY <1>a, <1>b, <1>c, <1>e, <3>p, <3>3
    <3> QED
      BY <3>3, <3>4, QueuedIs
  <2> QED
    BY <1>b, <2>1, <2>2, <2>3 DEF ItemsInv
<1> QED
  BY <1>1, <1>2 DEF ItemsInv

\* Taking an item removes its stamp, which no other position holds.
LEMMA TakeKeepsItems ==
    ASSUME TypeOK, QueueInv, ItemsInv, NEW t \in Threads, DeqTake(t)
    PROVE  ItemsInv'
<1> DEFINE i == thread_index[t]
<1> DEFINE h == get_array[i].node
<1>a. /\ i \in Index /\ h \in Nat
      /\ \A j \in Index : Len(items[j]) \in Nat
      /\ \A j \in Index : get_array[j].node \in Nat /\ get_array[j].node <= Len(items[j])
  BY HeadInList DEF TypeOK
<1>b. /\ UNCHANGED <<items, stamp>>
      /\ linear_clone' = linear_clone \ {items[i][h + 1]}
      /\ pc[t] = "deq_test" /\ ~HeadIsTail(t) /\ get_array[i] = get_descriptor[t]
  BY DEF DeqTake, DeqLeave, RemoveLinear, TakenBy, Successor, HeadUnchanged, Goto
<1>c. h + 1 \in 1 .. Len(items[i])
  <2>1. h < put_array[i].node
    BY <1>b, PutNumbers, GetNumbers
       DEF QueueInv, GetInv, GetThreadInv, TailReadLater, HeadIsTail
  <2> QED
    BY <1>a, <2>1, PutNumbers DEF QueueInv, PutInv, PutWhole
<1>d. /\ get_array'[i].node = h + 1
      /\ \A j \in Index \ {i} : get_array'[j].node = get_array[j].node
  BY <1>a, HeadGrows
<1>1. StampsUnique'
  BY <1>b DEF ItemsInv, StampsUnique
<1>2. ASSUME NEW x \in Queued, x # items[i][h + 1] PROVE x \in Queued'
  <2>1. PICK j \in Index : \E p \in get_array[j].node + 1 .. Len(items[j]) : x = items[j][p]
    BY QueuedIs
  <2>p. PICK p \in get_array[j].node + 1 .. Len(items[j]) : x = items[j][p]
    BY <2>1
  <2>2. p \in get_array'[j].node + 1 .. Len(items'[j])
    <3>1. CASE j = i
      <4>1. p \in h + 1 .. Len(items[i]) /\ p # h + 1
        BY <1>2, <2>p, <3>1
      <4>2. p \in h + 2 .. Len(items[i])
        BY <1>a, <4>1
      <4> QED
        BY <1>a, <1>b, <1>d, <3>1, <4>2
    <3>2. CASE j # i
      BY <1>b, <1>d, <2>p, <3>2
    <3> QED
      BY <3>1, <3>2
  <2> QED
    BY <1>b, <2>p, <2>2, QueuedIsNext
<1>3. ASSUME NEW x \in Queued' PROVE x \in Queued /\ x # items[i][h + 1]
  <2>1. PICK j \in Index : \E p \in get_array'[j].node + 1 .. Len(items'[j]) : x = items'[j][p]
    BY QueuedIsNext
  <2>p. PICK p \in get_array'[j].node + 1 .. Len(items'[j]) : x = items'[j][p]
    BY <2>1
  <2>2. /\ p \in get_array[j].node + 1 .. Len(items[j]) /\ p \in 1 .. Len(items[j])
        /\ x = items[j][p]
        /\ ~(j = i /\ p = h + 1)
    <3>1. CASE j = i
      <4>1. p \in h + 2 .. Len(items[i]) /\ x = items[i][p]
        BY <1>a, <1>b, <1>d, <2>p, <3>1
      <4> QED
        BY <1>a, <3>1, <4>1
    <3>2. CASE j # i
      BY <1>a, <1>b, <1>d, <2>p, <3>2
    <3> QED
      BY <3>1, <3>2
  <2>3. x \in Queued
    BY <2>2, QueuedIs
  <2>4. \A q \in 1 .. Len(items[i]) : items[j][p] = items[i][q] => j = i /\ p = q
    BY <1>a, <2>2 DEF ItemsInv, StampsUnique
  <2>5. h + 1 \in 1 .. Len(items[i])
    BY <1>a, <1>c
  <2> QED
    BY <2>2, <2>3, <2>4, <2>5
<1>4. linear_clone' = Queued'
  BY <1>2, <1>3, <1>b DEF ItemsInv
<1> QED
  BY <1>1, <1>4 DEF ItemsInv

\* Taking an item and linking one are the only writes of the strict list.
LEMMA LinearWrites ==
    ASSUME NEW t \in Threads, ThreadStep(t), ~EnqLink(t), ~DeqTake(t)
    PROVE  UNCHANGED linear_clone
<1> USE DEF queueVars, analysis
<1>1. CASE Enqueue(t)
  BY <1>1 DEF Enqueue, EnqueueCall, EnqReadNext, EnqHelp, EnqRecheckFails,
              EnqRecheckPasses, EnqLinkFails, EnqSwingTail
<1>2. CASE Dequeue(t)
  BY <1>2 DEF Dequeue, DequeueCall, DeqReadTail, DeqRereadTail, DeqReturnsEmpty,
              DeqHelp, DeqTakeFails
<1> QED
  BY <1>1, <1>2 DEF ThreadStep, WindowStep

\* Together with TypeOK and QueueInv the items are inductive.
LEMMA ItemsInvStep == TypeOK /\ QueueInv /\ ItemsInv /\ [Next]_vars => ItemsInv'
<1> SUFFICES ASSUME TypeOK, QueueInv, ItemsInv, [Next]_vars PROVE ItemsInv'
  OBVIOUS
<1>1. ASSUME UNCHANGED <<items, get_array, stamp, linear_clone>> PROVE ItemsInv'
  BY <1>1 DEF ItemsInv, StampsUnique, Queued, QueuedIn
<1>2. ASSUME NEW t \in Threads, ThreadStep(t) PROVE ItemsInv'
  <2>1. CASE EnqLink(t)
    BY <2>1, LinkKeepsItems
  <2>2. CASE DeqTake(t)
    BY <2>2, TakeKeepsItems
  <2>3. CASE ~EnqLink(t) /\ ~DeqTake(t)
    BY <1>1, <1>2, <2>3, LinearWrites, ItemsWrites, GetArrayWrites
  <2> QED
    BY <2>1, <2>2, <2>3
<1>3. CASE UNCHANGED vars
  BY <1>1, <1>3 DEF vars, windowVars, queueVars, arrays, analysis
<1> QED
  BY <1>2, <1>3 DEF Next, Finished

\* Stamps are given once and the strict list holds what is queued.
LEMMA ItemsReachable == Spec => []ItemsInv
<1>1. Init => ItemsInv
  <2> SUFFICES ASSUME Init PROVE ItemsInv
    OBVIOUS
  <2>1. \A i \in Index : items[i] = <<>> /\ get_array[i].node = 0
    BY DEF Init, NoGet
  <2>2. StampsUnique
    BY <2>1 DEF StampsUnique
  <2>3. Queued = {}
    BY <2>1, QueuedIs
  <2> QED
    BY <2>2, <2>3 DEF Init, ItemsInv
<1>2. TypeOK /\ QueueInv /\ ItemsInv /\ [Next]_vars => ItemsInv'
  BY ItemsInvStep
<1> QED
  BY <1>1, <1>2, Reachable, PTL DEF Spec

\* No item is lost, removed twice or removed before it is linked, and the
\* asserts of remove_linear never fail: the stamp a dequeue takes is in the
\* strict list.
THEOREM ItemsExactlyOnce == Spec => []ExactlyOnce
<1>1. TypeOK /\ QueueInv /\ ItemsInv => ExactlyOnce
  <2> SUFFICES ASSUME TypeOK, QueueInv, ItemsInv, NEW t \in Threads,
                      pc[t] = "deq_test", ~HeadIsTail(t), HeadUnchanged(t)
               PROVE  TakenBy(t) \in Queued
    BY DEF ExactlyOnce, ItemsInv
  <2>1. thread_index[t] \in Index
    BY PutNumbers
  <2>2. get_descriptor[t].node < put_array[thread_index[t]].node
    BY PutNumbers, GetNumbers
       DEF QueueInv, GetInv, GetThreadInv, TailReadLater, HeadIsTail
  <2>3. /\ get_descriptor[t].node < Len(items[thread_index[t]])
        /\ get_array[thread_index[t]].node = get_descriptor[t].node
    BY <2>1, <2>2, PutNumbers, GetNumbers DEF QueueInv, PutInv, PutWhole, HeadUnchanged
  <2>4. Successor(get_descriptor[t].node)
           \in get_array[thread_index[t]].node + 1 .. Len(items[thread_index[t]])
    BY <2>1, <2>3, PutNumbers, GetNumbers DEF Successor
  <2> QED
    BY <2>1, <2>4, QueuedIs DEF TakenBy
<1> QED
  BY <1>1, Reachable, ItemsReachable, PTL

-----------------------------------------------------------------------------
(***************************************************************************)
(* A tail that lags has an owner, if put_window loads the node of a        *)
(* descriptor before its count.                                            *)
(***************************************************************************)
\* Loading the node first makes the count at least as new as the node.
LEMMA PutCountNewerStep ==
    ASSUME PutReadOrders \subseteq {"node_first"},
           TypeOK, QueueInv, PutCountNewer, NEW t \in Threads, ThreadStep(t)
    PROVE  PutCountNewer'
<1>a. ASSUME NEW u \in Threads \ {t}, pc'[u] \in HoldsPut
      PROVE  put_descriptor'[u].node <= put_descriptor'[u].put_count
  BY <1>a, OthersLocalStep DEF OthersLocal, PutCountNewer
<1>b. ASSUME pc'[t] \in HoldsPut
      PROVE  put_descriptor'[t].node <= put_descriptor'[t].put_count
  <2>1. CASE PutRead(t)
    <3>1. put_descriptor'[t] = put_array[thread_index[t]]
      BY <2>1 DEF PutRead, TypeOK
    <3> QED
      BY <3>1, PutNumbers DEF QueueInv, PutInv, PutWhole
  <2>2. CASE PutReread(t)
    <3>1. /\ pc[t] \in HoldsPut
          /\ put_descriptor'[t] = [put_array[thread_index[t]] EXCEPT
                                     !.node = put_descriptor[t].node]
      BY <2>2 DEF PutReread, Goto, SecondLoad, TypeOK, HoldsPut
    <3>2. put_array[thread_index[t]] \in PutDescriptor
      BY DEF TypeOK
    <3>3. /\ put_descriptor'[t].node = put_descriptor[t].node
          /\ put_descriptor'[t].put_count = put_array[thread_index[t]].put_count
      BY <3>1, <3>2 DEF PutDescriptor
    <3>4. put_descriptor[t].node <= put_array[thread_index[t]].node
      BY <3>1 DEF QueueInv, PutInv, PutThreadInv, PutDescriptorOld
    <3> QED
      BY <3>3, <3>4, PutNumbers DEF QueueInv, PutInv, PutWhole
  <2>3. CASE ~PutRead(t) /\ ~PutReread(t)
    <3>1. pc[t] \in HoldsPut /\ put_descriptor'[t] = put_descriptor[t]
      <4> USE DEF Goto, TypeOK, HoldsPut, windowVars
      <4>1. CASE PutWindow(t)
        BY <1>b, <2>3, <4>1
           DEF PutWindow, PutEnter, PutSync, PutReturn, PutHop, PutExhausted, PutShift,
               PutResync
      <4>2. CASE GetWindow(t)
        BY <1>b, <4>2
           DEF GetWindow, GetEnter, GetRead, GetReread, GetReadPutCount, GetSync,
               GetReturn, GetHop, GetExhausted, GetEmpty, GetShift, GetResync
      <4>3. CASE Enqueue(t)
        BY <1>b, <4>3
           DEF Enqueue, EnqueueCall, EnqReadNext, EnqHelp, EnqRecheckFails,
               EnqRecheckPasses, EnqLink, EnqLinkFails, EnqSwingTail
      <4>4. CASE Dequeue(t)
        BY <1>b, <4>4
           DEF Dequeue, DequeueCall, DeqReadTail, DeqRereadTail, DeqReturnsEmpty,
               DeqHelp, DeqTake, DeqTakeFails
      <4> QED
        BY <4>1, <4>2, <4>3, <4>4 DEF ThreadStep, WindowStep
    <3> QED
      BY <3>1 DEF PutCountNewer
  <2> QED
    BY <2>1, <2>2, <2>3
<1> QED
  BY <1>a, <1>b DEF PutCountNewer

\* Only linking a node and moving a tail touch the put side, and only the owner
\* of a lag is at enq_tail.
LEMMA EnqTailLeft ==
    ASSUME TypeOK, NEW t \in Threads, ThreadStep(t), pc[t] = "enq_tail"
    PROVE  EnqSwingTail(t)
<1> USE DEF Goto
<1>1. CASE PutWindow(t)
  BY <1>1 DEF PutWindow, PutEnter, PutRead, PutReread, PutSync, PutReturn, PutHop,
              PutExhausted, PutShift, PutResync
<1>2. CASE GetWindow(t)
  BY <1>2 DEF GetWindow, GetEnter, GetRead, GetReread, GetReadPutCount, GetSync,
              GetReturn, GetHop, GetExhausted, GetEmpty, GetShift, GetResync
<1>3. CASE Enqueue(t)
  BY <1>3 DEF Enqueue, EnqueueCall, EnqReadNext, EnqHelp, EnqRecheckFails,
              EnqRecheckPasses, EnqLink, EnqLinkFails
<1>4. CASE Dequeue(t)
  BY <1>4 DEF Dequeue, DequeueCall, DeqReadTail, DeqRereadTail, DeqReturnsEmpty,
              DeqHelp, DeqTake, DeqTakeFails
<1> QED
  BY <1>1, <1>2, <1>3, <1>4 DEF ThreadStep, WindowStep

\* A link makes its thread the owner of the lag, and the exchange of the owner
\* cannot fail.
LEMMA LagOwnedStep ==
    ASSUME TypeOK, QueueInv, PutCountNewer, LagOwned, NEW t \in Threads, ThreadStep(t)
    PROVE  LagOwned'
<1> USE PutNumbers
<1>a. ASSUME NEW i \in Index, put_array'[i] = put_array[i], items'[i] = items[i],
             put_array[i].node < Len(items[i])
      PROVE  \/ \E u \in Threads : /\ pc'[u] = "enq_tail" /\ thread_index'[u] = i
                                   /\ put_descriptor'[u] = put_array'[i]
             \/ EnqSwingTail(t) /\ thread_index[t] = i /\ put_descriptor[t] = put_array[i]
  <2>1. PICK u \in Threads : /\ pc[u] = "enq_tail" /\ thread_index[u] = i
                             /\ put_descriptor[u] = put_array[i]
    BY <1>a DEF LagOwned
  <2>2. CASE u = t
    BY <2>1, <2>2, EnqTailLeft
  <2>3. CASE u # t
    BY <1>a, <2>1, <2>3, OthersLocalStep DEF OthersLocal
  <2> QED
    BY <2>2, <2>3
<1>1. CASE EnqLink(t)
  <2> SUFFICES ASSUME NEW i \in Index, put_array'[i].node < Len(items'[i])
               PROVE  \E u \in Threads : /\ pc'[u] = "enq_tail" /\ thread_index'[u] = i
                                         /\ put_descriptor'[u] = put_array'[i]
    BY DEF LagOwned
  <2>1. /\ UNCHANGED <<put_array, thread_index, put_descriptor>>
        /\ pc[t] = "enq_cas" /\ pc'[t] = "enq_tail"
        /\ put_descriptor[t].node = Len(items[thread_index[t]])
        /\ \A j \in Index \ {thread_index[t]} : items'[j] = items[j]
    BY <1>1 DEF EnqLink, Goto, TypeOK, windowVars, arrays, NextIsNull
  <2>2. CASE i = thread_index[t]
    <3>1. /\ put_descriptor[t].node <= put_array[i].node
          /\ put_descriptor[t].put_count <= put_array[i].put_count
          /\ put_descriptor[t].node <= put_descriptor[t].put_count
      BY <2>1, <2>2 DEF QueueInv, PutInv, PutThreadInv, PutDescriptorOld, PutCountNewer,
                        HoldsPut
    <3>2. /\ put_array[i].put_count = put_array[i].node
          /\ put_array[i].node <= Len(items[i])
      BY DEF QueueInv, PutInv, PutWhole
    <3>3. /\ put_descriptor[t].node = put_array[i].node
          /\ put_descriptor[t].put_count = put_array[i].put_count
      BY <2>1, <2>2, <3>1, <3>2
    <3>4. put_descriptor[t] \in PutDescriptor /\ put_array[i] \in PutDescriptor
      BY DEF TypeOK
    <3>5. put_descriptor[t] = put_array[i]
      BY <3>3, <3>4 DEF PutDescriptor
    <3> QED
      BY <2>1, <2>2, <3>5
  <2>3. CASE i # thread_index[t]
    BY <1>1, <1>a, <2>1, <2>3 DEF EnqLink, EnqSwingTail, Goto
  <2> QED
    BY <2>2, <2>3
<1>2. CASE ~EnqLink(t)
  <2>1. UNCHANGED items
    BY <1>2, ItemsWrites
  <2> SUFFICES ASSUME NEW i \in Index, put_array'[i].node < Len(items'[i])
               PROVE  \E u \in Threads : /\ pc'[u] = "enq_tail" /\ thread_index'[u] = i
                                         /\ put_descriptor'[u] = put_array'[i]
    BY DEF LagOwned
  <2>2. \/ put_array'[i] = put_array[i]
        \/ put_array'[i].node = put_array[i].node + 1
    <3>1. CASE UNCHANGED put_array
      BY <3>1
    <3>2. CASE AdvanceTail(t, put_descriptor[t])
      BY <3>2, TailGrows
    <3>3. CASE AdvanceTail(t, enq_descriptor[t])
      BY <3>3, TailGrows
    <3> QED
      BY <3>1, <3>2, <3>3, PutArrayWrites
  <2>3. put_array'[i] = put_array[i]
    BY <2>1, <2>2 DEF QueueInv, PutInv, PutWhole
  <2>4. ASSUME EnqSwingTail(t), thread_index[t] = i, put_descriptor[t] = put_array[i]
        PROVE  FALSE
    <3>1. put_array'[i] = [node |-> put_array[i].node + 1,
                           put_count |-> put_array[i].put_count + 1]
      BY <2>4 DEF EnqSwingTail, AdvanceTail, Successor, TypeOK
    <3>2. put_array'[i].node = put_array[i].node + 1
      BY <3>1
    <3> QED
      BY <2>3, <3>2
  <2> QED
    BY <1>a, <2>1, <2>3, <2>4
<1> QED
  BY <1>1, <1>2

\* When enqueue returns, its node is in front of the tail pointer: a tail that
\* lags always belongs to an enqueue that has not returned, provided put_window
\* loads the node of a descriptor before its count.
THEOREM LagsAreOwned ==
    PutReadOrders \subseteq {"node_first"} => (Spec => []LagHasOwner)
<1> SUFFICES ASSUME PutReadOrders \subseteq {"node_first"}
             PROVE  Spec => []LagHasOwner
  OBVIOUS
<1>1. Init => LagInv
  <2>1. Init => PutCountNewer
    BY DEF Init, PutCountNewer, HoldsPut
  <2>2. Init => LagOwned
    BY DEF Init, LagOwned, NoPut
  <2> QED
    BY <2>1, <2>2 DEF LagInv
<1>2. TypeOK /\ QueueInv /\ LagInv /\ [Next]_vars => LagInv'
  <2> SUFFICES ASSUME TypeOK, QueueInv, LagInv, [Next]_vars PROVE LagInv'
    OBVIOUS
  <2>1. ASSUME NEW t \in Threads, ThreadStep(t) PROVE LagInv'
    BY <2>1, PutCountNewerStep, LagOwnedStep DEF LagInv
  <2>2. CASE UNCHANGED vars
    BY <2>2 DEF LagInv, PutCountNewer, LagOwned, vars, windowVars, queueVars, arrays
  <2> QED
    BY <2>1, <2>2 DEF Next, Finished
<1>3. LagInv => LagHasOwner
  BY DEF LagInv, LagOwned, LagHasOwner
<1> QED
  BY <1>1, <1>2, <1>3, Reachable, PTL DEF Spec

-----------------------------------------------------------------------------
(***************************************************************************)
(* A dequeue that reports the queue empty is right, if get_window loads    *)
(* the node of a descriptor before its count.                              *)
(***************************************************************************)
\* Sub-queues only get new stamps, so what held none of the old ones behind a
\* position holds none behind a later one.
LEMMA NoneKept ==
    ASSUME TypeOK, NEW t \in Threads, ThreadStep(t), NEW u \in Threads,
           NEW j \in Index, NEW n \in Nat, NEW m \in Nat, n <= m,
           published'[u] = published[u], \A x \in published[u] : x <= stamp,
           NonePublished(u, j, n)
    PROVE  \A p \in m + 1 .. Len(items'[j]) : items'[j][p] \notin published'[u]
<1> SUFFICES ASSUME NEW p \in m + 1 .. Len(items'[j])
             PROVE  items'[j][p] \notin published[u]
  OBVIOUS
<1>1. CASE p \in 1 .. Len(items[j]) /\ items'[j][p] = items[j][p]
  <2>1. p \in n + 1 .. Len(items[j])
    BY <1>1
  <2> QED
    BY <1>1, <2>1 DEF NonePublished
<1>2. CASE items'[j][p] = stamp + 1
  <2>1. stamp \in Nat
    BY DEF TypeOK
  <2> QED
    BY <1>2, <2>1
<1>3. \/ p \in 1 .. Len(items[j]) /\ items'[j][p] = items[j][p]
      \/ items'[j][p] = stamp + 1
  <2>1. items[j] \in Seq(Nat) /\ Len(items[j]) \in Nat /\ stamp + 1 \in Nat
    BY DEF TypeOK
  <2>2. items'[j] = items[j] \/ items'[j] = Append(items[j], stamp + 1)
    <3>1. CASE EnqLink(t)
      BY <3>1 DEF EnqLink, NextStamp, TypeOK
    <3>2. CASE ~EnqLink(t)
      BY <3>2, ItemsWrites
    <3> QED
      BY <3>1, <3>2
  <2>3. CASE items'[j] = items[j]
    BY <2>1, <2>3
  <2>4. CASE items'[j] = Append(items[j], stamp + 1)
    <3>1. Len(items'[j]) = Len(items[j]) + 1
      BY <2>1, <2>4
    <3>2. CASE p = Len(items[j]) + 1
      BY <2>1, <2>4, <3>2
    <3>3. CASE p # Len(items[j]) + 1
      <4>1. p \in 1 .. Len(items[j])
        BY <2>1, <3>1, <3>3
      <4> QED
        BY <2>1, <2>4, <4>1
    <3> QED
      BY <3>2, <3>3
  <2> QED
    BY <2>2, <2>3, <2>4
<1> QED
  BY <1>1, <1>2, <1>3

\* Nothing is left stays true while the call goes on.
LEMMA NoneLeftKept ==
    ASSUME TypeOK, TypeOK', NEW t \in Threads, ThreadStep(t), NEW u \in Threads,
           published'[u] = published[u], \A x \in published[u] : x <= stamp,
           NoneLeft(u)
    PROVE  NoneLeft(u)'
<1> SUFFICES ASSUME NEW j \in Index
             PROVE  \A p \in get_array'[j].node + 1 .. Len(items'[j]) :
                       items'[j][p] \notin published'[u]
  BY DEF NoneLeft, NonePublished
<1>1. /\ get_array[j].node \in Nat /\ get_array'[j].node \in Nat
      /\ get_array[j].node <= get_array'[j].node
  BY GetNumbers, GetNumbersNext, SharedGrows DEF SharedGetGrows
<1>2. NonePublished(u, j, get_array[j].node)
  BY DEF NoneLeft
<1> QED
  BY <1>1, <1>2, NoneKept
\* What a dequeue noted as published stays as it is until the dequeue returns.
LEMMA PublishedWrites ==
    ASSUME TypeOK, NEW t \in Threads, ThreadStep(t), ~DequeueCall(t)
    PROVE  \/ /\ published'[t] = published[t]
              /\ pc'[t] \in InDequeue => pc[t] \in InDequeue
           \/ published'[t] = {} /\ pc'[t] \notin InDequeue
<1> USE DEF Goto, TypeOK, InDequeue, GetWindowPCs, GetScanning, queueVars
<1>1. CASE PutWindow(t) /\ UNCHANGED queueVars
  BY <1>1 DEF PutWindow, PutEnter, PutRead, PutReread, PutSync, PutReturn, PutHop,
              PutExhausted, PutShift, PutResync
<1>2. CASE GetWindow(t) /\ UNCHANGED queueVars
  BY <1>2 DEF GetWindow, GetEnter, GetRead, GetReread, GetReadPutCount, GetSync,
              GetReturn, GetHop, GetExhausted, GetEmpty, GetShift, GetResync
<1>3. CASE Enqueue(t)
  BY <1>3 DEF Enqueue, EnqueueCall, EnqReadNext, EnqHelp, EnqRecheckFails,
              EnqRecheckPasses, EnqLink, EnqLinkFails, EnqSwingTail
<1>4. CASE Dequeue(t)
  BY <1>4 DEF Dequeue, DeqReadTail, DeqRereadTail, DeqReturnsEmpty, DeqHelp, DeqTake,
              DeqTakeFails, DeqLeave
<1> QED
  BY <1>1, <1>2, <1>3, <1>4 DEF ThreadStep, WindowStep

\* Stamps only go up.
LEMMA StampGrows ==
    ASSUME TypeOK, NEW t \in Threads, ThreadStep(t)
    PROVE  stamp \in Nat /\ stamp' \in Nat /\ stamp <= stamp'
<1>1. stamp \in Nat
  BY DEF TypeOK
<1>2. CASE EnqLink(t)
  BY <1>1, <1>2 DEF EnqLink, NextStamp
<1>3. CASE ~EnqLink(t)
  BY <1>1, <1>3, ItemsWrites
<1> QED
  BY <1>2, <1>3

\* As long as its dequeue goes on, what a thread noted stays in front of the
\* tails.
LEMMA InFrontKept ==
    ASSUME TypeOK, TypeOK', NEW t \in Threads, ThreadStep(t), NEW u \in Threads,
           published'[u] = published[u], PublishedInFront(u), pc[u] \in InDequeue
    PROVE  /\ \A x \in published'[u] : x <= stamp'
           /\ \A j \in Index : NonePublished(u, j, put_array[j].node)'
<1>1. \A x \in published[u] : x <= stamp
  BY DEF PublishedInFront
<1>2. \A x \in published[u] : x \in Nat
  BY DEF TypeOK
<1>3. \A x \in published'[u] : x <= stamp'
  BY <1>1, <1>2, StampGrows
<1>4. ASSUME NEW j \in Index PROVE NonePublished(u, j, put_array[j].node)'
  <2>1. /\ put_array[j].node \in Nat /\ put_array'[j].node \in Nat
        /\ put_array[j].node <= put_array'[j].node
    BY PutNumbers, PutNumbersNext, SharedGrows DEF SharedPutGrows
  <2>2. NonePublished(u, j, put_array[j].node)
    BY DEF PublishedInFront
  <2>3. \A p \in put_array'[j].node + 1 .. Len(items'[j]) : items'[j][p] \notin published'[u]
    BY <1>1, <2>1, <2>2, NoneKept
  <2> QED
    BY <2>3 DEF NonePublished
<1> QED
  BY <1>3, <1>4

\* What is known of a thread's dequeue survives the steps of the others.
LEMMA EmptyOthersKeep ==
    ASSUME TypeOK, TypeOK', EmptyInv, NEW t \in Threads, ThreadStep(t),
           NEW u \in Threads \ {t}
    PROVE  EmptyThreadInv(u)'
<1>a. /\ pc'[u] = pc[u] /\ thread_index'[u] = thread_index[u] /\ hops'[u] = hops[u]
      /\ notempty'[u] = notempty[u] /\ get_descriptor'[u] = get_descriptor[u]
      /\ enq_descriptor'[u] = enq_descriptor[u] /\ put_count'[u] = put_count[u]
      /\ published'[u] = published[u]
  BY OthersLocalStep DEF OthersLocal
<1>b. EmptyThreadInv(u) /\ thread_index[u] \in Index /\ put_count[u] \in Nat
  BY DEF EmptyInv, TypeOK
<1>c. /\ \A x \in published[u] : x <= stamp /\ x \in Nat
  BY <1>b DEF EmptyThreadInv, PublishedInFront, TypeOK
<1>d. \A x \in published'[u] : x <= stamp'
  BY <1>a, <1>c, StampGrows
<1>1. PublishedInFront(u)'
  <2>1. pc[u] \in InDequeue => \A j \in Index : NonePublished(u, j, put_array[j].node)'
    BY <1>a, <1>b, InFrontKept DEF EmptyThreadInv
  <2>2. ASSUME pc[u] = "get_check" PROVE NonePublished(u, thread_index[u], put_count[u])'
    <3>1. NonePublished(u, thread_index[u], put_count[u]) /\ put_count[u] <= put_count[u]
      BY <1>b, <2>2 DEF EmptyThreadInv, PublishedInFront
    <3>2. \A p \in put_count[u] + 1 .. Len(items'[thread_index[u]]) :
             items'[thread_index[u]][p] \notin published'[u]
      BY <1>a, <1>b, <1>c, <3>1, NoneKept
    <3> QED
      BY <1>a, <3>2 DEF NonePublished
  <2> QED
    BY <1>a, <1>d, <2>1, <2>2 DEF PublishedInFront
<1>2. GetCountNewer(u)'
  BY <1>a, <1>b DEF EmptyThreadInv, GetCountNewer
<1>3. LeftBehindEmpty(u)'
  <2> SUFFICES ASSUME pc[u] \in GetScanning, notempty[u] = 0,
                      NEW j \in Visited(thread_index[u], hops[u])
               PROVE  NonePublished(u, j, get_array[j].node)'
    BY <1>a DEF LeftBehindEmpty
  <2>1. j \in Index
    BY DEF Visited
  <2>2. /\ get_array[j].node \in Nat /\ get_array'[j].node \in Nat
        /\ get_array[j].node <= get_array'[j].node
    BY <2>1, GetNumbers, GetNumbersNext, SharedGrows DEF SharedGetGrows
  <2>3. NonePublished(u, j, get_array[j].node)
    BY <1>b DEF EmptyThreadInv, LeftBehindEmpty
  <2>4. \A p \in get_array'[j].node + 1 .. Len(items'[j]) : items'[j][p] \notin published'[u]
    BY <1>a, <1>c, <2>1, <2>2, <2>3, NoneKept
  <2> QED
    BY <2>4 DEF NonePublished
<1>4. GetReturnJustified(u)'
  <2>1. NoneLeft(u) => NoneLeft(u)'
    BY <1>a, <1>c, NoneLeftKept
  <2>2. /\ put_array[thread_index[u]].node \in Nat /\ put_array'[thread_index[u]].node \in Nat
        /\ get_descriptor[u].node \in Nat
        /\ put_array[thread_index[u]].node <= put_array'[thread_index[u]].node
    BY <1>b, PutNumbers, PutNumbersNext, GetNumbers, SharedGrows DEF SharedPutGrows
  <2> QED
    BY <1>a, <1>b, <2>1, <2>2 DEF EmptyThreadInv, GetReturnJustified
<1> QED
  BY <1>1, <1>2, <1>3, <1>4 DEF EmptyThreadInv

\* What a dequeue notes when it is called lies in front of the tails.
LEMMA EmptyCall ==
    ASSUME TypeOK, TypeOK', QueueInv, ItemsInv, NEW t \in Threads, DequeueCall(t)
    PROVE  EmptyThreadInv(t)'
<1>a. /\ UNCHANGED <<items, put_array, get_array, stamp>> /\ pc'[t] = "get_window"
      /\ published'[t] = UNION {PublishedIn(i) : i \in Index}
  BY DEF DequeueCall, Goto, TypeOK, arrays, analysis
<1>b. \A j \in Index : Len(items[j]) \in Nat /\ put_array[j].node \in Nat
                       /\ get_array[j].node \in Nat /\ put_array[j].node <= Len(items[j])
  BY PutNumbers, GetNumbers DEF QueueInv, PutInv, PutWhole
<1>c. ASSUME NEW x \in published'[t]
      PROVE  \E i \in Index : \E q \in 1 .. put_array[i].node :
                q \in 1 .. Len(items[i]) /\ x = items[i][q]
  <2>1. PICK i \in Index : x \in PublishedIn(i)
    BY <1>a, <1>c, Zenon
  <2>2. PICK q \in get_array[i].node + 1 .. put_array[i].node : x = items[i][q]
    BY <2>1 DEF PublishedIn
  <2>3. q \in 1 .. put_array[i].node /\ q \in 1 .. Len(items[i])
    BY <1>b, <2>2
  <2> QED
    BY <2>2, <2>3
<1>1. \A x \in published'[t] : x <= stamp'
  <2> TAKE x \in published'[t]
  <2>1. PICK i \in Index : \E q \in 1 .. put_array[i].node :
                q \in 1 .. Len(items[i]) /\ x = items[i][q]
    BY <1>c
  <2>2. x \in 1 .. stamp
    BY <2>1 DEF ItemsInv, StampsUnique
  <2> QED
    BY <1>a, <2>2 DEF TypeOK
<1>2. ASSUME NEW j \in Index PROVE NonePublished(t, j, put_array[j].node)'
  <2> SUFFICES ASSUME NEW p \in put_array[j].node + 1 .. Len(items[j]),
                      items[j][p] \in published'[t]
               PROVE  FALSE
    BY <1>a DEF NonePublished
  <2>1. PICK i \in Index : \E q \in 1 .. put_array[i].node :
                q \in 1 .. Len(items[i]) /\ items[j][p] = items[i][q]
    BY <1>c
  <2>2. PICK q \in 1 .. put_array[i].node :
                q \in 1 .. Len(items[i]) /\ items[j][p] = items[i][q]
    BY <2>1
  <2>3. p \in 1 .. Len(items[j])
    BY <1>b
  <2>4. i = j /\ p = q
    BY <2>2, <2>3 DEF ItemsInv, StampsUnique
  <2> QED
    BY <1>b, <2>2, <2>4
<1> QED
  BY <1>a, <1>1, <1>2
     DEF EmptyThreadInv, PublishedInFront, GetCountNewer, LeftBehindEmpty,
         GetReturnJustified, HoldsGet, GetScanning

\* get_window answers for its own dequeue.
LEMMA EmptyGetWindow ==
    ASSUME GetReadOrders \subseteq {"node_first"},
           TypeOK, TypeOK', QueueInv, EmptyInv, NEW t \in Threads, GetWindow(t),
           UNCHANGED queueVars
    PROVE  EmptyThreadInv(t)'
<1> DEFINE i == thread_index[t]
<1>a. /\ EmptyThreadInv(t) /\ GetThreadInv(t)
      /\ i \in Index /\ thread_index'[t] \in Index /\ hops[t] \in 0 .. Width
  BY DEF EmptyInv, QueueInv, GetInv, TypeOK
<1>b. /\ UNCHANGED <<items, published, stamp, arrays, enq_descriptor>>
      /\ pc[t] \in InDequeue
  BY DEF queueVars, analysis, GetWindow, GetEnter, GetRead, GetReread, GetReadPutCount,
         GetSync, GetReturn, GetHop, GetExhausted, GetEmpty, GetShift, GetResync,
         GetLeave, arrays, Goto, InDequeue, GetWindowPCs, GetScanning
<1>c. /\ \A x \in published'[t] : x <= stamp'
      /\ \A j \in Index : NonePublished(t, j, put_array[j].node)'
  BY <1>a, <1>b DEF EmptyThreadInv, PublishedInFront, NonePublished, arrays
<1>d. Visited(thread_index'[t], 0) = {}
  BY <1>a, VisitedRound, WidthAssumption
<1>e. /\ put_array[i].node \in Nat /\ put_array[i].put_count = put_array[i].node
      /\ get_array[i].node \in Nat /\ get_array[i].get_count = get_array[i].node
      /\ get_descriptor[t].node \in Nat /\ get_descriptor[t].get_count \in Nat
      /\ put_count[t] \in Nat
  BY <1>a, PutNumbers, GetNumbers DEF QueueInv, PutInv, PutWhole, GetInv, GetWhole
<1> USE DEF EmptyThreadInv, PublishedInFront, GetCountNewer, LeftBehindEmpty,
            GetReturnJustified, HoldsGet, GetScanning
<1>1. CASE GetEnter(t) \/ GetSync(t) \/ GetResync(t)
  <2>1. pc'[t] = "get_read" /\ hops'[t] = 0
    BY <1>1 DEF GetEnter, GetSync, GetResync, ResetSearch, Goto, TypeOK
  <2> QED
    BY <1>c, <1>d, <2>1
<1>2. CASE GetRead(t)
  <2>1. /\ pc[t] = "get_read" /\ pc'[t] = "get_reread"
        /\ get_descriptor'[t] = get_array[i]
        /\ UNCHANGED <<thread_index, search>>
    BY <1>2 DEF GetRead, Goto, TypeOK
  <2> QED
    BY <1>a, <1>b, <1>c, <1>e, <2>1 DEF arrays, search, NonePublished
<1>3. CASE GetReread(t)
  <2>1. /\ pc[t] = "get_reread" /\ pc'[t] = "get_count"
        /\ get_descriptor'[t] = [get_array[i] EXCEPT !.node = get_descriptor[t].node]
        /\ UNCHANGED <<thread_index, search>>
    BY <1>3 DEF GetReread, Goto, TypeOK, SecondLoad
  <2>2. get_array[i] \in GetDescriptor
    BY <1>a DEF TypeOK
  <2>3. /\ get_descriptor'[t].node = get_descriptor[t].node
        /\ get_descriptor'[t].get_count = get_array[i].get_count
    BY <2>1, <2>2 DEF GetDescriptor
  <2>4. get_descriptor[t].node <= get_array[i].node
    BY <1>a, <2>1 DEF GetThreadInv, GetDescriptorOld
  <2> QED
    BY <1>a, <1>b, <1>c, <1>e, <2>1, <2>3, <2>4 DEF arrays, search, NonePublished
<1>4. CASE GetReadPutCount(t)
  <2>1. /\ pc[t] = "get_count" /\ pc'[t] = "get_check"
        /\ put_count'[t] = put_array[i].node
        /\ UNCHANGED <<thread_index, search, get_descriptor>>
    BY <1>4, <1>e DEF GetReadPutCount, Goto, TypeOK
  <2>2. NonePublished(t, thread_index[t], put_count[t])'
    BY <1>a, <1>b, <1>c, <2>1 DEF NonePublished, arrays
  <2> QED
    BY <1>a, <1>b, <1>c, <2>1, <2>2 DEF arrays, search, NonePublished
<1>5. CASE GetReturn(t)
  <2>1. /\ pc[t] = "get_check" /\ pc'[t] = "get_return"
        /\ UNCHANGED <<thread_index, get_descriptor>>
        /\ put_count[t] # get_descriptor[t].get_count
    BY <1>5 DEF GetReturn, GetValid, SeenNonEmpty, GetLeave, Goto, TypeOK
  <2>2. get_descriptor[t].node < put_array[i].node
    BY <1>a, <1>e, <2>1 DEF GetThreadInv, CountReadLater
  <2> QED
    BY <1>a, <1>b, <1>c, <2>1, <2>2 DEF arrays
<1>6. CASE GetHop(t)
  <2>1. /\ pc[t] = "get_check" /\ pc'[t] = "get_read" /\ hops[t] # Width
        /\ notempty'[t] = IF put_count[t] # get_descriptor[t].get_count
                          THEN 1 ELSE notempty[t]
    BY <1>6 DEF GetHop, SeenNonEmpty, Goto, TypeOK
  <2>2. ASSUME notempty'[t] = 0
        PROVE  NonePublished(t, i, get_array[i].node)
    <3>1. put_count[t] <= get_array[i].node
      BY <1>a, <1>e, <2>1, <2>2 DEF GetThreadInv, GetDescriptorOld
    <3>2. NonePublished(t, i, put_count[t])
      BY <1>a, <2>1
    <3>3. Len(items[i]) \in Nat
      BY <1>a, PutNumbers
    <3> QED
      BY <1>e, <3>1, <3>2, <3>3 DEF NonePublished
  <2>3. CASE RandomHop(t)
    <3>1. random[t] < RandomHops /\ hops'[t] = hops[t]
      BY <2>3 DEF RandomHop
    <3>2. hops[t] = 0
      <4>1. hops[t] > 0 => random[t] >= RandomHops
        BY <1>a, <2>1 DEF GetThreadInv, GetRound
      <4>2. random[t] \in Nat /\ hops[t] \in Nat
        BY RandomHopsAssumption, WidthAssumption DEF TypeOK
      <4> QED
        BY <3>1, <4>1, <4>2, RandomHopsAssumption
    <3> QED
      BY <1>c, <1>d, <2>1, <3>1, <3>2
  <2>4. CASE LinearHop(t)
    <3>1. hops'[t] = hops[t] + 1 /\ thread_index'[t] = NextIndex(i)
      BY <2>4 DEF LinearHop, TypeOK
    <3>2. Visited(thread_index'[t], hops'[t]) \subseteq Visited(i, hops[t]) \cup {i}
      BY <1>a, <2>1, <3>1, VisitedRound, WidthAssumption
    <3>3. ASSUME notempty'[t] = 0, NEW j \in Visited(thread_index'[t], hops'[t])
          PROVE  NonePublished(t, j, get_array[j].node)
      BY <1>a, <2>1, <2>2, <3>2, <3>3
    <3>4. LeftBehindEmpty(t)'
      BY <1>b, <3>3 DEF NonePublished, arrays
    <3> QED
      BY <1>c, <2>1, <3>4
  <2> QED
    BY <1>6, <2>3, <2>4 DEF GetHop, Hop
<1>7. CASE GetEmpty(t)
  <2>1. /\ pc[t] = "get_check" /\ pc'[t] = "get_return"
        /\ hops[t] = Width /\ notempty[t] = 0
        /\ UNCHANGED <<thread_index, get_descriptor>>
    BY <1>7 DEF GetEmpty, GetLeave, Goto, TypeOK
  <2>2. Visited(i, Width) = Index
    BY <1>a, VisitedRound, WidthAssumption
  <2>3. NoneLeft(t)
    BY <1>a, <2>1, <2>2 DEF NoneLeft
  <2>4. NoneLeft(t)'
    BY <1>b, <2>3 DEF NoneLeft, NonePublished, arrays
  <2> QED
    BY <1>a, <1>c, <2>1, <2>4
<1>8. CASE GetExhausted(t) \/ GetShift(t)
  <2>1. pc'[t] \in {"get_shift", "get_resync"}
    BY <1>8 DEF GetExhausted, GetShift, Goto, TypeOK
  <2> QED
    BY <1>c, <2>1
<1> QED
  BY <1>1, <1>2, <1>3, <1>4, <1>5, <1>6, <1>7, <1>8 DEF GetWindow

\* dequeue answers for itself: the tail it read is not behind the one that
\* get_window left its head behind.
LEMMA EmptyDequeue ==
    ASSUME GetReadOrders \subseteq {"node_first"},
           TypeOK, TypeOK', QueueInv, ItemsInv, EmptyInv, NEW t \in Threads, Dequeue(t)
    PROVE  EmptyThreadInv(t)'
<1>a. EmptyThreadInv(t) /\ thread_index[t] \in Index
  BY DEF EmptyInv, TypeOK
<1> USE DEF EmptyThreadInv, PublishedInFront, GetCountNewer, LeftBehindEmpty,
            GetReturnJustified, HoldsGet, GetScanning
<1>1. CASE DequeueCall(t)
  BY <1>1, EmptyCall
<1>2. CASE DeqReadTail(t)
  <2>1. /\ pc[t] = "get_return" /\ pc'[t] = "deq_reread"
        /\ enq_descriptor'[t] = put_array[thread_index[t]]
        /\ UNCHANGED <<items, published, stamp, put_array, get_array, get_descriptor>>
    BY <1>2 DEF DeqReadTail, Goto, TypeOK, windowVars, arrays, analysis
  <2>2. pc[t] \in InDequeue
    BY <2>1 DEF InDequeue
  <2>3. /\ \A x \in published'[t] : x <= stamp'
        /\ \A j \in Index : NonePublished(t, j, put_array[j].node)'
    BY <1>a, <2>1, <2>2 DEF NonePublished
  <2>4. NoneLeft(t)' \/ get_descriptor'[t].node < enq_descriptor'[t].node
    BY <1>a, <2>1 DEF NoneLeft, NonePublished
  <2> QED
    BY <1>a, <2>1, <2>3, <2>4
<1>3. CASE DeqRereadTail(t)
  <2>1. /\ pc[t] = "deq_reread" /\ pc'[t] = "deq_test"
        /\ enq_descriptor'[t] = [put_array[thread_index[t]] EXCEPT
                                   !.node = enq_descriptor[t].node]
        /\ UNCHANGED <<items, published, stamp, put_array, get_array, get_descriptor>>
    BY <1>3 DEF DeqRereadTail, SecondLoad, Goto, TypeOK, windowVars, arrays, analysis
  <2>2. pc[t] \in InDequeue
    BY <2>1 DEF InDequeue
  <2>3. enq_descriptor'[t].node = enq_descriptor[t].node
    <3>1. put_array[thread_index[t]] \in PutDescriptor
      BY <1>a DEF TypeOK
    <3> QED
      BY <2>1, <3>1 DEF PutDescriptor
  <2>4. /\ \A x \in published'[t] : x <= stamp'
        /\ \A j \in Index : NonePublished(t, j, put_array[j].node)'
    BY <1>a, <2>1, <2>2 DEF NonePublished
  <2>5. NoneLeft(t)' \/ get_descriptor'[t].node < enq_descriptor'[t].node
    BY <1>a, <2>1, <2>3 DEF NoneLeft, NonePublished
  <2> QED
    BY <1>a, <2>1, <2>4, <2>5
<1>4. CASE DeqHelp(t) \/ DeqTakeFails(t)
  <2>1. /\ pc[t] = "deq_test" /\ pc'[t] = "get_window" /\ published' = published
    BY <1>4 DEF DeqHelp, DeqTakeFails, Goto, TypeOK, queueVars
  <2>2. pc[t] \in InDequeue
    BY <2>1 DEF InDequeue
  <2>3. /\ \A x \in published'[t] : x <= stamp'
        /\ \A j \in Index : NonePublished(t, j, put_array[j].node)'
    BY <1>a, <2>1, <2>2, InFrontKept DEF ThreadStep
  <2> QED
    BY <2>1, <2>3
<1>5. CASE DeqReturnsEmpty(t) \/ DeqTake(t)
  <2>1. pc'[t] = "idle" /\ published'[t] = {}
    BY <1>5 DEF DeqReturnsEmpty, DeqTake, DeqLeave, Goto, TypeOK
  <2> QED
    BY <2>1 DEF InDequeue, GetWindowPCs
<1> QED
  BY <1>1, <1>2, <1>3, <1>4, <1>5 DEF Dequeue

\* put_window and enqueue have nothing to answer for.
LEMMA EmptyPutSide ==
    ASSUME TypeOK, EmptyInv, NEW t \in Threads, ThreadStep(t),
           (PutWindow(t) /\ UNCHANGED queueVars) \/ Enqueue(t)
    PROVE  EmptyThreadInv(t)'
<1>1. pc'[t] \in PutWindowPCs \cup {"put_return", "enq_recheck", "enq_cas", "enq_tail", "idle"}
  <2> USE DEF Goto, TypeOK, PutWindowPCs, PutScanning
  <2>1. CASE PutWindow(t)
    BY <2>1 DEF PutWindow, PutEnter, PutRead, PutReread, PutSync, PutReturn, PutHop,
                PutExhausted, PutShift, PutResync
  <2>2. CASE Enqueue(t)
    BY <2>2 DEF Enqueue, EnqueueCall, EnqReadNext, EnqHelp, EnqRecheckFails,
                EnqRecheckPasses, EnqLink, EnqLinkFails, EnqSwingTail
  <2> QED
    BY <2>1, <2>2
<1>2. published'[t] = published[t]
  BY DEF queueVars, Enqueue, EnqueueCall, EnqReadNext, EnqHelp, EnqRecheckFails,
         EnqRecheckPasses, EnqLink, EnqLinkFails, EnqSwingTail
<1>3. \A x \in published[t] : x \in Nat /\ x <= stamp
  BY DEF TypeOK, EmptyInv, EmptyThreadInv, PublishedInFront
<1>4. \A x \in published'[t] : x <= stamp'
  BY <1>2, <1>3, StampGrows
<1> QED
  BY <1>1, <1>4
     DEF EmptyThreadInv, PublishedInFront, GetCountNewer, LeftBehindEmpty,
         GetReturnJustified, InDequeue, HoldsGet, GetWindowPCs, GetScanning,
         PutWindowPCs, PutScanning

\* A dequeue reports the queue empty only if everything that was published when
\* it began has been removed since, provided get_window loads the node of a
\* descriptor before its count.
THEOREM EmptyIsJustified ==
    GetReadOrders \subseteq {"node_first"} => (Spec => EmptyJustified)
<1> SUFFICES ASSUME GetReadOrders \subseteq {"node_first"}
             PROVE  Spec => EmptyJustified
  OBVIOUS
<1>1. Init => EmptyInv
  BY DEF Init, EmptyInv, EmptyThreadInv, PublishedInFront, GetCountNewer,
         LeftBehindEmpty, GetReturnJustified, InDequeue, HoldsGet, GetWindowPCs,
         GetScanning
<1>2. TypeOK /\ QueueInv /\ ItemsInv /\ EmptyInv /\ [Next]_vars => EmptyInv'
  <2> SUFFICES ASSUME TypeOK, QueueInv, ItemsInv, EmptyInv, [Next]_vars PROVE EmptyInv'
    OBVIOUS
  <2>a. TypeOK'
    BY QueueInvStep
  <2>1. ASSUME NEW t \in Threads, ThreadStep(t), NEW u \in Threads
        PROVE  EmptyThreadInv(u)'
    <3>1. CASE u = t
      BY <2>a, <2>1, <3>1, EmptyGetWindow, EmptyDequeue, EmptyPutSide
         DEF ThreadStep, WindowStep
    <3>2. CASE u # t
      BY <2>a, <2>1, <3>2, EmptyOthersKeep
    <3> QED
      BY <3>1, <3>2
  <2>2. ASSUME UNCHANGED vars, NEW u \in Threads PROVE EmptyThreadInv(u)'
    <3>1. UNCHANGED <<pc, published, stamp, items, put_array, get_array, thread_index,
                      put_count, get_descriptor, enq_descriptor, notempty, hops>>
      BY <2>2 DEF vars, windowVars, queueVars, arrays, search, analysis
    <3>2. EmptyThreadInv(u)
      BY DEF EmptyInv
    <3> QED
      BY <3>1, <3>2
         DEF EmptyThreadInv, PublishedInFront, GetCountNewer, LeftBehindEmpty,
             GetReturnJustified, NoneLeft, NonePublished
  <2> QED
    BY <2>1, <2>2 DEF Next, Finished, EmptyInv
<1>3. TypeOK /\ EmptyInv =>
        \A t \in Threads : DeqReturnsEmpty(t) => published[t] \cap Queued = {}
  <2> SUFFICES ASSUME TypeOK, EmptyInv, NEW t \in Threads, DeqReturnsEmpty(t),
                      NEW x \in Queued, x \in published[t]
               PROVE  FALSE
    OBVIOUS
  <2>1. NoneLeft(t)
    <3>1. pc[t] = "deq_test" /\ get_descriptor[t].node = enq_descriptor[t].node
      BY DEF DeqReturnsEmpty, HeadIsTail, Goto
    <3>2. GetReturnJustified(t)
      BY DEF EmptyInv, EmptyThreadInv
    <3> QED
      BY <3>1, <3>2, GetNumbers DEF GetReturnJustified
  <2>2. PICK i \in Index : \E p \in get_array[i].node + 1 .. Len(items[i]) : x = items[i][p]
    BY QueuedIs
  <2> QED
    BY <2>1, <2>2 DEF NoneLeft, NonePublished
<1> QED
  BY <1>1, <1>2, <1>3, Reachable, ItemsReachable, PTL DEF Spec, EmptyJustified

-----------------------------------------------------------------------------
(***************************************************************************)
(* How far out of order a dequeue is.  The put window cuts the sub-queues  *)
(* into rows of Depth positions, and no row is begun before the one below  *)
(* it is full: an item of a later row is newer than any item of an earlier *)
(* one, wherever the two are.                                              *)
(***************************************************************************)
\* The positions at which a row may end.
Edge(e) == \E k \in 0 .. e : e = k * Depth

RowsOrdered ==
    \A i, j \in Index : \A p \in 1 .. Len(items[i]), q \in 1 .. Len(items[j]) :
        \A e \in Nat : (Edge(e) /\ p <= e /\ e < q) => items[i][p] < items[j][q]

ListsOrdered ==
    \A i \in Index : \A p, q \in 1 .. Len(items[i]) : p < q => items[i][p] < items[i][q]

OrderInv == RowsOrdered /\ ListsOrdered

\* A link puts its node into the highest row that has been begun.
LEMMA LinkInLastRow ==
    ASSUME TypeOK, QueueInv, NEW i \in Index, NEW j \in Index,
           NEW e \in Nat, Edge(e), Len(items[i]) + 1 <= e
    PROVE  Len(items[j]) <= e
<1>1. /\ global_PWindow \in Nat /\ Len(items[i]) \in Nat /\ Len(items[j]) \in Nat
      /\ put_array[i].put_count \in Nat
  BY PutNumbers
<1>2. /\ Len(items[j]) <= global_PWindow
      /\ global_PWindow <= put_array[i].put_count + Depth
      /\ put_array[i].put_count <= Len(items[i])
  BY DEF QueueInv, PutInv, PutWithinWindow, PutWhole
<1>3. SUFFICES ASSUME e < Len(items[j]) PROVE FALSE
  BY <1>1
<1>4. e < global_PWindow
  BY <1>1, <1>2, <1>3
<1>5. e + Depth <= global_PWindow
  <2>1. \E k \in 0 .. e : e = k * Depth
    BY DEF Edge
  <2>2. \E k \in 0 .. global_PWindow : global_PWindow = k * Depth
    BY DEF QueueInv, GetInv, WindowsAligned
  <2> QED
    BY <1>1, <1>4, <2>1, <2>2, AlignedGap
<1> QED
  BY <1>1, <1>2, <1>5, DepthAssumption

\* A new stamp is the newest, and lies in the last row.
LEMMA LinkKeepsOrder ==
    ASSUME TypeOK, QueueInv, ItemsInv, OrderInv, NEW t \in Threads, EnqLink(t)
    PROVE  OrderInv'
<1> DEFINE a == thread_index[t]
<1>a. a \in Index /\ stamp \in Nat
  BY DEF TypeOK
<1>b. \A j \in Index : items[j] \in Seq(Nat) /\ Len(items[j]) \in Nat
  BY DEF TypeOK
<1>c. items' = [items EXCEPT ![a] = Append(items[a], stamp + 1)]
  BY DEF EnqLink, NextStamp
<1>d. \A j \in Index : items'[j] = IF j = a THEN Append(items[a], stamp + 1) ELSE items[j]
  BY <1>c DEF TypeOK
<1>e. \A j \in Index : \A p \in 1 .. Len(items[j]) : items[j][p] \in Nat /\ items[j][p] <= stamp
  BY <1>a DEF ItemsInv, StampsUnique
<1>f. ASSUME NEW j \in Index, NEW p \in 1 .. Len(items'[j])
      PROVE  \/ p \in 1 .. Len(items[j]) /\ items'[j][p] = items[j][p]
             \/ j = a /\ p = Len(items[a]) + 1 /\ items'[j][p] = stamp + 1
  <2>1. CASE j # a
    BY <1>d, <1>f, <2>1
  <2>2. CASE j = a
    <3>1. items'[j] = Append(items[a], stamp + 1)
      BY <1>d, <2>2
    <3>2. Len(items'[j]) = Len(items[a]) + 1
      BY <1>a, <1>b, <3>1
    <3>3. CASE p = Len(items[a]) + 1
      BY <1>a, <1>b, <2>2, <3>1, <3>3
    <3>4. CASE p # Len(items[a]) + 1
      <4>1. p \in 1 .. Len(items[a])
        BY <1>a, <1>b, <1>f, <3>2, <3>4
      <4> QED
        BY <1>a, <1>b, <2>2, <3>1, <4>1
    <3> QED
      BY <3>3, <3>4
  <2> QED
    BY <2>1, <2>2
<1> HIDE DEF a
<1>1. ASSUME NEW i \in Index, NEW j \in Index, NEW p \in 1 .. Len(items'[i]),
             NEW q \in 1 .. Len(items'[j]), NEW e \in Nat, Edge(e), p <= e, e < q
      PROVE  items'[i][p] < items'[j][q]
  <2>1. \/ p \in 1 .. Len(items[i]) /\ items'[i][p] = items[i][p]
        \/ i = a /\ p = Len(items[a]) + 1 /\ items'[i][p] = stamp + 1
    BY <1>f
  <2>2. \/ q \in 1 .. Len(items[j]) /\ items'[j][q] = items[j][q]
        \/ j = a /\ q = Len(items[a]) + 1 /\ items'[j][q] = stamp + 1
    BY <1>f
  <2>3. CASE p \in 1 .. Len(items[i]) /\ items'[i][p] = items[i][p]
    <3>1. CASE q \in 1 .. Len(items[j]) /\ items'[j][q] = items[j][q]
      <4>1. items[i][p] < items[j][q]
        BY <1>1, <2>3, <3>1 DEF OrderInv, RowsOrdered
      <4> QED
        BY <2>3, <3>1, <4>1
    <3>2. CASE items'[j][q] = stamp + 1
      <4>1. items[i][p] \in Nat /\ items[i][p] <= stamp
        BY <1>e, <2>3
      <4> QED
        BY <1>a, <2>3, <3>2, <4>1
    <3> QED
      BY <2>2, <3>1, <3>2
  <2>4. CASE i = a /\ p = Len(items[a]) + 1
    <3>1. Len(items[j]) <= e
      BY <1>1, <1>a, <2>4, LinkInLastRow
    <3>2. Len(items[a]) \in Nat /\ Len(items[j]) \in Nat
      BY <1>a, <1>b
    <3>3. q # Len(items[a]) + 1
      BY <1>1, <2>4, <3>2
    <3>4. ~ (q \in 1 .. Len(items[j]))
      BY <1>1, <3>1, <3>2
    <3> QED
      BY <2>2, <3>3, <3>4
  <2> QED
    BY <2>1, <2>3, <2>4
<1>2. ASSUME NEW i \in Index, NEW p \in 1 .. Len(items'[i]), NEW q \in 1 .. Len(items'[i]),
             p < q
      PROVE  items'[i][p] < items'[i][q]
  <2>1. \/ p \in 1 .. Len(items[i]) /\ items'[i][p] = items[i][p]
        \/ i = a /\ p = Len(items[a]) + 1 /\ items'[i][p] = stamp + 1
    BY <1>f
  <2>2. \/ q \in 1 .. Len(items[i]) /\ items'[i][q] = items[i][q]
        \/ i = a /\ q = Len(items[a]) + 1 /\ items'[i][q] = stamp + 1
    BY <1>f
  <2>3. Len(items[i]) \in Nat
    BY <1>b
  <2>4. p \in 1 .. Len(items[i]) /\ items'[i][p] = items[i][p]
    <3>1. ~ (i = a /\ p = Len(items[a]) + 1)
      BY <1>2, <2>2, <2>3
    <3> QED
      BY <2>1, <3>1
  <2>5. CASE q \in 1 .. Len(items[i]) /\ items'[i][q] = items[i][q]
    <3>1. items[i][p] < items[i][q]
      BY <1>2, <2>4, <2>5 DEF OrderInv, ListsOrdered
    <3> QED
      BY <2>4, <2>5, <3>1
  <2>6. CASE items'[i][q] = stamp + 1
    <3>1. items[i][p] \in Nat /\ items[i][p] <= stamp
      BY <1>e, <2>4
    <3> QED
      BY <1>a, <2>4, <2>6, <3>1
  <2> QED
    BY <2>2, <2>5, <2>6
<1>3. RowsOrdered'
  BY <1>1 DEF RowsOrdered, Edge
<1>4. ListsOrdered'
  BY <1>2 DEF ListsOrdered
<1> QED
  BY <1>3, <1>4 DEF OrderInv

LEMMA OrderReachable == Spec => []OrderInv
<1>1. Init => OrderInv
  <2> SUFFICES ASSUME Init PROVE OrderInv
    OBVIOUS
  <2>1. \A i \in Index : items[i] = <<>>
    BY DEF Init
  <2>2. \A i \in Index : 1 .. Len(items[i]) = {}
    BY <2>1
  <2> QED
    BY <2>2 DEF OrderInv, RowsOrdered, ListsOrdered
<1>2. TypeOK /\ QueueInv /\ ItemsInv /\ OrderInv /\ [Next]_vars => OrderInv'
  <2> SUFFICES ASSUME TypeOK, QueueInv, ItemsInv, OrderInv, [Next]_vars PROVE OrderInv'
    OBVIOUS
  <2>1. CASE UNCHANGED items
    BY <2>1 DEF OrderInv, RowsOrdered, ListsOrdered, Edge
  <2>2. ASSUME NEW t \in Threads, ThreadStep(t) PROVE OrderInv'
    BY <2>1, <2>2, ItemsWrites, LinkKeepsOrder
  <2>3. CASE UNCHANGED vars
    BY <2>1, <2>3 DEF vars, queueVars
  <2> QED
    BY <2>2, <2>3 DEF Next, Finished
<1> QED
  BY <1>1, <1>2, Reachable, ItemsReachable, PTL DEF Spec

\* The items that are older than the head of a sub-queue whose head is inside
\* the get window: at most c in each other sub-queue, if no head is more than c
\* behind the window.
LEMMA OlderItems ==
    ASSUME TypeOK, QueueInv, ItemsInv, OrderInv, NEW i \in Index, NEW c \in Nat,
           get_array[i].node < global_GWindow,
           get_array[i].node < Len(items[i]),
           \A j \in Index : global_GWindow <= get_array[j].node + c
    PROVE  Skipped(items[i][get_array[i].node + 1]) <= c * (Width - 1)
<1> DEFINE Others == Index \ {i}
           Pairs == Others \X (1 .. c)
           At(x) == items[x[1]][get_array[x[1]].node + x[2]]
           f == [x \in Pairs |-> At(x)]
           T == {f[x] : x \in Pairs}
           mine == items[i][get_array[i].node + 1]
           S == {x \in linear_clone : x < mine}
<1>1. /\ global_GWindow \in Nat
      /\ \A j \in Index : get_array[j].node \in Nat /\ Len(items[j]) \in Nat
      /\ linear_clone = Queued
      /\ Edge(global_GWindow)
  BY PutNumbers, GetNumbers DEF ItemsInv, QueueInv, GetInv, WindowsAligned, Edge
<1>2. \A j \in Index : \A p \in 1 .. Len(items[j]) : items[j][p] \in Nat
  BY DEF TypeOK
<1>3. get_array[i].node + 1 \in 1 .. Len(items[i])
  BY <1>1
<1>4. mine \in Nat
  BY <1>2, <1>3
<1>5. ASSUME NEW x \in S PROVE x \in T
  <2>1. x \in Queued /\ x < mine
    BY <1>1
  <2> HIDE DEF mine
  <2>2. PICK j \in Index : \E q \in get_array[j].node + 1 .. Len(items[j]) : x = items[j][q]
    BY <2>1, QueuedIs
  <2>3. PICK q \in get_array[j].node + 1 .. Len(items[j]) : x = items[j][q]
    BY <2>2
  <2>4. q \in 1 .. Len(items[j]) /\ x \in Nat
    BY <1>1, <1>2, <2>3
  <2>5. j # i
    <3> SUFFICES ASSUME j = i PROVE FALSE
      OBVIOUS
    <3>1. CASE q = get_array[i].node + 1
      BY <1>4, <2>1, <2>3, <3>1 DEF mine
    <3>2. CASE q # get_array[i].node + 1
      <4>1. get_array[i].node + 1 < q
        BY <1>1, <2>3, <3>2
      <4>2. mine < x
        BY <1>3, <2>3, <2>4, <4>1 DEF OrderInv, ListsOrdered, mine
      <4> QED
        BY <1>4, <2>1, <2>4, <4>2
    <3> QED
      BY <3>1, <3>2
  <2>6. q <= global_GWindow
    <3> SUFFICES ASSUME global_GWindow < q PROVE FALSE
      BY <1>1, <2>4
    <3>1. get_array[i].node + 1 <= global_GWindow
      BY <1>1
    <3>2. mine < x
      BY <1>1, <1>3, <2>3, <2>4, <3>1 DEF OrderInv, RowsOrdered, mine
    <3> QED
      BY <1>4, <2>1, <2>4, <3>2
  <2>7. PICK d \in 1 .. c : q = get_array[j].node + d
    <3>1. /\ global_GWindow <= get_array[j].node + c /\ get_array[j].node \in Nat
          /\ global_GWindow \in Nat /\ q \in Nat /\ get_array[j].node + 1 <= q
      BY <1>1, <2>3, <2>4
    <3>2. q - get_array[j].node \in 1 .. c /\ q = get_array[j].node + (q - get_array[j].node)
      BY <2>6, <3>1
    <3> QED
      BY <3>2
  <2>8. <<j, d>> \in Pairs
    BY <2>5
  <2>9. f[<<j, d>>] = x
    BY <2>3, <2>7, <2>8
  <2> HIDE DEF f, Pairs
  <2> QED
    BY <2>8, <2>9
<1>6. IsFiniteSet(Pairs) /\ Cardinality(Pairs) = (Width - 1) * c
  <2> HIDE DEF f, T, S, mine
  <2>1. IsFiniteSet(Index) /\ Cardinality(Index) = Width
    BY FS_Interval, WidthAssumption DEF Index
  <2>2. IsFiniteSet(Others) /\ Cardinality(Others) = Width - 1
    BY <2>1, FS_RemoveElement
  <2>3. IsFiniteSet(1 .. c) /\ Cardinality(1 .. c) = c
    BY FS_Interval
  <2> HIDE DEF Others
  <2> QED
    BY <2>2, <2>3, FS_Product
<1>7. f \in Surjection(Pairs, T)
  <2> HIDE DEF Pairs, At
  <2> QED
    BY DEF Surjection
<1>8. IsFiniteSet(T) /\ Cardinality(T) <= Cardinality(Pairs)
  <2> HIDE DEF f, T, Pairs
  <2> QED
    BY <1>6, <1>7, FS_Surjection
<1>9. S \in SUBSET T
  BY <1>5
<1>10. IsFiniteSet(S) /\ Cardinality(S) <= Cardinality(T)
  <2> HIDE DEF S, T
  <2> QED
    BY <1>8, <1>9, FS_Subset
<1>11. Cardinality(S) \in Nat /\ Cardinality(T) \in Nat
  <2> HIDE DEF S, T
  <2> QED
    BY <1>8, <1>10, FS_CardinalityType
<1>12. Skipped(mine) = Cardinality(S)
  BY DEF Skipped
<1>13. (Width - 1) * c = c * (Width - 1) /\ (Width - 1) * c \in Nat
  BY WidthAssumption
<1> HIDE DEF S, T, Pairs, mine
<1>14. Cardinality(S) <= c * (Width - 1)
  BY <1>6, <1>8, <1>10, <1>11, <1>13
<1> QED
  BY <1>12, <1>14 DEF mine

\* A dequeue that finds its item inside the get window, as all do that do not
\* come from a round that saw nothing, skips at most twice the bound of
\* create_queue, whatever the other threads do meanwhile: the get window may
\* leave a sub-queue two shifts behind (GetWindowLag), not one.
WindowedTwiceOutOfOrder ==
    [][\A t \in Threads :
          DeqTake(t) /\ get_descriptor[t].get_count < global_GWindow =>
              Skipped(TakenBy(t)) <= 2 * RelaxationBound]_vars

\* Where an item that is about to be taken lies.
LEMMA TakenIsHead ==
    ASSUME TypeOK, QueueInv, NEW t \in Threads, DeqTake(t)
    PROVE  LET i == thread_index[t]
           IN  /\ i \in Index
               /\ get_descriptor[t] = get_array[i]
               /\ get_array[i].get_count = get_array[i].node
               /\ get_array[i].node < Len(items[i])
               /\ TakenBy(t) = items[i][get_array[i].node + 1]
<1> DEFINE i == thread_index[t]
<1>1. i \in Index /\ pc[t] = "deq_test" /\ ~HeadIsTail(t) /\ get_descriptor[t] = get_array[i]
  BY DEF TypeOK, DeqTake, Goto, HeadUnchanged
<1>2. get_descriptor[t].node < put_array[i].node
  BY <1>1, PutNumbers, GetNumbers
     DEF QueueInv, GetInv, GetThreadInv, TailReadLater, HeadIsTail
<1>3. /\ get_array[i].get_count = get_array[i].node
      /\ get_array[i].node < Len(items[i])
  BY <1>1, <1>2, PutNumbers, GetNumbers DEF QueueInv, GetInv, GetWhole, PutInv, PutWhole
<1> QED
  BY <1>1, <1>3 DEF TakenBy, Successor

THEOREM WindowedDequeueBound == Spec => WindowedTwiceOutOfOrder
<1>1. ASSUME TypeOK, QueueInv, ItemsInv, OrderInv, NEW t \in Threads, DeqTake(t),
             get_descriptor[t].get_count < global_GWindow
      PROVE  Skipped(TakenBy(t)) <= 2 * RelaxationBound
  <2> DEFINE i == thread_index[t]
  <2>1. /\ i \in Index
        /\ get_descriptor[t] = get_array[i]
        /\ get_array[i].get_count = get_array[i].node
        /\ get_array[i].node < Len(items[i])
        /\ TakenBy(t) = items[i][get_array[i].node + 1]
    BY <1>1, TakenIsHead
  <2>2. get_array[i].node < global_GWindow
    BY <1>1, <2>1
  <2>3. \A j \in Index : global_GWindow <= get_array[j].node + 2 * Depth
    BY <1>1 DEF QueueInv, GetInv, GetWindowLag, GetWhole
  <2>4. 2 * Depth \in Nat /\ (2 * Depth) * (Width - 1) = 2 * RelaxationBound
    BY DepthAssumption, WidthAssumption DEF RelaxationBound
  <2>5. Skipped(items[i][get_array[i].node + 1]) <= (2 * Depth) * (Width - 1)
    BY <1>1, <2>1, <2>2, <2>3, <2>4, OlderItems
  <2> QED
    BY <2>1, <2>4, <2>5
<1>2. TypeOK /\ QueueInv /\ ItemsInv /\ OrderInv =>
        \A t \in Threads : DeqTake(t) /\ get_descriptor[t].get_count < global_GWindow =>
            Skipped(TakenBy(t)) <= 2 * RelaxationBound
  BY <1>1
<1> QED
  BY <1>2, Reachable, ItemsReachable, OrderReachable, PTL DEF WindowedTwiceOutOfOrder

-----------------------------------------------------------------------------
(***************************************************************************)
(* The bound of create_queue itself, for operations that do not overlap.   *)
(* Nothing changes under a thread then, so that its descriptors are those  *)
(* of the arrays, a round finds every sub-queue at the window or empty,    *)
(* and the get window leaves no head more than one shift behind.           *)
(***************************************************************************)
OneThread == \A u, v \in Threads : u = v

HeadsNear == \A j \in Index : global_GWindow <= get_array[j].node + Depth

Emptied(j) == get_array[j].node = put_array[j].node

\* What get_window and dequeue hold is what there is.
HoldsCurrent(t) ==
    /\ pc[t] \in HoldsGet => get_descriptor[t] = get_array[thread_index[t]]
    /\ pc[t] = "get_check" => put_count[t] = put_array[thread_index[t]].node
    /\ pc[t] \in {"deq_reread", "deq_test"} =>
          enq_descriptor[t] = put_array[thread_index[t]]
    /\ pc[t] \in GetScanning \cup {"get_shift"} => thread_GWindow[t] = global_GWindow

\* Every index left behind is at the window's edge or empty, and empty if the
\* round has seen nothing.
RoundSettles(t) ==
    pc[t] \in GetScanning \cup {"get_shift"} =>
        \A j \in Visited(thread_index[t], hops[t]) :
            /\ global_GWindow <= get_array[j].node \/ Emptied(j)
            /\ notempty[t] = 0 => Emptied(j)

\* get_window returns with a head inside the window or with an empty sub-queue.
ReturnSettles(t) ==
    pc[t] \in {"get_return", "deq_reread", "deq_test"} =>
        get_array[thread_index[t]].node < global_GWindow \/ Emptied(thread_index[t])

SequentialInv ==
    HeadsNear /\ \A t \in Threads : HoldsCurrent(t) /\ RoundSettles(t) /\ ReturnSettles(t)

\* A shift of the get window: the round has seen an item beyond the window, so
\* that every sub-queue has been filled up to the window, and those left behind
\* as empty have been emptied up to there.
LEMMA ShiftKeepsNear ==
    ASSUME TypeOK, QueueInv, SequentialInv, NEW t \in Threads, GetShift(t)
    PROVE  HeadsNear'
<1>1. /\ pc[t] = "get_shift" /\ thread_index[t] \in Index /\ hops[t] \in 0 .. Width
      /\ get_array' = get_array
      /\ global_GWindow' = IF global_GWindow = thread_GWindow[t]
                           THEN thread_GWindow[t] + Depth ELSE global_GWindow
  BY DEF GetShift, Goto, TypeOK, arrays
<1>2. /\ thread_GWindow[t] = global_GWindow
      /\ \A j \in Visited(thread_index[t], hops[t]) :
            global_GWindow <= get_array[j].node \/ Emptied(j)
  BY <1>1 DEF SequentialInv, HoldsCurrent, RoundSettles
<1>3. /\ hops[t] = Width
      /\ \E j \in Index : global_GWindow < put_array[j].put_count
  BY <1>1, <1>2 DEF QueueInv, GetInv, GetThreadInv, GetRound
<1>4. Visited(thread_index[t], Width) = Index
  BY <1>1, <1>3, VisitedRound
<1>5. global_GWindow + Depth <= global_PWindow
  <2>1. global_GWindow < global_PWindow
    BY <1>3, PutNumbers, GetNumbers DEF QueueInv, PutInv, PutWithinWindow
  <2>2. /\ \E k \in 0 .. global_GWindow : global_GWindow = k * Depth
        /\ \E k \in 0 .. global_PWindow : global_PWindow = k * Depth
    BY DEF QueueInv, GetInv, WindowsAligned
  <2> QED
    BY <2>1, <2>2, PutNumbers, GetNumbers, AlignedGap
<1>6. ASSUME NEW j \in Index PROVE global_GWindow <= get_array[j].node
  <2>1. global_GWindow <= put_array[j].node
    BY <1>5, PutNumbers, GetNumbers, DepthAssumption
       DEF QueueInv, PutInv, PutWithinWindow, PutWhole
  <2> QED
    BY <1>2, <1>3, <1>4, <2>1 DEF Emptied
<1> QED
  BY <1>1, <1>2, <1>6, GetNumbers, DepthAssumption DEF HeadsNear

\* The heads stay near in every step.
LEMMA NearKept ==
    ASSUME TypeOK, TypeOK', QueueInv, SequentialInv, NEW t \in Threads, ThreadStep(t)
    PROVE  HeadsNear'
<1>1. CASE GetShift(t)
  BY <1>1, ShiftKeepsNear
<1>2. CASE ~GetShift(t)
  <2>1. global_GWindow' = global_GWindow
    BY <1>2, WindowWrites
  <2>2. \A j \in Index : /\ get_array[j].node \in Nat /\ get_array'[j].node \in Nat
                         /\ get_array[j].node <= get_array'[j].node
    BY GetNumbers, GetNumbersNext, SharedGrows DEF SharedGetGrows
  <2>3. global_GWindow \in Nat
    BY GetNumbers
  <2> QED
    BY <2>1, <2>2, <2>3, DepthAssumption DEF HeadsNear, SequentialInv
<1> QED
  BY <1>1, <1>2

\* get_window finds things as they are.
LEMMA SequentialGetWindow ==
    ASSUME TypeOK, TypeOK', QueueInv, SequentialInv, NEW t \in Threads, GetWindow(t),
           UNCHANGED queueVars
    PROVE  HoldsCurrent(t)' /\ RoundSettles(t)' /\ ReturnSettles(t)'
<1> DEFINE i == thread_index[t]
<1>a. /\ HoldsCurrent(t) /\ RoundSettles(t) /\ GetThreadInv(t)
      /\ i \in Index /\ thread_index'[t] \in Index /\ hops[t] \in 0 .. Width
      /\ UNCHANGED <<put_array, get_array>>
  BY DEF SequentialInv, QueueInv, GetInv, TypeOK, arrays, GetWindow, GetEnter, GetRead,
         GetReread, GetReadPutCount, GetSync, GetReturn, GetHop, GetExhausted, GetEmpty,
         GetShift, GetResync, GetLeave
<1>b. Visited(thread_index'[t], 0) = {}
  BY <1>a, VisitedRound, WidthAssumption
<1>c. /\ put_array[i].node \in Nat /\ put_array[i].put_count = put_array[i].node
      /\ get_array[i].node \in Nat /\ get_array[i].get_count = get_array[i].node
      /\ global_GWindow \in Nat
  BY <1>a, PutNumbers, GetNumbers DEF QueueInv, PutInv, PutWhole, GetInv, GetWhole
<1>d. get_array[i] \in GetDescriptor
  BY <1>a DEF TypeOK
<1> USE DEF HoldsCurrent, RoundSettles, ReturnSettles, HoldsGet, GetScanning, Emptied
<1>1. CASE GetEnter(t) \/ GetSync(t) \/ GetResync(t)
  <2>1. /\ pc'[t] = "get_read" /\ hops'[t] = 0
        /\ thread_GWindow'[t] = global_GWindow /\ global_GWindow' = global_GWindow
    BY <1>1 DEF GetEnter, GetSync, GetResync, ResetSearch, Goto, TypeOK, windows
  <2> QED
    BY <1>b, <2>1
<1>2. CASE GetRead(t)
  <2>1. /\ pc[t] = "get_read" /\ pc'[t] = "get_reread"
        /\ get_descriptor'[t] = get_array[i]
        /\ UNCHANGED <<thread_index, hops, notempty, thread_GWindow, global_GWindow>>
    BY <1>2 DEF GetRead, Goto, TypeOK, search, windows
  <2> QED
    BY <1>a, <2>1
<1>3. CASE GetReread(t)
  <2>1. PICK order \in GetReadOrders :
           get_descriptor' = [get_descriptor EXCEPT ![t] =
                                SecondLoad(order, get_descriptor[t], get_array[i])]
    BY <1>3 DEF GetReread
  <2>2. /\ pc[t] = "get_reread" /\ pc'[t] = "get_count"
        /\ get_descriptor'[t] = SecondLoad(order, get_descriptor[t], get_array[i])
        /\ UNCHANGED <<thread_index, hops, notempty, thread_GWindow, global_GWindow>>
    BY <1>3, <2>1 DEF GetReread, Goto, TypeOK, search, windows
  <2>3. get_descriptor[t] = get_array[i]
    BY <1>a, <2>2
  <2>4. SecondLoad(order, get_array[i], get_array[i]) = get_array[i]
    BY <1>d DEF SecondLoad, GetDescriptor
  <2> QED
    BY <1>a, <2>2, <2>3, <2>4
<1>4. CASE GetReadPutCount(t)
  <2>1. /\ pc[t] = "get_count" /\ pc'[t] = "get_check"
        /\ put_count'[t] = put_array[i].node
        /\ UNCHANGED <<thread_index, hops, notempty, thread_GWindow, global_GWindow,
                       get_descriptor>>
    BY <1>4, <1>c DEF GetReadPutCount, Goto, TypeOK, search, windows
  <2> QED
    BY <1>a, <2>1
<1>5. CASE GetReturn(t)
  <2>1. /\ pc[t] = "get_check" /\ pc'[t] = "get_return"
        /\ UNCHANGED <<thread_index, get_descriptor, global_GWindow>>
        /\ get_descriptor[t].get_count < global_GWindow
    BY <1>5 DEF GetReturn, GetValid, GetLeave, Goto, TypeOK, windows
  <2>2. get_array[i].node < global_GWindow
    BY <1>a, <1>c, <2>1
  <2> QED
    BY <1>a, <2>1, <2>2
<1>6. CASE GetHop(t)
  <2>1. /\ pc[t] = "get_check" /\ pc'[t] = "get_read" /\ hops[t] # Width
        /\ notempty'[t] = IF put_count[t] # get_descriptor[t].get_count
                          THEN 1 ELSE notempty[t]
        /\ get_descriptor[t].get_count < global_GWindow =>
              put_count[t] = get_descriptor[t].get_count
        /\ UNCHANGED <<thread_GWindow, global_GWindow>>
    BY <1>6 DEF GetHop, GetInvalid, SeenNonEmpty, Goto, TypeOK, windows
  <2>2. get_descriptor[t].get_count = get_array[i].node /\ put_count[t] = put_array[i].node
    BY <1>a, <1>c, <2>1
  <2>3. /\ global_GWindow <= get_array[i].node \/ Emptied(i)
        /\ notempty'[t] = 0 => Emptied(i) /\ notempty[t] = 0
    BY <1>c, <2>1, <2>2
  <2>4. CASE RandomHop(t)
    <3>1. random[t] < RandomHops /\ hops'[t] = hops[t]
      BY <2>4 DEF RandomHop
    <3>2. hops[t] = 0
      <4>1. hops[t] > 0 => random[t] >= RandomHops
        BY <1>a, <2>1 DEF GetThreadInv, GetRound
      <4>2. random[t] \in Nat /\ hops[t] \in Nat
        BY RandomHopsAssumption, WidthAssumption DEF TypeOK
      <4> QED
        BY <3>1, <4>1, <4>2, RandomHopsAssumption
    <3> QED
      BY <1>a, <1>b, <2>1, <3>1, <3>2
  <2>5. CASE LinearHop(t)
    <3>1. hops'[t] = hops[t] + 1 /\ thread_index'[t] = NextIndex(i)
      BY <2>5 DEF LinearHop, TypeOK
    <3>2. Visited(thread_index'[t], hops'[t]) \subseteq Visited(i, hops[t]) \cup {i}
      BY <1>a, <2>1, <3>1, VisitedRound, WidthAssumption
    <3>3. ASSUME NEW j \in Visited(thread_index'[t], hops'[t])
          PROVE  /\ global_GWindow <= get_array[j].node \/ Emptied(j)
                 /\ notempty'[t] = 0 => Emptied(j)
      BY <1>a, <2>1, <2>3, <3>2, <3>3
    <3> QED
      BY <1>a, <2>1, <3>3
  <2> QED
    BY <1>6, <2>4, <2>5 DEF GetHop, Hop
<1>7. CASE GetEmpty(t)
  <2>1. /\ pc[t] = "get_check" /\ pc'[t] = "get_return"
        /\ hops[t] = Width /\ notempty[t] = 0
        /\ UNCHANGED <<thread_index, get_descriptor, global_GWindow>>
    BY <1>7 DEF GetEmpty, GetLeave, Goto, TypeOK, windows
  <2>2. Visited(i, Width) = Index
    BY <1>a, VisitedRound, WidthAssumption
  <2>3. Emptied(i)
    BY <1>a, <2>1, <2>2
  <2> QED
    BY <1>a, <2>1, <2>3
<1>8. CASE GetExhausted(t)
  <2>1. /\ pc[t] = "get_check" /\ pc'[t] = "get_shift"
        /\ UNCHANGED <<thread_index, hops, notempty, thread_GWindow, global_GWindow>>
    BY <1>8 DEF GetExhausted, Goto, TypeOK, search, windows
  <2> QED
    BY <1>a, <2>1
<1>9. CASE GetShift(t)
  <2>1. pc'[t] = "get_resync"
    BY <1>9 DEF GetShift, Goto, TypeOK
  <2> QED
    BY <2>1
<1> QED
  BY <1>1, <1>2, <1>3, <1>4, <1>5, <1>6, <1>7, <1>8, <1>9 DEF GetWindow

\* dequeue reads the tail that is there.
LEMMA SequentialDequeue ==
    ASSUME TypeOK, SequentialInv, NEW t \in Threads, Dequeue(t)
    PROVE  HoldsCurrent(t)' /\ RoundSettles(t)' /\ ReturnSettles(t)'
<1>a. /\ HoldsCurrent(t) /\ ReturnSettles(t) /\ thread_index[t] \in Index
      /\ put_array[thread_index[t]] \in PutDescriptor
  BY DEF SequentialInv, TypeOK
<1> USE DEF HoldsCurrent, RoundSettles, ReturnSettles, HoldsGet, GetScanning, Emptied
<1>1. CASE DeqReadTail(t)
  <2>1. /\ pc[t] = "get_return" /\ pc'[t] = "deq_reread"
        /\ enq_descriptor'[t] = put_array[thread_index[t]]
        /\ UNCHANGED <<put_array, get_array, get_descriptor, thread_index, global_GWindow>>
    BY <1>1 DEF DeqReadTail, Goto, TypeOK, windowVars, arrays, windows
  <2> QED
    BY <1>a, <2>1
<1>2. CASE DeqRereadTail(t)
  <2>1. PICK order \in GetReadOrders :
           enq_descriptor' = [enq_descriptor EXCEPT ![t] =
              SecondLoad(order, enq_descriptor[t], put_array[thread_index[t]])]
    BY <1>2 DEF DeqRereadTail
  <2>2. /\ pc[t] = "deq_reread" /\ pc'[t] = "deq_test"
        /\ enq_descriptor'[t] =
              SecondLoad(order, enq_descriptor[t], put_array[thread_index[t]])
        /\ UNCHANGED <<put_array, get_array, get_descriptor, thread_index, global_GWindow>>
    BY <1>2, <2>1 DEF DeqRereadTail, Goto, TypeOK, windowVars, arrays, windows
  <2>3. enq_descriptor[t] = put_array[thread_index[t]]
    BY <1>a, <2>2
  <2>4. SecondLoad(order, put_array[thread_index[t]], put_array[thread_index[t]])
           = put_array[thread_index[t]]
    BY <1>a DEF SecondLoad, PutDescriptor
  <2> QED
    BY <1>a, <2>2, <2>3, <2>4
<1>3. CASE DequeueCall(t) \/ DeqReturnsEmpty(t) \/ DeqHelp(t) \/ DeqTake(t) \/ DeqTakeFails(t)
  <2>1. pc'[t] \in {"idle", "get_window"}
    BY <1>3 DEF DequeueCall, DeqReturnsEmpty, DeqHelp, DeqTake, DeqTakeFails, Goto, TypeOK
  <2> QED
    BY <2>1
<1> QED
  BY <1>1, <1>2, <1>3 DEF Dequeue

\* put_window and enqueue have nothing to answer for.
LEMMA SequentialPutSide ==
    ASSUME TypeOK, NEW t \in Threads, PutWindow(t) \/ Enqueue(t)
    PROVE  HoldsCurrent(t)' /\ RoundSettles(t)' /\ ReturnSettles(t)'
<1>1. pc'[t] \in PutWindowPCs \cup {"put_return", "enq_recheck", "enq_cas", "enq_tail", "idle"}
  <2> USE DEF Goto, TypeOK, PutWindowPCs, PutScanning
  <2>1. CASE PutWindow(t)
    BY <2>1 DEF PutWindow, PutEnter, PutRead, PutReread, PutSync, PutReturn, PutHop,
                PutExhausted, PutShift, PutResync
  <2>2. CASE Enqueue(t)
    BY <2>2 DEF Enqueue, EnqueueCall, EnqReadNext, EnqHelp, EnqRecheckFails,
                EnqRecheckPasses, EnqLink, EnqLinkFails, EnqSwingTail
  <2> QED
    BY <2>1, <2>2
<1> QED
  BY <1>1 DEF HoldsCurrent, RoundSettles, ReturnSettles, HoldsGet, GetScanning,
              PutWindowPCs, PutScanning

LEMMA SequentialReachable == OneThread => (Spec => []SequentialInv)
<1> SUFFICES ASSUME OneThread PROVE Spec => []SequentialInv
  OBVIOUS
<1>1. Init => SequentialInv
  <2> SUFFICES ASSUME Init PROVE SequentialInv
    OBVIOUS
  <2>1. HeadsNear
    BY DepthAssumption DEF Init, InitWindow, NoGet, HeadsNear
  <2>2. \A t \in Threads : pc[t] = "idle"
    BY DEF Init
  <2> QED
    BY <2>1, <2>2 DEF SequentialInv, HoldsCurrent, RoundSettles, ReturnSettles, HoldsGet,
                      GetScanning
<1>2. TypeOK /\ TypeOK' /\ QueueInv /\ SequentialInv /\ [Next]_vars => SequentialInv'
  <2> SUFFICES ASSUME TypeOK, TypeOK', QueueInv, SequentialInv, [Next]_vars
               PROVE  SequentialInv'
    OBVIOUS
  <2>1. ASSUME NEW t \in Threads, ThreadStep(t) PROVE SequentialInv'
    <3>1. HeadsNear'
      BY <2>1, NearKept
    <3>2. HoldsCurrent(t)' /\ RoundSettles(t)' /\ ReturnSettles(t)'
      BY <2>1, SequentialGetWindow, SequentialDequeue, SequentialPutSide
         DEF ThreadStep, WindowStep
    <3>3. \A u \in Threads : u = t
      BY DEF OneThread
    <3> QED
      BY <3>1, <3>2, <3>3 DEF SequentialInv
  <2>2. CASE UNCHANGED vars
    BY <2>2 DEF SequentialInv, HeadsNear, HoldsCurrent, RoundSettles, ReturnSettles,
                Emptied, vars, windowVars, queueVars, arrays, windows, search
  <2> QED
    BY <2>1, <2>2 DEF Next, Finished
<1> QED
  BY <1>1, <1>2, Reachable, PTL DEF Spec

\* The promise of create_queue: when operations do not overlap, a dequeue skips
\* at most relaxation_bound = depth * (width - 1) older items, for every width
\* and depth, any number of operations in any order, and both read orders.
THEOREM SequentialKOutOfOrder == OneThread => (Spec => KOutOfOrder)
<1> SUFFICES ASSUME OneThread PROVE Spec => KOutOfOrder
  OBVIOUS
<1>1. ASSUME TypeOK, QueueInv, ItemsInv, OrderInv, SequentialInv, NEW t \in Threads,
             DeqTake(t)
      PROVE  Skipped(TakenBy(t)) <= RelaxationBound
  <2> DEFINE i == thread_index[t]
  <2>1. /\ i \in Index
        /\ get_descriptor[t] = get_array[i]
        /\ get_array[i].get_count = get_array[i].node
        /\ get_array[i].node < Len(items[i])
        /\ TakenBy(t) = items[i][get_array[i].node + 1]
    BY <1>1, TakenIsHead
  <2>2. pc[t] = "deq_test" /\ get_descriptor[t].node # enq_descriptor[t].node
    BY <1>1 DEF DeqTake, Goto, HeadIsTail
  <2>3. /\ enq_descriptor[t] = put_array[i]
        /\ get_array[i].node < global_GWindow \/ Emptied(i)
    BY <1>1, <2>2 DEF SequentialInv, HoldsCurrent, ReturnSettles
  <2>4. get_array[i].node < global_GWindow
    BY <2>1, <2>2, <2>3 DEF Emptied
  <2>5. \A j \in Index : global_GWindow <= get_array[j].node + Depth
    BY <1>1 DEF SequentialInv, HeadsNear
  <2>6. Depth \in Nat
    BY DepthAssumption
  <2>7. Skipped(items[i][get_array[i].node + 1]) <= Depth * (Width - 1)
    BY <1>1, <2>1, <2>4, <2>5, <2>6, OlderItems
  <2> QED
    BY <2>1, <2>7 DEF RelaxationBound
<1>2. TypeOK /\ QueueInv /\ ItemsInv /\ OrderInv /\ SequentialInv =>
        \A t \in Threads : DeqTake(t) => Skipped(TakenBy(t)) <= RelaxationBound
  BY <1>1
<1> QED
  BY <1>2, Reachable, ItemsReachable, OrderReachable, SequentialReachable, PTL
     DEF KOutOfOrder
=============================================================================
