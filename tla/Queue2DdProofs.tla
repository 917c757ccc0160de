--------------------------- MODULE Queue2DdProofs ---------------------------
(***************************************************************************)
(* Proofs about the 2D queue for every number of threads, sub-queues and   *)
(* operations, every depth and every order of reading a descriptor.        *)
(***************************************************************************)
EXTENDS Queue2Dd, TLAPS

-----------------------------------------------------------------------------
(***************************************************************************)
(* Torn reads.                                                             *)
(***************************************************************************)
\* The second load of a put descriptor yields, word by word, what one of the
\* two loads saw.
LEMMA SecondLoadPut ==
    ASSUME NEW old \in PutDescriptor, NEW new \in PutDescriptor, NEW order
    PROVE  /\ SecondLoad(order, old, new) \in PutDescriptor
           /\ SecondLoad(order, old, new).node \in {old.node, new.node}
           /\ SecondLoad(order, old, new).put_count \in {old.put_count, new.put_count}
BY Zenon DEF SecondLoad, PutDescriptor

\* The same for a get descriptor.
LEMMA SecondLoadGet ==
    ASSUME NEW old \in GetDescriptor, NEW new \in GetDescriptor, NEW order
    PROVE  /\ SecondLoad(order, old, new) \in GetDescriptor
           /\ SecondLoad(order, old, new).node \in {old.node, new.node}
           /\ SecondLoad(order, old, new).get_count \in {old.get_count, new.get_count}
BY Zenon DEF SecondLoad, GetDescriptor

-----------------------------------------------------------------------------
(***************************************************************************)
(* Type correctness.  The stamps that a dequeue notes as published are     *)
(* numbers because the tail never points past the list (PutWhole).         *)
(***************************************************************************)
\* The state that create_queue builds is well typed.
LEMMA InitTypeOK == Init => TypeOK
BY WidthAssumption, DepthAssumption, RandomHopsAssumption
   DEF Init, InitWindow, TypeOK, NoPut, NoGet, PutDescriptor, GetDescriptor,
       Index, PCs

\* A hop stays inside the array and inside one round.
LEMMA HopType ==
    ASSUME TypeOK, NEW t \in Threads, Hop(t), hops[t] # Width
    PROVE  /\ hops' \in [Threads -> 0 .. Width]
           /\ random' \in [Threads -> 0 .. RandomHops]
           /\ thread_index' \in [Threads -> Index]
<1> USE WidthAssumption, RandomHopsAssumption DEF TypeOK
<1>1. CASE RandomHop(t)
  <2>1. random[t] + 1 \in 0 .. RandomHops
    BY <1>1 DEF RandomHop
  <2> QED
    BY <1>1, <2>1 DEF RandomHop
<1>2. CASE LinearHop(t)
  <2>1. NextIndex(thread_index[t]) \in Index
    BY DEF NextIndex, Index
  <2>2. hops[t] + 1 \in 0 .. Width
    OBVIOUS
  <2> QED
    BY <1>2, <2>1, <2>2 DEF LinearHop
<1> QED
  BY <1>1, <1>2 DEF Hop

\* What lies between a head and a tail pointer is a set of stamps.
LEMMA PublishedType ==
    ASSUME TypeOK, PutWhole
    PROVE  UNION {PublishedIn(i) : i \in Index} \in SUBSET Nat
<1>1. ASSUME NEW i \in Index, NEW p \in get_array[i].node + 1 .. put_array[i].node
      PROVE  items[i][p] \in Nat
  <2>1. items[i] \in Seq(Nat) /\ get_array[i].node \in Nat /\ put_array[i].node \in Nat
    BY DEF TypeOK, PutDescriptor, GetDescriptor
  <2>2. p \in 1 .. Len(items[i])
    BY <2>1 DEF PutWhole
  <2> QED
    BY <2>1, <2>2
<1>2. ASSUME NEW i \in Index PROVE PublishedIn(i) \subseteq Nat
  BY <1>1 DEF PublishedIn
<1> QED
  BY <1>2

\* put_window keeps the state well typed.
LEMMA PutWindowTypeOK ==
    ASSUME TypeOK, NEW t \in Threads, PutWindow(t), UNCHANGED queueVars
    PROVE  TypeOK'
<1> USE DEF TypeOK, arrays, windows, search, queueVars, analysis
<1>1. CASE PutEnter(t)
  <2>1. /\ pc' \in [Threads -> PCs]
         /\ thread_PWindow' \in [Threads -> Nat]
         /\ thread_index' \in [Threads -> Index]
         /\ hops' \in [Threads -> 0 .. Width]
         /\ random' \in [Threads -> 0 .. RandomHops]
         /\ notempty' \in [Threads -> {0, 1}]
    BY <1>1, WidthAssumption, RandomHopsAssumption DEF PutEnter, MaybeRandomIndex, ResetSearch, Goto, PCs, PutWindowPCs, PutScanning
  <2> QED
    BY <1>1, <2>1 DEF PutEnter
<1>2. CASE PutRead(t)
  <2>1. /\ pc' \in [Threads -> PCs]
         /\ put_descriptor' \in [Threads -> PutDescriptor]
    BY <1>2 DEF PutRead, Goto, PCs, PutWindowPCs, PutScanning
  <2> QED
    BY <1>2, <2>1 DEF PutRead
<1>3. CASE PutReread(t)
  <2>1. PICK order \in PutReadOrders :
          put_descriptor' = [put_descriptor EXCEPT ![t] =
             SecondLoad(order, put_descriptor[t], put_array[thread_index[t]])]
    BY <1>3 DEF PutReread
  <2>2. SecondLoad(order, put_descriptor[t], put_array[thread_index[t]]) \in PutDescriptor
    BY SecondLoadPut
  <2>3. /\ pc' \in [Threads -> PCs]
         /\ put_descriptor' \in [Threads -> PutDescriptor]
    BY <1>3, <2>1, <2>2 DEF PutReread, Goto, PCs, PutWindowPCs, PutScanning
  <2> QED
    BY <1>3, <2>3 DEF PutReread
<1>4. CASE PutSync(t)
  <2>1. /\ pc' \in [Threads -> PCs]
         /\ thread_PWindow' \in [Threads -> Nat]
         /\ hops' \in [Threads -> 0 .. Width]
    BY <1>4, WidthAssumption DEF PutSync, Goto, PCs, PutWindowPCs, PutScanning
  <2> QED
    BY <1>4, <2>1 DEF PutSync
<1>5. CASE PutReturn(t)
  <2>1. /\ pc' \in [Threads -> PCs]
         /\ hops' \in [Threads -> 0 .. Width]
         /\ random' \in [Threads -> 0 .. RandomHops]
         /\ notempty' \in [Threads -> {0, 1}]
    BY <1>5, WidthAssumption, RandomHopsAssumption DEF PutReturn, ResetSearch, Goto, PCs, PutWindowPCs, PutScanning
  <2> QED
    BY <1>5, <2>1 DEF PutReturn
<1>6. CASE PutHop(t)
  <2>1. /\ hops' \in [Threads -> 0 .. Width]
         /\ random' \in [Threads -> 0 .. RandomHops]
         /\ thread_index' \in [Threads -> Index]
    BY <1>6, HopType DEF PutHop
  <2>2. /\ pc' \in [Threads -> PCs]
    BY <1>6 DEF PutHop, Goto, PCs, PutWindowPCs, PutScanning
  <2> QED
    BY <1>6, <2>1, <2>2 DEF PutHop
<1>7. CASE PutExhausted(t)
  <2>1. /\ pc' \in [Threads -> PCs]
    BY <1>7 DEF PutExhausted, Goto, PCs, PutWindowPCs, PutScanning
  <2> QED
    BY <1>7, <2>1 DEF PutExhausted
<1>8. CASE PutShift(t)
  <2>1. /\ pc' \in [Threads -> PCs]
         /\ global_PWindow' \in Nat
    BY <1>8, DepthAssumption DEF PutShift, Goto, PCs, PutWindowPCs, PutScanning
  <2> QED
    BY <1>8, <2>1 DEF PutShift
<1>9. CASE PutResync(t)
  <2>1. /\ pc' \in [Threads -> PCs]
         /\ thread_PWindow' \in [Threads -> Nat]
         /\ hops' \in [Threads -> 0 .. Width]
    BY <1>9, WidthAssumption DEF PutResync, Goto, PCs, PutWindowPCs, PutScanning
  <2> QED
    BY <1>9, <2>1 DEF PutResync
<1> QED
  BY <1>1, <1>2, <1>3, <1>4, <1>5, <1>6, <1>7, <1>8, <1>9 DEF PutWindow

\* get_window keeps the state well typed.
LEMMA GetWindowTypeOK ==
    ASSUME TypeOK, NEW t \in Threads, GetWindow(t), UNCHANGED queueVars
    PROVE  TypeOK'
<1> USE DEF TypeOK, arrays, windows, search, queueVars, analysis
<1>1. CASE GetEnter(t)
  <2>1. /\ pc' \in [Threads -> PCs]
         /\ thread_GWindow' \in [Threads -> Nat]
         /\ thread_index' \in [Threads -> Index]
         /\ hops' \in [Threads -> 0 .. Width]
         /\ random' \in [Threads -> 0 .. RandomHops]
         /\ notempty' \in [Threads -> {0, 1}]
    BY <1>1, WidthAssumption, RandomHopsAssumption DEF GetEnter, MaybeRandomIndex, ResetSearch, Goto, PCs, GetWindowPCs, GetScanning
  <2> QED
    BY <1>1, <2>1 DEF GetEnter
<1>2. CASE GetRead(t)
  <2>1. /\ pc' \in [Threads -> PCs]
         /\ get_descriptor' \in [Threads -> GetDescriptor]
    BY <1>2 DEF GetRead, Goto, PCs, GetWindowPCs, GetScanning
  <2> QED
    BY <1>2, <2>1 DEF GetRead
<1>3. CASE GetReread(t)
  <2>1. PICK order \in GetReadOrders :
          get_descriptor' = [get_descriptor EXCEPT ![t] =
             SecondLoad(order, get_descriptor[t], get_array[thread_index[t]])]
    BY <1>3 DEF GetReread
  <2>2. SecondLoad(order, get_descriptor[t], get_array[thread_index[t]]) \in GetDescriptor
    BY SecondLoadGet
  <2>3. /\ pc' \in [Threads -> PCs]
         /\ get_descriptor' \in [Threads -> GetDescriptor]
    BY <1>3, <2>1, <2>2 DEF GetReread, Goto, PCs, GetWindowPCs, GetScanning
  <2> QED
    BY <1>3, <2>3 DEF GetReread
<1>4. CASE GetReadPutCount(t)
  <2>1. /\ pc' \in [Threads -> PCs]
         /\ put_count' \in [Threads -> Nat]
    BY <1>4 DEF GetReadPutCount, PutDescriptor, Goto, PCs, GetWindowPCs, GetScanning
  <2> QED
    BY <1>4, <2>1 DEF GetReadPutCount
<1>5. CASE GetSync(t)
  <2>1. /\ pc' \in [Threads -> PCs]
         /\ thread_GWindow' \in [Threads -> Nat]
         /\ hops' \in [Threads -> 0 .. Width]
         /\ notempty' \in [Threads -> {0, 1}]
    BY <1>5, WidthAssumption DEF GetSync, Goto, PCs, GetWindowPCs, GetScanning
  <2> QED
    BY <1>5, <2>1 DEF GetSync
<1>6. CASE GetReturn(t)
  <2>1. /\ pc' \in [Threads -> PCs]
         /\ put_count' \in [Threads -> Nat]
         /\ hops' \in [Threads -> 0 .. Width]
         /\ random' \in [Threads -> 0 .. RandomHops]
         /\ notempty' \in [Threads -> {0, 1}]
    BY <1>6, WidthAssumption, RandomHopsAssumption DEF GetReturn, GetLeave, ResetSearch, Goto, PCs, GetWindowPCs, GetScanning
  <2> QED
    BY <1>6, <2>1 DEF GetReturn, GetLeave
<1>7. CASE GetEmpty(t)
  <2>1. /\ pc' \in [Threads -> PCs]
         /\ put_count' \in [Threads -> Nat]
         /\ hops' \in [Threads -> 0 .. Width]
         /\ random' \in [Threads -> 0 .. RandomHops]
         /\ notempty' \in [Threads -> {0, 1}]
    BY <1>7, WidthAssumption, RandomHopsAssumption DEF GetEmpty, GetLeave, ResetSearch, Goto, PCs, GetWindowPCs, GetScanning
  <2> QED
    BY <1>7, <2>1 DEF GetEmpty, GetLeave
<1>8. CASE GetHop(t)
  <2>1. /\ hops' \in [Threads -> 0 .. Width]
         /\ random' \in [Threads -> 0 .. RandomHops]
         /\ thread_index' \in [Threads -> Index]
    BY <1>8, HopType DEF GetHop
  <2>2. /\ pc' \in [Threads -> PCs]
         /\ notempty' \in [Threads -> {0, 1}]
    BY <1>8 DEF GetHop, Goto, PCs, GetWindowPCs, GetScanning
  <2> QED
    BY <1>8, <2>1, <2>2 DEF GetHop
<1>9. CASE GetExhausted(t)
  <2>1. /\ pc' \in [Threads -> PCs]
    BY <1>9 DEF GetExhausted, Goto, PCs, GetWindowPCs, GetScanning
  <2> QED
    BY <1>9, <2>1 DEF GetExhausted
<1>10. CASE GetShift(t)
  <2>1. /\ pc' \in [Threads -> PCs]
         /\ global_GWindow' \in Nat
    BY <1>10, DepthAssumption DEF GetShift, Goto, PCs, GetWindowPCs, GetScanning
  <2> QED
    BY <1>10, <2>1 DEF GetShift
<1>11. CASE GetResync(t)
  <2>1. /\ pc' \in [Threads -> PCs]
         /\ thread_GWindow' \in [Threads -> Nat]
         /\ hops' \in [Threads -> 0 .. Width]
         /\ notempty' \in [Threads -> {0, 1}]
    BY <1>11, WidthAssumption DEF GetResync, Goto, PCs, GetWindowPCs, GetScanning
  <2> QED
    BY <1>11, <2>1 DEF GetResync
<1> QED
  BY <1>1, <1>2, <1>3, <1>4, <1>5, <1>6, <1>7, <1>8, <1>9, <1>10, <1>11
     DEF GetWindow

\* Moving a tail by compare-exchange keeps the put descriptors well typed.
LEMMA AdvanceTailType ==
    ASSUME TypeOK, NEW t \in Threads, NEW read \in PutDescriptor,
           AdvanceTail(t, read)
    PROVE  put_array' \in [Index -> PutDescriptor]
<1>1. [node |-> Successor(read.node), put_count |-> read.put_count + 1] \in PutDescriptor
  BY DEF PutDescriptor, Successor
<1> QED
  BY <1>1 DEF TypeOK, AdvanceTail

\* enqueue keeps the state well typed.
LEMMA EnqueueTypeOK ==
    ASSUME TypeOK, NEW t \in Threads, Enqueue(t)
    PROVE  TypeOK'
<1> USE DEF TypeOK, arrays, windows, search, windowVars, queueVars, analysis
<1>1. CASE EnqueueCall(t)
  <2>1. /\ pc' \in [Threads -> PCs]
         /\ ops' \in [Threads -> Nat]
         /\ contention' \in [Threads -> {0, 1}]
    BY <1>1 DEF EnqueueCall, Goto, PCs, PutWindowPCs
  <2> QED
    BY <1>1, <2>1 DEF EnqueueCall
<1>2. CASE EnqReadNext(t)
  <2>1. /\ pc' \in [Threads -> PCs]
    BY <1>2 DEF EnqReadNext, Goto, PCs, PutWindowPCs
  <2> QED
    BY <1>2, <2>1 DEF EnqReadNext
<1>3. CASE EnqHelp(t)
  <2>1. /\ pc' \in [Threads -> PCs]
         /\ contention' \in [Threads -> {0, 1}]
         /\ put_array' \in [Index -> PutDescriptor]
    BY <1>3, AdvanceTailType DEF EnqHelp, ContentionUnless, Goto, PCs, PutWindowPCs
  <2> QED
    BY <1>3, <2>1 DEF EnqHelp
<1>4. CASE EnqRecheckFails(t)
  <2>1. /\ pc' \in [Threads -> PCs]
    BY <1>4 DEF EnqRecheckFails, Goto, PCs, PutWindowPCs
  <2> QED
    BY <1>4, <2>1 DEF EnqRecheckFails
<1>5. CASE EnqRecheckPasses(t)
  <2>1. /\ pc' \in [Threads -> PCs]
    BY <1>5 DEF EnqRecheckPasses, Goto, PCs, PutWindowPCs
  <2> QED
    BY <1>5, <2>1 DEF EnqRecheckPasses
<1>6. CASE EnqLink(t)
  <2>1. /\ pc' \in [Threads -> PCs]
         /\ items' \in [Index -> Seq(Nat)]
         /\ linear_clone' \in SUBSET Nat
         /\ stamp' \in Nat
    BY <1>6 DEF EnqLink, AddLinear, NextStamp, Goto, PCs, PutWindowPCs
  <2> QED
    BY <1>6, <2>1 DEF EnqLink
<1>7. CASE EnqLinkFails(t)
  <2>1. /\ pc' \in [Threads -> PCs]
         /\ contention' \in [Threads -> {0, 1}]
    BY <1>7 DEF EnqLinkFails, Goto, PCs, PutWindowPCs
  <2> QED
    BY <1>7, <2>1 DEF EnqLinkFails
<1>8. CASE EnqSwingTail(t)
  <2>1. /\ pc' \in [Threads -> PCs]
         /\ contention' \in [Threads -> {0, 1}]
         /\ put_descriptor' \in [Threads -> PutDescriptor]
         /\ put_array' \in [Index -> PutDescriptor]
    BY <1>8, AdvanceTailType DEF EnqSwingTail, NoPut, PutDescriptor, Goto, PCs, PutWindowPCs
  <2> QED
    BY <1>8, <2>1 DEF EnqSwingTail
<1> QED
  BY <1>1, <1>2, <1>3, <1>4, <1>5, <1>6, <1>7, <1>8 DEF Enqueue

\* dequeue keeps the state well typed.
LEMMA DequeueTypeOK ==
    ASSUME TypeOK, PutWhole, NEW t \in Threads, Dequeue(t)
    PROVE  TypeOK'
<1> USE DEF TypeOK, arrays, windows, search, windowVars, queueVars, analysis
<1>1. CASE DequeueCall(t)
  <2>1. UNION {PublishedIn(i) : i \in Index} \in SUBSET Nat
    BY PublishedType
  <2>2. /\ pc' \in [Threads -> PCs]
         /\ ops' \in [Threads -> Nat]
         /\ contention' \in [Threads -> {0, 1}]
         /\ published' \in [Threads -> SUBSET Nat]
    BY <1>1, <2>1 DEF DequeueCall, Goto, PCs, GetWindowPCs
  <2> QED
    BY <1>1, <2>2 DEF DequeueCall
<1>2. CASE DeqReadTail(t)
  <2>1. /\ pc' \in [Threads -> PCs]
         /\ enq_descriptor' \in [Threads -> PutDescriptor]
    BY <1>2 DEF DeqReadTail, Goto, PCs, GetWindowPCs
  <2> QED
    BY <1>2, <2>1 DEF DeqReadTail
<1>3. CASE DeqRereadTail(t)
  <2>1. PICK order \in GetReadOrders :
          enq_descriptor' = [enq_descriptor EXCEPT ![t] =
             SecondLoad(order, enq_descriptor[t], put_array[thread_index[t]])]
    BY <1>3 DEF DeqRereadTail
  <2>2. SecondLoad(order, enq_descriptor[t], put_array[thread_index[t]]) \in PutDescriptor
    BY SecondLoadPut
  <2>3. /\ pc' \in [Threads -> PCs]
         /\ enq_descriptor' \in [Threads -> PutDescriptor]
    BY <1>3, <2>1, <2>2 DEF DeqRereadTail, Goto, PCs, GetWindowPCs
  <2> QED
    BY <1>3, <2>3 DEF DeqRereadTail
<1>4. CASE DeqReturnsEmpty(t)
  <2>1. /\ pc' \in [Threads -> PCs]
         /\ contention' \in [Threads -> {0, 1}]
         /\ get_descriptor' \in [Threads -> GetDescriptor]
         /\ enq_descriptor' \in [Threads -> PutDescriptor]
         /\ published' \in [Threads -> SUBSET Nat]
    BY <1>4 DEF DeqReturnsEmpty, DeqLeave, NoGet, NoPut, GetDescriptor, PutDescriptor, Goto, PCs, GetWindowPCs
  <2> QED
    BY <1>4, <2>1 DEF DeqReturnsEmpty, DeqLeave
<1>5. CASE DeqHelp(t)
  <2>1. /\ pc' \in [Threads -> PCs]
         /\ contention' \in [Threads -> {0, 1}]
         /\ put_array' \in [Index -> PutDescriptor]
    BY <1>5, AdvanceTailType DEF DeqHelp, ContentionUnless, Goto, PCs, GetWindowPCs
  <2> QED
    BY <1>5, <2>1 DEF DeqHelp
<1>6. CASE DeqTake(t)
  <2>1. [node |-> Successor(get_descriptor[t].node),
         get_count |-> get_descriptor[t].get_count + 1] \in GetDescriptor
    BY DEF GetDescriptor, Successor
  <2>2. get_array' \in [Index -> GetDescriptor]
    BY <1>6, <2>1 DEF DeqTake
  <2>3. /\ pc' \in [Threads -> PCs]
         /\ contention' \in [Threads -> {0, 1}]
         /\ get_descriptor' \in [Threads -> GetDescriptor]
         /\ enq_descriptor' \in [Threads -> PutDescriptor]
         /\ published' \in [Threads -> SUBSET Nat]
         /\ linear_clone' \in SUBSET Nat
    BY <1>6 DEF DeqTake, RemoveLinear, DeqLeave, NoGet, NoPut, GetDescriptor,
                PutDescriptor, Goto, PCs
  <2> QED
    BY <1>6, <2>2, <2>3 DEF DeqTake, DeqLeave
<1>7. CASE DeqTakeFails(t)
  <2>1. /\ pc' \in [Threads -> PCs]
         /\ contention' \in [Threads -> {0, 1}]
    BY <1>7 DEF DeqTakeFails, Goto, PCs, GetWindowPCs
  <2> QED
    BY <1>7, <2>1 DEF DeqTakeFails
<1> QED
  BY <1>1, <1>2, <1>3, <1>4, <1>5, <1>6, <1>7 DEF Dequeue

-----------------------------------------------------------------------------
(***************************************************************************)
(* The put side.  A step of thread t leaves what the others have read      *)
(* alone and only lets the shared counts grow, so what is known of another *)
(* thread stays true; each action then answers for its own thread.         *)
(***************************************************************************)
OthersSame(t) ==
    \A u \in Threads \ {t} :
        /\ pc'[u] = pc[u]
        /\ put_descriptor'[u] = put_descriptor[u]
        /\ thread_index'[u] = thread_index[u]
        /\ thread_PWindow'[u] = thread_PWindow[u]
        /\ hops'[u] = hops[u]
        /\ random'[u] = random[u]

SharedPutGrows ==
    /\ \A i \in Index : /\ put_array[i].node <= put_array'[i].node
                         /\ put_array[i].put_count <= put_array'[i].put_count
                         /\ Len(items[i]) <= Len(items'[i])
    /\ global_PWindow <= global_PWindow'

\* Counts and lengths are natural numbers.
LEMMA PutNumbers ==
    ASSUME TypeOK
    PROVE  /\ global_PWindow \in Nat
           /\ \A i \in Index : /\ put_array[i].node \in Nat
                               /\ put_array[i].put_count \in Nat
                               /\ Len(items[i]) \in Nat
           /\ \A t \in Threads : /\ thread_index[t] \in Index
                                 /\ thread_PWindow[t] \in Nat
                                 /\ put_descriptor[t].node \in Nat
                                 /\ put_descriptor[t].put_count \in Nat
<1>1. \A i \in Index : put_array[i] \in PutDescriptor /\ items[i] \in Seq(Nat)
  BY DEF TypeOK
<1>2. \A t \in Threads : put_descriptor[t] \in PutDescriptor
  BY DEF TypeOK
<1> QED
  BY <1>1, <1>2 DEF TypeOK, PutDescriptor

\* The same of the next state.
LEMMA PutNumbersNext ==
    ASSUME TypeOK'
    PROVE  /\ global_PWindow' \in Nat
           /\ \A i \in Index : /\ put_array'[i].node \in Nat
                               /\ put_array'[i].put_count \in Nat
                               /\ Len(items'[i]) \in Nat
<1>1. \A i \in Index : put_array'[i] \in PutDescriptor /\ items'[i] \in Seq(Nat)
  BY DEF TypeOK
<1> QED
  BY <1>1 DEF TypeOK, PutDescriptor

\* What is known of a thread survives the steps of the others.
LEMMA OthersKeep ==
    ASSUME TypeOK, TypeOK', PutInv, NEW t \in Threads, OthersSame(t),
           SharedPutGrows, NEW u \in Threads \ {t}
    PROVE  PutThreadInv(u)'
<1>1. /\ pc'[u] = pc[u]
      /\ put_descriptor'[u] = put_descriptor[u]
      /\ thread_index'[u] = thread_index[u]
      /\ thread_PWindow'[u] = thread_PWindow[u]
      /\ hops'[u] = hops[u]
      /\ random'[u] = random[u]
  BY DEF OthersSame
<1>2. PutThreadInv(u)
  BY DEF PutInv
<1>3. PutDescriptorOld(u)'
  <2> DEFINE i == thread_index[u]
             d == put_descriptor[u]
  <2>1. /\ i \in Index /\ d.node \in Nat /\ d.put_count \in Nat
        /\ put_array[i].node \in Nat /\ put_array[i].put_count \in Nat
        /\ put_array'[i].node \in Nat /\ put_array'[i].put_count \in Nat
    BY PutNumbers, PutNumbersNext
  <2>2. /\ put_array[i].node <= put_array'[i].node
        /\ put_array[i].put_count <= put_array'[i].put_count
    BY <2>1 DEF SharedPutGrows
  <2>3. PutDescriptorOld(u)
    BY <1>2 DEF PutThreadInv
  <2> QED
    BY <1>1, <2>1, <2>2, <2>3 DEF PutDescriptorOld
<1>4. PutWindowOld(u)'
  BY <1>1, PutNumbers, PutNumbersNext, <1>2 DEF PutThreadInv, PutWindowOld, SharedPutGrows
<1>5. EnqProgress(u)'
  BY <1>1, PutNumbers, PutNumbersNext, <1>2 DEF PutThreadInv, EnqProgress, SharedPutGrows
<1>6. PutRound(u)'
  <2>1. Visited(thread_index'[u], hops'[u]) = Visited(thread_index[u], hops[u])
    BY <1>1
  <2>2. Visited(thread_index[u], hops[u]) \subseteq Index
    BY DEF Visited
  <2> QED
    BY <1>1, PutNumbers, PutNumbersNext, <1>2, <2>1, <2>2 DEF PutThreadInv, PutRound, SharedPutGrows
<1> QED
  BY <1>3, <1>4, <1>5, <1>6 DEF PutThreadInv

\* A step that lets the shared put side grow inside its bounds answers for its
\* own thread only.
LEMMA GrowingStep ==
    ASSUME TypeOK, TypeOK', PutInv, NEW t \in Threads, OthersSame(t),
           SharedPutGrows, PutWhole', PutWithinWindow', PutThreadInv(t)'
    PROVE  PutInv'
<1>1. ASSUME NEW u \in Threads PROVE PutThreadInv(u)'
  <2>1. CASE u = t
    BY <2>1
  <2>2. CASE u # t
    BY <2>2, OthersKeep
  <2> QED
    BY <2>1, <2>2
<1> QED
  BY <1>1 DEF PutInv

\* A step that leaves the shared put side alone.
LEMMA LocalStep ==
    ASSUME TypeOK, TypeOK', PutInv, NEW t \in Threads, OthersSame(t),
           UNCHANGED <<put_array, items, global_PWindow>>, PutThreadInv(t)'
    PROVE  PutInv'
<1>1. SharedPutGrows
  BY PutNumbers DEF SharedPutGrows
<1>2. PutWhole' /\ PutWithinWindow'
  BY DEF PutInv, PutWhole, PutWithinWindow
<1> QED
  BY <1>1, <1>2, GrowingStep

\* A thread outside put_window and past its descriptor owes nothing more.
LEMMA QuietThread ==
    ASSUME TypeOK, PutInv, NEW t \in Threads,
           thread_PWindow'[t] = thread_PWindow[t], global_PWindow' = global_PWindow,
           pc'[t] \notin HoldsPut \cup PutScanning \cup {"put_shift"}
    PROVE  PutThreadInv(t)'
BY DEF PutInv, PutThreadInv, PutDescriptorOld, PutWindowOld, EnqProgress,
       PutRound, HoldsPut

\* A compare-exchange that moves a tail only where the list goes on keeps the
\* shared put side within its bounds.
LEMMA AdvanceTailKeeps ==
    ASSUME TypeOK, PutInv, NEW t \in Threads, NEW read \in PutDescriptor,
           AdvanceTail(t, read), UNCHANGED <<items, global_PWindow>>,
           put_array[thread_index[t]] = read => read.node < Len(items[thread_index[t]])
    PROVE  PutWhole' /\ PutWithinWindow' /\ SharedPutGrows
<1> DEFINE i == thread_index[t]
<1>1. CASE put_array[i] # read
  <2>1. UNCHANGED put_array
    BY <1>1 DEF AdvanceTail
  <2> QED
    BY <2>1, PutNumbers DEF PutInv, PutWhole, PutWithinWindow, SharedPutGrows
<1>2. CASE put_array[i] = read
  <2>1. i \in Index
    BY PutNumbers
  <2>2. /\ put_array'[i].node = put_array[i].node + 1
        /\ put_array'[i].put_count = put_array[i].put_count + 1
        /\ \A j \in Index \ {i} : put_array'[j] = put_array[j]
    BY <1>2, <2>1 DEF AdvanceTail, Successor, TypeOK
  <2>3. put_array[i].node < Len(items[i])
    BY <1>2
  <2>4. SharedPutGrows
    BY <2>2, PutNumbers DEF SharedPutGrows
  <2>5. PutWhole'
    <3> SUFFICES ASSUME NEW j \in Index
                 PROVE  /\ put_array'[j].put_count = put_array'[j].node
                        /\ put_array'[j].node <= Len(items[j])
                        /\ Len(items[j]) <= put_array'[j].node + 1
      BY DEF PutWhole
    <3>1. /\ put_array[j].put_count = put_array[j].node
          /\ put_array[j].node <= Len(items[j])
          /\ Len(items[j]) <= put_array[j].node + 1
      BY DEF PutInv, PutWhole
    <3>2. put_array[j].node \in Nat /\ Len(items[j]) \in Nat
      BY PutNumbers
    <3>3. CASE j = i
      BY <2>2, <2>3, <3>1, <3>2, <3>3
    <3>4. CASE j # i
      BY <2>2, <3>1, <3>4
    <3> QED
      BY <3>3, <3>4
  <2>6. PutWithinWindow'
    <3>1. ASSUME NEW j \in Index
          PROVE  /\ put_array'[j].put_count <= Len(items[j])
                 /\ put_array[j].put_count <= put_array'[j].put_count
      BY <2>2, <2>3, PutNumbers DEF PutInv, PutWhole
    <3>2. \A j \in Index : put_array'[j].put_count \in Nat
      BY <2>1, <2>2, PutNumbers
    <3> QED
      BY <3>1, <3>2, PutNumbers, DepthAssumption DEF PutInv, PutWithinWindow
  <2> QED
    BY <2>4, <2>5, <2>6
<1> QED
  BY <1>1, <1>2

\* The invariant holds of the empty queue.
LEMMA InitPutInv == Init => PutInv
<1> SUFFICES ASSUME Init PROVE PutInv
  OBVIOUS
<1>1. PutWhole
  BY DEF PutWhole, Init, NoPut
<1>2. PutWithinWindow
  BY DepthAssumption DEF PutWithinWindow, Init, InitWindow, NoPut
<1>3. ASSUME NEW t \in Threads PROVE PutThreadInv(t)
  <2>1. pc[t] = "idle" /\ thread_PWindow[t] = 0 /\ global_PWindow = Depth
    BY DEF Init, InitWindow
  <2> QED
    BY <2>1, DepthAssumption
       DEF PutThreadInv, PutDescriptorOld, PutWindowOld, EnqProgress, PutRound,
           HoldsPut, PutScanning
<1> QED
  BY <1>1, <1>2, <1>3 DEF PutInv

\* A round that has just begun has left nothing behind, one linear hop leaves
\* the index it comes from behind, and a full round leaves every index behind.
LEMMA VisitedRound ==
    ASSUME NEW i \in Index, NEW h \in 0 .. Width
    PROVE  /\ Visited(i, 0) = {}
           /\ h < Width => Visited(NextIndex(i), h + 1) \subseteq Visited(i, h) \cup {i}
           /\ Visited(i, Width) = Index
<1> USE WidthAssumption DEF Visited, Index
<1>1. Visited(i, 0) = {}
  OBVIOUS
<1>2. ASSUME h < Width, NEW j \in Visited(NextIndex(i), h + 1)
      PROVE  j \in Visited(i, h) \cup {i}
  BY <1>2 DEF NextIndex
<1>3. Visited(i, Width) = Index
  OBVIOUS
<1> QED
  BY <1>1, <1>2, <1>3

\* put_window keeps the put side.
LEMMA PutWindowPutInv ==
    ASSUME TypeOK, TypeOK', PutInv, NEW t \in Threads, PutWindow(t),
           UNCHANGED queueVars
    PROVE  PutInv'
<1> USE PutNumbers
<1>a. UNCHANGED items
  BY DEF queueVars
<1>b. PutThreadInv(t)
  BY DEF PutInv
<1>1. CASE PutEnter(t)
  <2>1. OthersSame(t) /\ UNCHANGED <<put_array, global_PWindow>>
    BY <1>1 DEF PutEnter, MaybeRandomIndex, ResetSearch, Goto, OthersSame, TypeOK,
                arrays, windows
  <2>2. /\ pc'[t] = "put_read" /\ hops'[t] = 0
        /\ thread_PWindow'[t] = global_PWindow
    BY <1>1 DEF PutEnter, ResetSearch, Goto, TypeOK
  <2>3. thread_index'[t] \in Index
    BY DEF TypeOK
  <2>4. PutThreadInv(t)'
    BY <2>1, <2>2, <2>3, VisitedRound, WidthAssumption DEF PutThreadInv, PutDescriptorOld, PutWindowOld, EnqProgress, PutRound, HoldsPut, PutScanning
  <2> QED
    BY <1>a, <2>1, <2>4, LocalStep
<1>2. CASE PutRead(t)
  <2>1. OthersSame(t) /\ UNCHANGED <<put_array, global_PWindow>>
    BY <1>2 DEF PutRead, Goto, OthersSame, TypeOK, arrays, windows, search
  <2>2. /\ pc[t] = "put_read" /\ pc'[t] = "put_reread"
        /\ put_descriptor'[t] = put_array[thread_index[t]]
        /\ UNCHANGED <<thread_index, thread_PWindow, hops, random>>
    BY <1>2 DEF PutRead, Goto, TypeOK, search
  <2>3. PutThreadInv(t)'
    BY <1>b, <2>1, <2>2 DEF PutThreadInv, PutDescriptorOld, PutWindowOld, EnqProgress, PutRound, HoldsPut, PutScanning
  <2> QED
    BY <1>a, <2>1, <2>3, LocalStep
<1>3. CASE PutReread(t)
  <2>1. OthersSame(t) /\ UNCHANGED <<put_array, global_PWindow>>
    BY <1>3 DEF PutReread, Goto, OthersSame, TypeOK, arrays, windows, search
  <2>2. /\ pc[t] = "put_reread" /\ pc'[t] = "put_check"
        /\ UNCHANGED <<thread_index, thread_PWindow, hops, random>>
    BY <1>3 DEF PutReread, Goto, TypeOK, search
  <2>3. PICK order \in PutReadOrders :
          put_descriptor'[t] = SecondLoad(order, put_descriptor[t], put_array[thread_index[t]])
    BY <1>3 DEF PutReread, TypeOK
  <2>4. /\ put_descriptor'[t].node <= put_array[thread_index[t]].node
        /\ put_descriptor'[t].put_count <= put_array[thread_index[t]].put_count
    <3>1. put_descriptor[t] \in PutDescriptor /\ put_array[thread_index[t]] \in PutDescriptor
      BY DEF TypeOK
    <3>2. /\ put_descriptor'[t].node
               \in {put_descriptor[t].node, put_array[thread_index[t]].node}
          /\ put_descriptor'[t].put_count
               \in {put_descriptor[t].put_count, put_array[thread_index[t]].put_count}
      BY <2>3, <3>1, SecondLoadPut
    <3> QED
      BY <1>b, <2>2, <3>2 DEF PutThreadInv, PutDescriptorOld, HoldsPut
  <2>5. PutThreadInv(t)'
    BY <1>b, <2>1, <2>2, <2>4 DEF PutThreadInv, PutDescriptorOld, PutWindowOld, EnqProgress, PutRound, HoldsPut, PutScanning
  <2> QED
    BY <1>a, <2>1, <2>5, LocalStep
<1>4. CASE PutSync(t) \/ PutResync(t)
  <2>1. OthersSame(t) /\ UNCHANGED <<put_array, global_PWindow>>
    BY <1>4 DEF PutSync, PutResync, Goto, OthersSame, TypeOK, arrays, windows
  <2>2. /\ pc'[t] = "put_read" /\ hops'[t] = 0
        /\ thread_PWindow'[t] = global_PWindow
        /\ UNCHANGED thread_index
    BY <1>4 DEF PutSync, PutResync, Goto, TypeOK
  <2>3. PutThreadInv(t)'
    BY <2>1, <2>2, VisitedRound, WidthAssumption DEF PutThreadInv, PutDescriptorOld, PutWindowOld, EnqProgress, PutRound, HoldsPut, PutScanning
  <2> QED
    BY <1>a, <2>1, <2>3, LocalStep
<1>5. CASE PutReturn(t)
  <2>1. OthersSame(t) /\ UNCHANGED <<put_array, global_PWindow>>
    BY <1>5 DEF PutReturn, ResetSearch, Goto, OthersSame, TypeOK, arrays, windows
  <2>2. /\ pc[t] = "put_check" /\ pc'[t] = "put_return"
        /\ UNCHANGED <<thread_index, thread_PWindow, put_descriptor>>
    BY <1>5 DEF PutReturn, Goto, TypeOK
  <2>3. PutThreadInv(t)'
    BY <1>b, <2>1, <2>2 DEF PutThreadInv, PutDescriptorOld, PutWindowOld, EnqProgress, PutRound, HoldsPut, PutScanning
  <2> QED
    BY <1>a, <2>1, <2>3, LocalStep
<1>6. CASE PutHop(t)
  <2>1. OthersSame(t) /\ UNCHANGED <<put_array, global_PWindow>>
    BY <1>6 DEF PutHop, Hop, RandomHop, LinearHop, Goto, OthersSame, TypeOK,
                arrays, windows
  <2>2. /\ pc[t] = "put_check" /\ pc'[t] = "put_read"
        /\ hops[t] \in 0 .. Width /\ hops[t] # Width
        /\ UNCHANGED thread_PWindow
    BY <1>6 DEF PutHop, Goto, TypeOK
  <2>3. thread_PWindow[t] <= put_array[thread_index[t]].put_count
    BY <1>6, <1>b, <2>2 DEF PutHop, PutFull, PutThreadInv, PutDescriptorOld, HoldsPut
  <2>4. PutThreadInv(t)'
    <3>1. CASE RandomHop(t)
      <4>1. /\ random[t] < RandomHops /\ UNCHANGED hops
        BY <3>1 DEF RandomHop
      <4>2. thread_index'[t] \in Index
        BY DEF TypeOK
      <4>3. hops[t] = 0
        <5>1. PutRound(t) /\ hops[t] \in Nat /\ random[t] \in Nat
          BY <1>b DEF PutThreadInv, TypeOK
        <5> QED
          BY <2>2, <4>1, <5>1, RandomHopsAssumption DEF PutRound, PutScanning
      <4> QED
        BY <1>b, <2>1, <2>2, <4>1, <4>2, <4>3, VisitedRound, WidthAssumption
           DEF PutThreadInv, PutDescriptorOld, PutWindowOld, EnqProgress, PutRound,
             HoldsPut, PutScanning
    <3>2. CASE LinearHop(t)
      <4>1. /\ random'[t] >= RandomHops
            /\ hops'[t] = hops[t] + 1
            /\ thread_index'[t] = NextIndex(thread_index[t])
        BY <3>2 DEF LinearHop, TypeOK
      <4>2. Visited(thread_index'[t], hops'[t])
               \subseteq Visited(thread_index[t], hops[t]) \cup {thread_index[t]}
        BY <2>2, <4>1, VisitedRound, WidthAssumption
      <4> QED
        BY <1>b, <2>1, <2>2, <2>3, <4>1, <4>2
           DEF PutThreadInv, PutDescriptorOld, PutWindowOld, EnqProgress, PutRound,
             HoldsPut, PutScanning
    <3> QED
      BY <1>6, <3>1, <3>2 DEF PutHop, Hop
  <2> QED
    BY <1>a, <2>1, <2>4, LocalStep
<1>7. CASE PutExhausted(t)
  <2>1. OthersSame(t) /\ UNCHANGED <<put_array, global_PWindow>>
    BY <1>7 DEF PutExhausted, Goto, OthersSame, TypeOK, arrays, windows, search
  <2>2. /\ pc[t] = "put_check" /\ pc'[t] = "put_shift" /\ hops[t] = Width
        /\ UNCHANGED <<thread_index, thread_PWindow, hops, random>>
    BY <1>7 DEF PutExhausted, Goto, TypeOK, search
  <2>3. PutThreadInv(t)'
    BY <1>b, <2>1, <2>2 DEF PutThreadInv, PutDescriptorOld, PutWindowOld, EnqProgress, PutRound, HoldsPut, PutScanning
  <2> QED
    BY <1>a, <2>1, <2>3, LocalStep
<1>8. CASE PutShift(t)
  <2>1. OthersSame(t) /\ UNCHANGED put_array
    BY <1>8 DEF PutShift, Goto, OthersSame, TypeOK, arrays, search
  <2>2. /\ pc[t] = "put_shift" /\ pc'[t] = "put_resync"
        /\ UNCHANGED <<thread_index, thread_PWindow>>
        /\ \/ global_PWindow = thread_PWindow[t] /\ global_PWindow' = global_PWindow + Depth
           \/ global_PWindow' = global_PWindow
    BY <1>8 DEF PutShift, Goto, TypeOK
  <2>3. SharedPutGrows
    BY <1>a, <2>1, <2>2, DepthAssumption DEF SharedPutGrows
  <2>4. PutThreadInv(t)'
    BY <1>b, <2>2, DepthAssumption DEF PutThreadInv, PutDescriptorOld, PutWindowOld, EnqProgress, PutRound, HoldsPut, PutScanning
  <2>5. PutWithinWindow'
    <3>1. \A j \in Index : thread_PWindow[t] <= put_array[j].put_count
      <4>1. hops[t] = Width
        BY <1>b, <2>2 DEF PutThreadInv, PutRound
      <4>2. Visited(thread_index[t], Width) = Index
        BY VisitedRound, WidthAssumption
      <4> QED
        BY <1>b, <2>2, <4>1, <4>2 DEF PutThreadInv, PutRound
    <3> QED
      BY <1>a, <2>1, <2>2, <3>1, DepthAssumption DEF PutInv, PutWithinWindow
  <2>6. PutWhole'
    BY <1>a, <2>1 DEF PutInv, PutWhole
  <2> QED
    BY <2>1, <2>3, <2>4, <2>5, <2>6, GrowingStep
<1> QED
  BY <1>1, <1>2, <1>3, <1>4, <1>5, <1>6, <1>7, <1>8 DEF PutWindow

\* get_window leaves the put side alone.
LEMMA GetWindowPutInv ==
    ASSUME TypeOK, TypeOK', PutInv, NEW t \in Threads, GetWindow(t),
           UNCHANGED queueVars
    PROVE  PutInv'
<1>1. UNCHANGED <<put_array, items, global_PWindow, thread_PWindow, put_descriptor>>
  BY DEF GetWindow, GetEnter, GetRead, GetReread, GetReadPutCount, GetSync,
         GetReturn, GetLeave, GetHop, GetExhausted, GetEmpty, GetShift, GetResync,
         arrays, windows, queueVars
<1>2. \A u \in Threads \ {t} :
        /\ pc'[u] = pc[u] /\ thread_index'[u] = thread_index[u]
        /\ hops'[u] = hops[u] /\ random'[u] = random[u]
  <2> USE DEF TypeOK, Goto
  <2>1. CASE GetEnter(t)
    BY <2>1 DEF GetEnter, MaybeRandomIndex, ResetSearch
  <2>2. CASE GetRead(t) \/ GetReread(t) \/ GetReadPutCount(t) \/ GetExhausted(t)
             \/ GetShift(t)
    <3>1. UNCHANGED <<thread_index, hops, random>>
      BY <2>2 DEF GetRead, GetReread, GetReadPutCount, GetExhausted, GetShift, search
    <3>2. \E to : pc' = [pc EXCEPT ![t] = to]
      BY <2>2 DEF GetRead, GetReread, GetReadPutCount, GetExhausted, GetShift
    <3> QED
      BY <3>1, <3>2
  <2>3. CASE GetSync(t) \/ GetResync(t)
    BY <2>3 DEF GetSync, GetResync
  <2>4. CASE GetReturn(t) \/ GetEmpty(t)
    <3>1. GetLeave(t) /\ pc' = [pc EXCEPT ![t] = "get_return"]
      BY <2>4 DEF GetReturn, GetEmpty
    <3>2. /\ hops' = [hops EXCEPT ![t] = 0] /\ random' = [random EXCEPT ![t] = 0]
          /\ UNCHANGED thread_index
      BY <3>1 DEF GetLeave, ResetSearch
    <3> QED
      BY <3>1, <3>2
  <2>5. CASE GetHop(t)
    <3>1. (\E to : pc' = [pc EXCEPT ![t] = to]) /\ Hop(t)
      BY <2>5 DEF GetHop
    <3>2. CASE RandomHop(t)
      BY <3>1, <3>2 DEF RandomHop
    <3>3. CASE LinearHop(t)
      BY <3>1, <3>3 DEF LinearHop
    <3> QED
      BY <3>1, <3>2, <3>3 DEF Hop
  <2> QED
    BY <2>1, <2>2, <2>3, <2>4, <2>5 DEF GetWindow
<1>3. pc'[t] \in GetScanning \cup {"get_shift", "get_resync", "get_return"}
  BY DEF GetWindow, GetEnter, GetRead, GetReread, GetReadPutCount, GetSync,
         GetReturn, GetHop, GetExhausted, GetEmpty, GetShift, GetResync,
         Goto, TypeOK, GetScanning
<1>4. pc'[t] \notin HoldsPut \cup PutScanning \cup {"put_shift"}
  BY <1>3 DEF GetScanning, HoldsPut, PutScanning
<1>5. PutThreadInv(t)'
  BY <1>1, <1>4, QuietThread
<1> QED
  BY <1>1, <1>2, <1>5, LocalStep DEF OthersSame

\* enqueue keeps the put side: it links only below the window, and it moves the
\* tail only to a node that is linked.
LEMMA EnqueuePutInv ==
    ASSUME TypeOK, TypeOK', PutInv, NEW t \in Threads, Enqueue(t)
    PROVE  PutInv'
<1> USE PutNumbers
<1>a. PutThreadInv(t)
  BY DEF PutInv
<1>b. OthersSame(t)
  <2> USE DEF OthersSame, Goto, TypeOK, search, windowVars
  <2>1. CASE EnqueueCall(t) \/ EnqHelp(t) \/ EnqLinkFails(t)
    BY <2>1 DEF EnqueueCall, EnqHelp, EnqLinkFails
  <2>2. CASE EnqReadNext(t) \/ EnqRecheckFails(t) \/ EnqRecheckPasses(t) \/ EnqLink(t)
    BY <2>2 DEF EnqReadNext, EnqRecheckFails, EnqRecheckPasses, EnqLink
  <2>3. CASE EnqSwingTail(t)
    BY <2>3 DEF EnqSwingTail
  <2> QED
    BY <2>1, <2>2, <2>3 DEF Enqueue
<1>1. CASE EnqueueCall(t) \/ EnqRecheckFails(t) \/ EnqLinkFails(t)
  <2>1. UNCHANGED <<put_array, items, global_PWindow, thread_PWindow>>
    BY <1>1 DEF EnqueueCall, EnqRecheckFails, EnqLinkFails, windowVars, queueVars,
                arrays, windows
  <2>2. pc'[t] = "put_window"
    BY <1>1 DEF EnqueueCall, EnqRecheckFails, EnqLinkFails, Goto, TypeOK
  <2>3. PutThreadInv(t)'
    BY <2>1, <2>2, QuietThread DEF HoldsPut, PutScanning
  <2> QED
    BY <1>b, <2>1, <2>3, LocalStep
<1>2. CASE EnqReadNext(t)
  <2>1. UNCHANGED <<put_array, items, global_PWindow, thread_PWindow,
                    thread_index, put_descriptor>>
    BY <1>2 DEF EnqReadNext, windowVars, queueVars, arrays, windows
  <2>2. pc[t] = "put_return" /\ pc'[t] = "enq_recheck"
    BY <1>2 DEF EnqReadNext, Goto, TypeOK
  <2>3. PutThreadInv(t)'
    BY <1>a, <2>1, <2>2
       DEF PutThreadInv, PutDescriptorOld, PutWindowOld, EnqProgress, PutRound,
           HoldsPut, PutScanning
  <2> QED
    BY <1>b, <2>1, <2>3, LocalStep
<1>3. CASE EnqHelp(t)
  <2>1. UNCHANGED <<items, global_PWindow, thread_PWindow>>
    BY <1>3 DEF EnqHelp, queueVars, windows
  <2>2. pc'[t] = "put_window"
    BY <1>3 DEF EnqHelp, Goto, TypeOK
  <2>3. put_array[thread_index[t]] = put_descriptor[t]
           => put_descriptor[t].node < Len(items[thread_index[t]])
    BY <1>3 DEF EnqHelp, NextIsNull, PutInv, PutWhole
  <2>4. put_descriptor[t] \in PutDescriptor /\ AdvanceTail(t, put_descriptor[t])
    BY <1>3 DEF EnqHelp, TypeOK
  <2>5. PutWhole' /\ PutWithinWindow' /\ SharedPutGrows
    BY <2>1, <2>3, <2>4, AdvanceTailKeeps
  <2>6. PutThreadInv(t)'
    BY <2>1, <2>2, QuietThread DEF HoldsPut, PutScanning
  <2> QED
    BY <1>b, <2>5, <2>6, GrowingStep
<1>4. CASE EnqRecheckPasses(t)
  <2>1. UNCHANGED <<put_array, items, global_PWindow, thread_PWindow,
                    thread_index, put_descriptor>>
    BY <1>4 DEF EnqRecheckPasses, windowVars, queueVars, arrays, windows
  <2>2. pc[t] = "enq_recheck" /\ pc'[t] = "enq_cas"
    BY <1>4 DEF EnqRecheckPasses, Goto, TypeOK
  <2>3. put_descriptor[t].node < thread_PWindow[t]
    <3>1. put_descriptor[t].node <= put_array[thread_index[t]].node
      BY <1>a, <2>2 DEF PutThreadInv, PutDescriptorOld, HoldsPut
    <3>2. put_array[thread_index[t]].put_count < thread_PWindow[t]
      BY <1>4 DEF EnqRecheckPasses, RecheckFull
    <3> QED
      BY <3>1, <3>2 DEF PutInv, PutWhole
  <2>4. PutThreadInv(t)'
    BY <1>a, <2>1, <2>2, <2>3
       DEF PutThreadInv, PutDescriptorOld, PutWindowOld, EnqProgress, PutRound,
           HoldsPut, PutScanning
  <2> QED
    BY <1>b, <2>1, <2>4, LocalStep
<1>5. CASE EnqLink(t)
  <2> DEFINE i == thread_index[t]
  <2>1. /\ UNCHANGED <<put_array, global_PWindow, thread_PWindow, thread_index,
                       put_descriptor>>
        /\ pc[t] = "enq_cas" /\ pc'[t] = "enq_tail"
        /\ put_descriptor[t].node = Len(items[i])
    BY <1>5 DEF EnqLink, windowVars, arrays, windows, Goto, TypeOK, NextIsNull
  <2>2. /\ Len(items'[i]) = Len(items[i]) + 1
        /\ \A j \in Index \ {i} : items'[j] = items[j]
    BY <1>5 DEF EnqLink, TypeOK
  <2>3. /\ put_array[i].node = Len(items[i])
        /\ Len(items[i]) < global_PWindow
    BY <1>a, <2>1 DEF PutThreadInv, PutDescriptorOld, PutWindowOld, EnqProgress,
                      HoldsPut, PutInv, PutWhole
  <2>4. PutWhole'
    BY <2>1, <2>2, <2>3 DEF PutInv, PutWhole
  <2>5. PutWithinWindow'
    BY <2>1, <2>2, <2>3 DEF PutInv, PutWithinWindow
  <2>6. SharedPutGrows
    BY <2>1, <2>2 DEF SharedPutGrows
  <2>7. PutThreadInv(t)'
    BY <1>a, <2>1, <2>2, <2>3
       DEF PutThreadInv, PutDescriptorOld, PutWindowOld, EnqProgress, PutRound,
           HoldsPut, PutScanning
  <2> QED
    BY <1>b, <2>4, <2>5, <2>6, <2>7, GrowingStep
<1>6. CASE EnqSwingTail(t)
  <2>1. UNCHANGED <<items, global_PWindow, thread_PWindow>>
    BY <1>6 DEF EnqSwingTail, queueVars, windows
  <2>2. pc[t] = "enq_tail" /\ pc'[t] = "idle"
    BY <1>6 DEF EnqSwingTail, Goto, TypeOK
  <2>3. put_descriptor[t].node < Len(items[thread_index[t]])
    BY <1>a, <2>2 DEF PutThreadInv, EnqProgress
  <2>4. put_descriptor[t] \in PutDescriptor /\ AdvanceTail(t, put_descriptor[t])
    BY <1>6 DEF EnqSwingTail, TypeOK
  <2>5. PutWhole' /\ PutWithinWindow' /\ SharedPutGrows
    BY <2>1, <2>3, <2>4, AdvanceTailKeeps
  <2>6. PutThreadInv(t)'
    BY <2>1, <2>2, QuietThread DEF HoldsPut, PutScanning
  <2> QED
    BY <1>b, <2>5, <2>6, GrowingStep
<1> QED
  BY <1>1, <1>2, <1>3, <1>4, <1>5, <1>6 DEF Enqueue

\* dequeue touches the put side only by helping a pending enqueue.
LEMMA DequeuePutInv ==
    ASSUME TypeOK, TypeOK', PutInv, NEW t \in Threads, Dequeue(t)
    PROVE  PutInv'
<1>a. OthersSame(t)
  <2> USE DEF OthersSame, Goto, TypeOK, search, windowVars
  <2>1. CASE DequeueCall(t) \/ DeqHelp(t) \/ DeqTakeFails(t)
    BY <2>1 DEF DequeueCall, DeqHelp, DeqTakeFails
  <2>2. CASE DeqReadTail(t) \/ DeqRereadTail(t)
    BY <2>2 DEF DeqReadTail, DeqRereadTail
  <2>3. CASE DeqReturnsEmpty(t) \/ DeqTake(t)
    <3>1. /\ pc' = [pc EXCEPT ![t] = "idle"]
          /\ UNCHANGED <<put_descriptor, thread_index, thread_PWindow, hops, random>>
      BY <2>3 DEF DeqReturnsEmpty, DeqTake, DeqLeave
    <3> QED
      BY <3>1
  <2> QED
    BY <2>1, <2>2, <2>3 DEF Dequeue
<1>b. UNCHANGED <<items, global_PWindow, thread_PWindow>>
  BY DEF Dequeue, DequeueCall, DeqReadTail, DeqRereadTail, DeqReturnsEmpty, DeqHelp,
         DeqTake, DeqTakeFails, DeqLeave, windowVars, queueVars, windows
<1>c. pc'[t] \in {"get_window", "deq_reread", "deq_test", "idle"}
  BY DEF Dequeue, DequeueCall, DeqReadTail, DeqRereadTail, DeqReturnsEmpty, DeqHelp,
         DeqTake, DeqTakeFails, Goto, TypeOK
<1>d. PutThreadInv(t)'
  BY <1>b, <1>c, QuietThread DEF HoldsPut, PutScanning
<1>1. CASE DeqHelp(t)
  <2>1. put_array[thread_index[t]] = enq_descriptor[t]
           => enq_descriptor[t].node < Len(items[thread_index[t]])
    BY <1>1, PutNumbers DEF DeqHelp, HeadIsTail, NextIsNull, PutInv, PutWhole
  <2>2. enq_descriptor[t] \in PutDescriptor /\ AdvanceTail(t, enq_descriptor[t])
    BY <1>1 DEF DeqHelp, TypeOK
  <2>3. PutWhole' /\ PutWithinWindow' /\ SharedPutGrows
    BY <1>b, <2>1, <2>2, AdvanceTailKeeps
  <2> QED
    BY <1>a, <1>d, <2>3, GrowingStep
<1>2. CASE ~DeqHelp(t)
  <2>1. UNCHANGED put_array
    BY <1>2 DEF Dequeue, DequeueCall, DeqReadTail, DeqRereadTail, DeqReturnsEmpty,
                DeqTake, DeqTakeFails, DeqLeave, windowVars, arrays
  <2> QED
    BY <1>a, <1>b, <1>d, <2>1, LocalStep
<1> QED
  BY <1>1, <1>2

\* Together with TypeOK the put side is inductive.
LEMMA PutInvStep == TypeOK /\ PutInv /\ [Next]_vars => TypeOK' /\ PutInv'
<1> SUFFICES ASSUME TypeOK, PutInv, [Next]_vars
             PROVE  TypeOK' /\ PutInv'
  OBVIOUS
<1>1. ASSUME NEW t \in Threads, WindowStep(t) PROVE TypeOK' /\ PutInv'
  <2>1. CASE PutWindow(t)
    BY <1>1, <2>1, PutWindowTypeOK, PutWindowPutInv DEF WindowStep
  <2>2. CASE GetWindow(t)
    BY <1>1, <2>2, GetWindowTypeOK, GetWindowPutInv DEF WindowStep
  <2> QED
    BY <1>1, <2>1, <2>2 DEF WindowStep
<1>2. ASSUME NEW t \in Threads, Enqueue(t) PROVE TypeOK' /\ PutInv'
  BY <1>2, EnqueueTypeOK, EnqueuePutInv
<1>3. ASSUME NEW t \in Threads, Dequeue(t) PROVE TypeOK' /\ PutInv'
  BY <1>3, DequeueTypeOK, DequeuePutInv DEF PutInv
<1>4. CASE UNCHANGED vars
  <2>1. TypeOK'
    BY <1>4 DEF TypeOK, vars, windowVars, queueVars, arrays, windows, search, analysis
  <2>2. PutInv'
    BY <1>4 DEF PutInv, PutWhole, PutWithinWindow, PutThreadInv, PutDescriptorOld,
                PutWindowOld, EnqProgress, PutRound, vars, windowVars, queueVars,
                arrays, windows, search
  <2> QED
    BY <2>1, <2>2
<1> QED
  BY <1>1, <1>2, <1>3, <1>4 DEF Next, ThreadStep, Finished

-----------------------------------------------------------------------------
\* The variables of the queue and of its windows keep their types, and a search
\* never leaves the array nor counts more than one round of hops.
THEOREM TypeCorrect == Spec => []TypeOK
<1>1. Init => TypeOK /\ PutInv
  BY InitTypeOK, InitPutInv
<1>2. TypeOK /\ PutInv /\ [Next]_vars => (TypeOK /\ PutInv)'
  BY PutInvStep
<1> QED
  BY <1>1, <1>2, PTL DEF Spec

\* The put window bounds the enqueues: no sub-queue outgrows it and none is more
\* than Depth behind it, however many threads enqueue, hop, shift the window and
\* read torn descriptors.
THEOREM PutWindowHolds == Spec => []PutWithinWindow
<1>1. Init => TypeOK /\ PutInv
  BY InitTypeOK, InitPutInv
<1>2. TypeOK /\ PutInv /\ [Next]_vars => (TypeOK /\ PutInv)'
  BY PutInvStep
<1>3. PutInv => PutWithinWindow
  BY DEF PutInv
<1> QED
  BY <1>1, <1>2, <1>3, PTL DEF Spec
=============================================================================
