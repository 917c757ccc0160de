--------------------------- MODULE Stack2DcProofs ---------------------------
(***************************************************************************)
(* Proofs about the coupled 2D stack for every number of threads,          *)
(* sub-stacks and operations, every depth and every order of reading a     *)
(* descriptor: types and the window first, then the lists.  The sub-stacks *)
(* share no node and hold what was pushed and not popped, an empty round   *)
(* proves that the stack was empty, and the window bounds every sub-stack  *)
(* from above.                                                             *)
(***************************************************************************)
EXTENDS Stack2Dc, FiniteSetTheorems, WellFoundedInduction, TLAPS

-----------------------------------------------------------------------------
(***************************************************************************)
(* What makes the type invariant inductive: pop subtracts one from a count *)
(* and follows a next pointer, so a count has to be the length of the list *)
(* below its node.  The lengths are given by a function instead of a       *)
(* recursive definition.                                                   *)
(***************************************************************************)
Heights(h) ==
    /\ h \in [0 .. Len(next) -> Nat]
    /\ h[NULL] = 0
    /\ \A n \in 1 .. Len(next) : next[n] \in 0 .. n - 1 /\ h[n] = h[next[n]] + 1
    /\ \A i \in Index : /\ set_array[i].node \in 0 .. Len(next)
                        /\ set_array[i].count = h[set_array[i].node]

Counted == \E h : Heights(h)

(***************************************************************************)
(* What keeps the window above its height: its maximum is the height and a *)
(* number of whole shifts, and a thread that has seen an item below the    *)
(* window it holds has a window above the lowest one.                      *)
(***************************************************************************)
Aligned(m) == \E k \in Nat : m = Depth + k * Shift

Searching(t) == pc[t] \in PutScanning \cup GetScanning \cup {"put_shift", "get_shift"}

ThreadInv(t) ==
    /\ Searching(t) => Aligned(thread_Window[t].max)
    /\ pc[t] \in GetScanning /\ empty[t] = 0 => thread_Window[t].max > Depth
    /\ pc[t] = "get_shift" => thread_Window[t].max > Depth

WindowInv ==
    /\ Aligned(global_Window.max)
    /\ \A t \in Threads : ThreadInv(t)

-----------------------------------------------------------------------------
\* The shift is positive and not larger than the window.
LEMMA ShiftType == Shift \in Nat /\ Shift > 0 /\ Shift <= Depth
BY DepthAssumption DEF Shift

\* Shifting keeps a window aligned, and an aligned window above the lowest one
\* has room for a shift below it.
LEMMA AlignedShifts ==
    ASSUME NEW m \in Nat, Aligned(m)
    PROVE  /\ Aligned(m + Shift)
           /\ m > Depth => m - Shift >= Depth
           /\ m - Shift >= Depth => Aligned(m - Shift)
<1> USE ShiftType, DepthAssumption
<1>1. PICK k \in Nat : m = Depth + k * Shift
  BY DEF Aligned
<1> DEFINE s == Shift
<1>2. s \in Nat /\ s > 0 /\ m = Depth + k * s
  BY <1>1
<1> HIDE DEF s
<1>3. m + s = Depth + (k + 1) * s
  BY <1>2
<1>4. k > 0 => k * s >= s /\ m - s = Depth + (k - 1) * s
  BY <1>2
<1>5. k = 0 => m = Depth
  BY <1>2
<1>6. m > Depth => k > 0
  BY <1>5
<1>7. m - s >= Depth => k > 0
  BY <1>2, <1>5
<1>8. Aligned(m + s)
  BY <1>3 DEF Aligned, s
<1>9. m > Depth => m - s >= Depth
  BY <1>2, <1>4, <1>6
<1>10. m - s >= Depth => Aligned(m - s)
  <2> SUFFICES ASSUME m - s >= Depth PROVE Aligned(m - s)
    OBVIOUS
  <2>1. k - 1 \in Nat
    BY <1>7
  <2> QED
    BY <2>1, <1>4, <1>7 DEF Aligned, s
<1> QED
  BY <1>8, <1>9, <1>10 DEF s

\* The second load of a descriptor yields a descriptor.
LEMMA SecondLoadType ==
    ASSUME NEW old \in Descriptor, NEW new \in Descriptor, NEW order
    PROVE  SecondLoad(order, old, new) \in Descriptor
BY Zenon DEF SecondLoad, Descriptor

\* A hop stays inside the array and inside one round.
LEMMA HopType ==
    ASSUME TypeOK, NEW t \in Threads, Hop(t), hops[t] # Width
    PROVE  /\ hops' \in [Threads -> 0 .. Width]
           /\ random' \in [Threads -> 0 .. RandomHops]
           /\ thread_index' \in [Threads -> Index]
<1> USE WidthAssumption, RandomHopsAssumption DEF TypeOK
<1>1. CASE RandomHop(t)
  BY <1>1 DEF RandomHop
<1>2. CASE LinearHop(t)
  <2>1. NextIndex(thread_index[t]) \in Index
    BY DEF NextIndex, Index
  <2>2. hops[t] + 1 \in 0 .. Width
    OBVIOUS
  <2> QED
    BY <1>2, <2>1, <2>2 DEF LinearHop
<1> QED
  BY <1>1, <1>2 DEF Hop

\* A window shifted by n is a window if its maximum does not go below zero.
LEMMA ShiftedType ==
    ASSUME NEW w \in Window, NEW n \in Int, w.max + n >= 0
    PROVE  /\ ShiftedBy(w, n) \in Window
           /\ ShiftedBy(w, n).max = w.max + n
BY VersionAssumption DEF ShiftedBy, Window

\* The compare-exchange of the window leaves windows, global and local.
LEMMA TryShiftType ==
    ASSUME TypeOK, NEW t \in Threads, NEW n \in Int,
           thread_Window[t].max + n >= 0, TryShift(t, n)
    PROVE  /\ global_Window' \in Window
           /\ thread_Window' \in [Threads -> Window]
<1>1. ShiftedBy(thread_Window[t], n) \in Window
  BY ShiftedType DEF TypeOK
<1> QED
  BY <1>1 DEF TypeOK, TryShift

-----------------------------------------------------------------------------
(***************************************************************************)
(* Type correctness.                                                       *)
(***************************************************************************)
\* The state that create_stack builds is well typed, and its lists are empty.
LEMMA InitTypeOK == Init => TypeOK /\ Counted
<1> SUFFICES ASSUME Init PROVE TypeOK /\ Counted
  OBVIOUS
<1>1. TypeOK
  BY WidthAssumption, DepthAssumption, RandomHopsAssumption
     DEF Init, InitWindow, TypeOK, NoDescriptor, NULL, Descriptor, Window, Index, PCs
<1>2. Heights([n \in 0 .. 0 |-> 0])
  BY DEF Init, Heights, NoDescriptor, NULL
<1> QED
  BY <1>1, <1>2 DEF Counted

\* put_window keeps the state well typed.
LEMMA PutWindowTypeOK ==
    ASSUME TypeOK, NEW t \in Threads, PutWindow(t), UNCHANGED stackVars
    PROVE  TypeOK'
<1> USE DEF TypeOK, search, stackVars
<1>1. CASE PutEnter(t)
  <2>1. /\ pc' \in [Threads -> PCs]
        /\ thread_Window' \in [Threads -> Window]
        /\ thread_index' \in [Threads -> Index]
        /\ hops' \in [Threads -> 0 .. Width]
        /\ random' \in [Threads -> 0 .. RandomHops]
        /\ empty' \in [Threads -> {0, 1}]
    BY <1>1, WidthAssumption, RandomHopsAssumption DEF PutEnter, Enter, MaybeRandomIndex, ResetSearch, Goto, PCs, PutWindowPCs, PutScanning
  <2> QED
    BY <1>1, <2>1 DEF PutEnter, Enter
<1>2. CASE PutRead(t)
  <2>1. /\ pc' \in [Threads -> PCs]
        /\ descriptor' \in [Threads -> Descriptor]
    BY <1>2 DEF PutRead, Read, Goto, PCs, PutWindowPCs, PutScanning
  <2> QED
    BY <1>2, <2>1 DEF PutRead, Read
<1>3. CASE PutReread(t)
  <2>1. PICK order \in ReadOrders :
          descriptor' = [descriptor EXCEPT ![t] =
             SecondLoad(order, descriptor[t], set_array[thread_index[t]])]
    BY <1>3 DEF PutReread, Reread
  <2>2. SecondLoad(order, descriptor[t], set_array[thread_index[t]]) \in Descriptor
    BY SecondLoadType
  <2>3. /\ pc' \in [Threads -> PCs]
        /\ descriptor' \in [Threads -> Descriptor]
    BY <1>3, <2>1, <2>2 DEF PutReread, Reread, Goto, PCs, PutWindowPCs, PutScanning
  <2> QED
    BY <1>3, <2>1, <2>2, <2>3 DEF PutReread, Reread
<1>4. CASE PutSync(t)
  <2>1. /\ pc' \in [Threads -> PCs]
        /\ thread_Window' \in [Threads -> Window]
        /\ hops' \in [Threads -> 0 .. Width]
        /\ empty' \in [Threads -> {0, 1}]
    BY <1>4, WidthAssumption DEF PutSync, Sync, Goto, PCs, PutWindowPCs, PutScanning
  <2> QED
    BY <1>4, <2>1 DEF PutSync, Sync
<1>5. CASE PutReturn(t)
  <2>1. /\ pc' \in [Threads -> PCs]
        /\ hops' \in [Threads -> 0 .. Width]
        /\ random' \in [Threads -> 0 .. RandomHops]
        /\ empty' \in [Threads -> {0, 1}]
    BY <1>5, WidthAssumption, RandomHopsAssumption DEF PutReturn, Return, ResetSearch, Goto, PCs, PutWindowPCs, PutScanning
  <2> QED
    BY <1>5, <2>1 DEF PutReturn, Return
<1>6. CASE PutHop(t)
  <2>1. /\ hops' \in [Threads -> 0 .. Width]
        /\ random' \in [Threads -> 0 .. RandomHops]
        /\ thread_index' \in [Threads -> Index]
    BY <1>6, HopType DEF PutHop
  <2>2. /\ pc' \in [Threads -> PCs]
    BY <1>6 DEF PutHop, Goto, PCs, PutWindowPCs, PutScanning
  <2> QED
    BY <1>6, <2>1, <2>2 DEF PutHop
<1>7. CASE PutExhausted(t)
  <2>1. /\ pc' \in [Threads -> PCs]
    BY <1>7 DEF PutExhausted, Goto, PCs, PutWindowPCs, PutScanning
  <2> QED
    BY <1>7, <2>1 DEF PutExhausted
<1>8. CASE PutShift(t)
  <2>1. /\ global_Window' \in Window
        /\ thread_Window' \in [Threads -> Window]
    <3>1. Shift \in Int /\ thread_Window[t].max + Shift >= 0
      BY ShiftType DEF Window
    <3>2. TryShift(t, Shift)
      BY <1>8 DEF PutShift
    <3> QED
      BY <3>1, <3>2, TryShiftType
  <2>2. /\ pc' \in [Threads -> PCs]
        /\ hops' \in [Threads -> 0 .. Width]
    BY <1>8, WidthAssumption DEF PutShift, Goto, PCs, PutWindowPCs, PutScanning
  <2> QED
    BY <1>8, <2>1, <2>2 DEF PutShift
<1> QED
  BY <1>1, <1>2, <1>3, <1>4, <1>5, <1>6, <1>7, <1>8 DEF PutWindow

\* get_window keeps the state well typed.
LEMMA GetWindowTypeOK ==
    ASSUME TypeOK, NEW t \in Threads, GetWindow(t), UNCHANGED stackVars
    PROVE  TypeOK'
<1> USE DEF TypeOK, search, stackVars
<1>1. CASE GetEnter(t)
  <2>1. /\ pc' \in [Threads -> PCs]
        /\ thread_Window' \in [Threads -> Window]
        /\ thread_index' \in [Threads -> Index]
        /\ hops' \in [Threads -> 0 .. Width]
        /\ random' \in [Threads -> 0 .. RandomHops]
        /\ empty' \in [Threads -> {0, 1}]
    BY <1>1, WidthAssumption, RandomHopsAssumption DEF GetEnter, Enter, MaybeRandomIndex, ResetSearch, Goto, PCs, GetWindowPCs, GetScanning
  <2> QED
    BY <1>1, <2>1 DEF GetEnter, Enter
<1>2. CASE GetRead(t)
  <2>1. /\ pc' \in [Threads -> PCs]
        /\ descriptor' \in [Threads -> Descriptor]
    BY <1>2 DEF GetRead, Read, Goto, PCs, GetWindowPCs, GetScanning
  <2> QED
    BY <1>2, <2>1 DEF GetRead, Read
<1>3. CASE GetReread(t)
  <2>1. PICK order \in ReadOrders :
          descriptor' = [descriptor EXCEPT ![t] =
             SecondLoad(order, descriptor[t], set_array[thread_index[t]])]
    BY <1>3 DEF GetReread, Reread
  <2>2. SecondLoad(order, descriptor[t], set_array[thread_index[t]]) \in Descriptor
    BY SecondLoadType
  <2>3. /\ pc' \in [Threads -> PCs]
        /\ descriptor' \in [Threads -> Descriptor]
    BY <1>3, <2>1, <2>2 DEF GetReread, Reread, Goto, PCs, GetWindowPCs, GetScanning
  <2> QED
    BY <1>3, <2>1, <2>2, <2>3 DEF GetReread, Reread
<1>4. CASE GetSync(t)
  <2>1. /\ pc' \in [Threads -> PCs]
        /\ thread_Window' \in [Threads -> Window]
        /\ hops' \in [Threads -> 0 .. Width]
        /\ empty' \in [Threads -> {0, 1}]
    BY <1>4, WidthAssumption DEF GetSync, Sync, Goto, PCs, GetWindowPCs, GetScanning
  <2> QED
    BY <1>4, <2>1 DEF GetSync, Sync
<1>5. CASE GetReturn(t)
  <2>1. /\ pc' \in [Threads -> PCs]
        /\ hops' \in [Threads -> 0 .. Width]
        /\ random' \in [Threads -> 0 .. RandomHops]
        /\ empty' \in [Threads -> {0, 1}]
    BY <1>5, WidthAssumption, RandomHopsAssumption DEF GetReturn, Return, ResetSearch, Goto, PCs, GetWindowPCs, GetScanning
  <2> QED
    BY <1>5, <2>1 DEF GetReturn, Return
<1>6. CASE GetHop(t)
  <2>1. /\ hops' \in [Threads -> 0 .. Width]
        /\ random' \in [Threads -> 0 .. RandomHops]
        /\ thread_index' \in [Threads -> Index]
    BY <1>6, HopType DEF GetHop
  <2>2. /\ pc' \in [Threads -> PCs]
        /\ empty' \in [Threads -> {0, 1}]
    BY <1>6 DEF GetHop, Goto, PCs, GetWindowPCs, GetScanning
  <2> QED
    BY <1>6, <2>1, <2>2 DEF GetHop
<1>7. CASE GetExhausted(t)
  <2>1. /\ pc' \in [Threads -> PCs]
    BY <1>7 DEF GetExhausted, Goto, PCs, GetWindowPCs, GetScanning
  <2> QED
    BY <1>7, <2>1 DEF GetExhausted
<1>8. CASE GetEmpty(t)
  <2>1. /\ pc' \in [Threads -> PCs]
        /\ hops' \in [Threads -> 0 .. Width]
        /\ random' \in [Threads -> 0 .. RandomHops]
        /\ empty' \in [Threads -> {0, 1}]
    BY <1>8, WidthAssumption, RandomHopsAssumption DEF GetEmpty, Return, ResetSearch, Goto, PCs, GetWindowPCs, GetScanning
  <2> QED
    BY <1>8, <2>1 DEF GetEmpty, Return
<1>9. CASE GetShift(t)
  <2>1. /\ global_Window' \in Window
        /\ thread_Window' \in [Threads -> Window]
    <3>1. CASE RoomBelow(t)
      <4>1. -Shift \in Int /\ thread_Window[t].max + (-Shift) >= 0
        BY <3>1, ShiftType, DepthAssumption DEF RoomBelow, Window
      <4>2. TryShift(t, -Shift)
        BY <1>9, <3>1 DEF GetShift
      <4> QED
        BY <4>1, <4>2, TryShiftType
    <3>2. CASE ~RoomBelow(t)
      BY <1>9, <3>2 DEF GetShift
    <3> QED
      BY <3>1, <3>2
  <2>2. /\ pc' \in [Threads -> PCs]
        /\ hops' \in [Threads -> 0 .. Width]
        /\ empty' \in [Threads -> {0, 1}]
    BY <1>9, WidthAssumption DEF GetShift, Goto, PCs, GetWindowPCs, GetScanning
  <2> QED
    BY <1>9, <2>1, <2>2 DEF GetShift
<1> QED
  BY <1>1, <1>2, <1>3, <1>4, <1>5, <1>6, <1>7, <1>8, <1>9 DEF GetWindow

\* A step that changes neither the lists nor the array keeps the counts right.
LEMMA CountedUnchanged ==
    ASSUME Counted, next' = next, set_array' = set_array
    PROVE  Counted'
BY DEF Counted, Heights

\* The return from an operation keeps its variables well typed.
LEMMA LeaveType ==
    ASSUME TypeOK, NEW t \in Threads, Leave(t)
    PROVE  /\ contention' \in [Threads -> {0, 1}]
           /\ descriptor' \in [Threads -> Descriptor]
           /\ present' \in [Threads -> SUBSET Nat]
           /\ UNCHANGED <<global_Window, thread_Window, thread_index, hops, random,
                          empty, ops>>
BY DEF TypeOK, Leave, NoDescriptor, NULL, Descriptor, search

\* push: the new node is one higher than the one below it.
LEMMA PushTypeOK ==
    ASSUME TypeOK, Counted, NEW t \in Threads, Push(t)
    PROVE  TypeOK' /\ Counted'
<1> USE DEF TypeOK
<1>1. CASE PushCall(t)
  <2>1. /\ pc' \in [Threads -> PCs]
        /\ ops' \in [Threads -> Nat]
    BY <1>1 DEF PushCall, Call, Goto, PCs, PutWindowPCs
  <2>2. TypeOK'
    BY <1>1, <2>1 DEF PushCall, Call, windowVars, search
  <2> QED
    BY <1>1, <2>2, CountedUnchanged DEF PushCall, Call, windowVars
<1>2. CASE PushCAE(t)
  <2> DEFINE i == thread_index[t]
             new == [node |-> Len(next) + 1, count |-> descriptor[t].count + 1]
  <2>1. i \in Index /\ set_array[i] = descriptor[t] /\ next \in Seq(Nat)
    BY <1>2 DEF PushCAE, Unchanged
  <2>2. /\ set_array' = [set_array EXCEPT ![i] = new]
        /\ next' = Append(next, descriptor[t].node)
        /\ linear_clone' = linear_clone \cup {Len(next) + 1}
        /\ new \in Descriptor
        /\ descriptor[t].node \in Nat
    BY <1>2 DEF PushCAE, NextStamp, Descriptor
  <2>3. /\ pc' \in [Threads -> PCs]
        /\ set_array' \in [Index -> Descriptor]
        /\ next' \in Seq(Nat)
        /\ linear_clone' \in SUBSET Nat
    <3>1. pc' \in [Threads -> PCs]
      BY <1>2 DEF PushCAE, Goto, PCs
    <3>2. set_array' \in [Index -> Descriptor]
      BY <2>1, <2>2
    <3>3. next' \in Seq(Nat) /\ Len(next) \in Nat
      BY <2>1, <2>2
    <3>4. Len(next) + 1 \in Nat /\ linear_clone \in SUBSET Nat
      BY <3>3
    <3>5. linear_clone' \in SUBSET Nat
      BY <2>2, <3>4, Zenon
    <3> QED
      BY <3>1, <3>2, <3>3, <3>5
  <2>4. TypeOK'
    <3>1. Leave(t)
      BY <1>2 DEF PushCAE
    <3> QED
      BY <3>1, <2>3, LeaveType
  <2>5. PICK h : Heights(h)
    BY DEF Counted
  <2> DEFINE L == Len(next)
  <2>6. /\ L \in Nat
        /\ Len(next') = L + 1
        /\ next'[L + 1] = descriptor[t].node
        /\ \A n \in 1 .. L : next'[n] = next[n]
    BY <2>1, <2>2
  <2>7. /\ h \in [0 .. L -> Nat]
        /\ h[0] = 0
        /\ \A n \in 1 .. L : next[n] \in 0 .. n - 1 /\ h[n] = h[next[n]] + 1
        /\ \A j \in Index : /\ set_array[j].node \in 0 .. L
                            /\ set_array[j].count = h[set_array[j].node]
    BY <2>5 DEF Heights, NULL
  <2>8. descriptor[t].node \in 0 .. L /\ descriptor[t].count = h[descriptor[t].node]
    BY <2>1, <2>7
  <2>9. PICK g : g = [n \in 0 .. L + 1 |->
                        IF n = L + 1 THEN h[descriptor[t].node] + 1 ELSE h[n]]
    OBVIOUS
  <2>10. g \in [0 .. L + 1 -> Nat] /\ g[0] = 0
    BY <2>6, <2>7, <2>8, <2>9
  <2>11. ASSUME NEW n \in 1 .. L + 1
         PROVE  next'[n] \in 0 .. n - 1 /\ g[n] = g[next'[n]] + 1
    <3>1. CASE n = L + 1
      BY <3>1, <2>6, <2>8, <2>9
    <3>2. CASE n \in 1 .. L
      BY <3>2, <2>6, <2>7, <2>9
    <3> QED
      BY <3>1, <3>2, <2>6
  <2>12. ASSUME NEW j \in Index
         PROVE  set_array'[j].node \in 0 .. L + 1 /\ set_array'[j].count = g[set_array'[j].node]
    <3>1. CASE j = i
      <4>1. set_array'[j] = new
        BY <3>1, <2>1, <2>2
      <4> QED
        BY <4>1, <2>6, <2>8, <2>9
    <3>2. CASE j # i
      <4>1. set_array'[j] = set_array[j]
        BY <3>2, <2>2
      <4> QED
        BY <4>1, <2>6, <2>7, <2>9
    <3> QED
      BY <3>1, <3>2
  <2>13. Heights(g)'
    BY <2>6, <2>10, <2>11, <2>12 DEF Heights, NULL
  <2> QED
    BY <2>4, <2>13 DEF Counted
<1>3. CASE PushFails(t)
  <2>1. /\ pc' \in [Threads -> PCs]
        /\ contention' \in [Threads -> {0, 1}]
    BY <1>3 DEF PushFails, Contended, PCs, PutWindowPCs
  <2>2. TypeOK'
    BY <1>3, <2>1 DEF PushFails, Contended, stackVars, search
  <2> QED
    BY <1>3, <2>2, CountedUnchanged DEF PushFails, Contended, stackVars
<1> QED
  BY <1>1, <1>2, <1>3 DEF Push

\* pop: a node that is not NULL has a positive height, so its count can be
\* decreased and its next pointer followed.
LEMMA PopTypeOK ==
    ASSUME TypeOK, Counted, NEW t \in Threads, Pop(t)
    PROVE  TypeOK' /\ Counted'
<1> USE DEF TypeOK
<1>1. CASE PopCall(t)
  <2>1. /\ pc' \in [Threads -> PCs]
        /\ ops' \in [Threads -> Nat]
        /\ present' \in [Threads -> SUBSET Nat]
    BY <1>1 DEF PopCall, Call, Goto, PCs, GetWindowPCs
  <2>2. TypeOK'
    BY <1>1, <2>1 DEF PopCall, Call, windowVars, search
  <2> QED
    BY <1>1, <2>2, CountedUnchanged DEF PopCall, Call, windowVars
<1>2. CASE PopEmpty(t)
  <2>1. pc' \in [Threads -> PCs]
    BY <1>2 DEF PopEmpty, Goto, PCs
  <2>2. Leave(t)
    BY <1>2 DEF PopEmpty
  <2>3. TypeOK'
    BY <1>2, <2>1, <2>2, LeaveType DEF PopEmpty
  <2> QED
    BY <1>2, <2>3, CountedUnchanged DEF PopEmpty
<1>3. CASE PopCAE(t)
  <2> DEFINE i == thread_index[t]
             d == descriptor[t]
             L == Len(next)
             new == [node |-> next[d.node], count |-> d.count - 1]
  <2>1. i \in Index /\ set_array[i] = d /\ next \in Seq(Nat) /\ d.node # 0
    BY <1>3 DEF PopCAE, Unchanged, NULL
  <2>2. set_array' = [set_array EXCEPT ![i] = new] /\ next' = next
    BY <1>3 DEF PopCAE
  <2>3. PICK h : Heights(h)
    BY DEF Counted
  <2>4. /\ h \in [0 .. L -> Nat]
        /\ h[0] = 0
        /\ \A n \in 1 .. L : next[n] \in 0 .. n - 1 /\ h[n] = h[next[n]] + 1
        /\ \A j \in Index : /\ set_array[j].node \in 0 .. L
                            /\ set_array[j].count = h[set_array[j].node]
    BY <2>3 DEF Heights, NULL
  <2>5. d.node \in 1 .. L /\ d.count = h[d.node]
    BY <2>1, <2>4
  <2>6. next[d.node] \in 0 .. L /\ h[next[d.node]] \in Nat /\ d.count = h[next[d.node]] + 1
    <3>1. next[d.node] \in 0 .. d.node - 1 /\ h[d.node] = h[next[d.node]] + 1
      BY <2>4, <2>5
    <3>2. next[d.node] \in 0 .. L
      BY <3>1, <2>5
    <3> QED
      BY <3>1, <3>2, <2>4, <2>5
  <2>7. new \in Descriptor
    <3>1. next[d.node] \in Nat /\ d.count - 1 \in Nat
      BY <2>6
    <3> HIDE DEF d
    <3> QED
      BY ONLY <3>1 DEF Descriptor, new
  <2>8. /\ pc' \in [Threads -> PCs]
        /\ set_array' \in [Index -> Descriptor]
        /\ linear_clone' \in SUBSET Nat
    BY <1>3, <2>1, <2>2, <2>7 DEF PopCAE, Goto, PCs
  <2>9. TypeOK'
    <3>1. Leave(t)
      BY <1>3 DEF PopCAE
    <3> QED
      BY <3>1, <2>2, <2>8, LeaveType
  <2>10. ASSUME NEW j \in Index
         PROVE  set_array'[j].node \in 0 .. L /\ set_array'[j].count = h[set_array'[j].node]
    <3>1. CASE j = i
      <4>1. set_array'[j] = new
        BY <3>1, <2>1, <2>2
      <4> QED
        BY <4>1, <2>6
    <3>2. CASE j # i
      BY <3>2, <2>2, <2>4
    <3> QED
      BY <3>1, <3>2
  <2>11. Heights(h)'
    BY <2>2, <2>4, <2>10 DEF Heights, NULL
  <2> QED
    BY <2>9, <2>11 DEF Counted
<1>4. CASE PopFails(t)
  <2>1. /\ pc' \in [Threads -> PCs]
        /\ contention' \in [Threads -> {0, 1}]
    BY <1>4 DEF PopFails, Contended, PCs, GetWindowPCs
  <2>2. TypeOK'
    BY <1>4, <2>1 DEF PopFails, Contended, stackVars, search
  <2> QED
    BY <1>4, <2>2, CountedUnchanged DEF PopFails, Contended, stackVars
<1> QED
  BY <1>1, <1>2, <1>3, <1>4 DEF Pop

\* The searches write neither the array nor the lists.
LEMMA WindowKeepsArray ==
    ASSUME NEW t \in Threads, PutWindow(t) \/ GetWindow(t)
    PROVE  set_array' = set_array
BY DEF PutWindow, PutEnter, PutRead, PutReread, PutSync, PutReturn, PutHop,
       PutExhausted, PutShift, GetWindow, GetEnter, GetRead, GetReread, GetSync,
       GetReturn, GetHop, GetExhausted, GetEmpty, GetShift, Enter, Read, Reread,
       Sync, Return

\* Every step keeps the state well typed and the counts right.
LEMMA NextTypeOK ==
    ASSUME TypeOK, Counted, [Next]_vars
    PROVE  TypeOK' /\ Counted'
<1>1. ASSUME NEW t \in Threads, WindowStep(t)
      PROVE  TypeOK' /\ Counted'
  <2>1. UNCHANGED stackVars /\ (PutWindow(t) \/ GetWindow(t))
    BY <1>1 DEF WindowStep
  <2>2. TypeOK'
    BY <2>1, PutWindowTypeOK, GetWindowTypeOK
  <2>3. next' = next /\ set_array' = set_array
    BY <2>1, WindowKeepsArray DEF stackVars
  <2> QED
    BY <2>2, <2>3, CountedUnchanged
<1>2. CASE UNCHANGED vars
  <2>1. TypeOK'
    BY <1>2 DEF TypeOK, vars, windowVars, stackVars, search
  <2> QED
    BY <1>2, <2>1, CountedUnchanged DEF vars, windowVars, stackVars
<1> QED
  BY <1>1, <1>2, PushTypeOK, PopTypeOK DEF Next, ThreadStep, Finished

\* Every variable keeps its type: in particular no count becomes negative and
\* pop never follows a pointer that is not a node.
THEOREM TypeCorrect == Spec => []TypeOK
<1>1. Init => TypeOK /\ Counted
  BY InitTypeOK
<1>2. TypeOK /\ Counted /\ [Next]_vars => (TypeOK /\ Counted)'
  BY NextTypeOK
<1> QED
  BY <1>1, <1>2, PTL DEF Spec

-----------------------------------------------------------------------------
(***************************************************************************)
(* The window stays above its height.                                      *)
(***************************************************************************)
\* The lowest window is the initial one.
LEMMA LowestAligned == Aligned(Depth)
BY ShiftType, DepthAssumption DEF Aligned

\* A step that leaves a thread's own variables alone keeps its invariant.
LEMMA OtherThread ==
    ASSUME NEW u \in Threads, ThreadInv(u), pc'[u] = pc[u],
           thread_Window'[u] = thread_Window[u], empty'[u] = empty[u]
    PROVE  ThreadInv(u)'
BY DEF ThreadInv, Searching

\* Init establishes the window invariant: nobody is searching.
LEMMA InitWindowInv == Init => WindowInv
BY LowestAligned DEF Init, InitWindow, WindowInv, ThreadInv, Searching, PutScanning, GetScanning

\* A step of the searches changes one thread's variables only.
LEMMA OneThread ==
    ASSUME TypeOK, NEW t \in Threads, NEW u \in Threads, u # t, ThreadStep(t)
    PROVE  /\ pc'[u] = pc[u]
           /\ thread_Window'[u] = thread_Window[u]
           /\ empty'[u] = empty[u]
<1> USE DEF TypeOK, Goto
<1>1. CASE PutWindow(t)
  BY <1>1 DEF PutWindow, PutEnter, PutRead, PutReread, PutSync, PutReturn, PutHop,
              PutExhausted, PutShift, Enter, ResetSearch, Read, Reread, Sync,
              Return, TryShift, search
<1>2. CASE GetWindow(t)
  BY <1>2 DEF GetWindow, GetEnter, GetRead, GetReread, GetSync, GetReturn, GetHop,
              GetExhausted, GetEmpty, GetShift, Enter, ResetSearch, Read, Reread,
              Sync, Return, TryShift, search
<1>3. CASE Push(t)
  BY <1>3 DEF Push, PushCall, PushCAE, PushFails, Call, Leave, Contended,
              windowVars, search
<1>4. CASE Pop(t)
  BY <1>4 DEF Pop, PopCall, PopEmpty, PopCAE, PopFails, Call, Leave, Contended,
              windowVars, search
<1> QED
  BY <1>1, <1>2, <1>3, <1>4 DEF ThreadStep, WindowStep

\* A shift up or down keeps the windows aligned.
LEMMA TryShiftAligned ==
    ASSUME TypeOK, NEW t \in Threads, NEW n \in Int, TryShift(t, n),
           Aligned(global_Window.max), Aligned(thread_Window[t].max),
           Aligned(thread_Window[t].max + n)
    PROVE  Aligned(global_Window.max)' /\ Aligned(thread_Window[t].max)'
<1>1. ShiftedBy(thread_Window[t], n).max = thread_Window[t].max + n
  BY DEF ShiftedBy
<1>2. CASE /\ global_Window' = ShiftedBy(thread_Window[t], n)
           /\ thread_Window' = [thread_Window EXCEPT ![t] = ShiftedBy(@, n)]
  <2>1. thread_Window'[t].max = thread_Window[t].max + n
    BY <1>1, <1>2 DEF TypeOK
  <2>2. global_Window'.max = thread_Window[t].max + n
    BY <1>1, <1>2
  <2> QED
    BY <2>1, <2>2 DEF Aligned
<1>3. CASE /\ thread_Window' = [thread_Window EXCEPT ![t] = global_Window]
           /\ UNCHANGED global_Window
  BY <1>3 DEF TypeOK, Aligned
<1>4. CASE UNCHANGED <<global_Window, thread_Window>>
  BY <1>4 DEF Aligned
<1> QED
  BY <1>2, <1>3, <1>4 DEF TryShift

\* put_window keeps the invariant of its thread and of the global window.
LEMMA PutWindowInv ==
    ASSUME TypeOK, WindowInv, NEW t \in Threads, PutWindow(t)
    PROVE  Aligned(global_Window.max)' /\ ThreadInv(t)'
<1>0. Aligned(global_Window.max) /\ ThreadInv(t)
  BY DEF WindowInv
<1> USE DEF Goto, Searching, PutScanning, GetScanning
<1>1. CASE PutEnter(t)
  BY <1>1, <1>0 DEF PutEnter, Enter, TypeOK, ThreadInv, Aligned
<1>2. CASE PutRead(t)
  BY <1>2, <1>0 DEF PutRead, Read, TypeOK, ThreadInv, Aligned
<1>3. CASE PutReread(t)
  BY <1>3, <1>0 DEF PutReread, Reread, TypeOK, ThreadInv, Aligned
<1>4. CASE PutSync(t)
  BY <1>4, <1>0 DEF PutSync, Sync, TypeOK, ThreadInv, Aligned
<1>5. CASE PutReturn(t)
  BY <1>5, <1>0 DEF PutReturn, Return, TypeOK, ThreadInv, Aligned
<1>6. CASE PutHop(t)
  BY <1>6, <1>0 DEF PutHop, TypeOK, ThreadInv, Aligned
<1>7. CASE PutExhausted(t)
  BY <1>7, <1>0 DEF PutExhausted, TypeOK, ThreadInv, Aligned
<1>8. CASE PutShift(t)
  <2>1. /\ pc'[t] = "put_read" /\ pc[t] = "put_shift" /\ TryShift(t, Shift)
    BY <1>8 DEF PutShift, TypeOK
  <2>2. thread_Window[t].max \in Nat /\ Aligned(thread_Window[t].max)
    BY <2>1, <1>0 DEF ThreadInv, TypeOK, Window
  <2>3. Aligned(thread_Window[t].max + Shift) /\ Shift \in Int
    BY <2>2, AlignedShifts, ShiftType
  <2>4. Aligned(global_Window.max)' /\ Aligned(thread_Window[t].max)'
    BY <1>0, <2>1, <2>2, <2>3, TryShiftAligned
  <2> QED
    BY <2>1, <2>4 DEF ThreadInv
<1> QED
  BY <1>1, <1>2, <1>3, <1>4, <1>5, <1>6, <1>7, <1>8 DEF PutWindow

\* get_window does so too.  A sub-stack that is not empty and below the window
\* shows that the window is not the lowest one.
LEMMA GetWindowInv ==
    ASSUME TypeOK, WindowInv, NEW t \in Threads, GetWindow(t)
    PROVE  Aligned(global_Window.max)' /\ ThreadInv(t)'
<1>0. Aligned(global_Window.max) /\ ThreadInv(t)
  BY DEF WindowInv
<1> USE DEF Goto, Searching, PutScanning, GetScanning
<1>1. CASE GetEnter(t)
  BY <1>1, <1>0 DEF GetEnter, Enter, ResetSearch, TypeOK, ThreadInv, Aligned
<1>2. CASE GetRead(t)
  BY <1>2, <1>0 DEF GetRead, Read, search, TypeOK, ThreadInv, Aligned
<1>3. CASE GetReread(t)
  BY <1>3, <1>0 DEF GetReread, Reread, search, TypeOK, ThreadInv, Aligned
<1>4. CASE GetSync(t)
  BY <1>4, <1>0 DEF GetSync, Sync, TypeOK, ThreadInv, Aligned
<1>5. CASE GetReturn(t)
  BY <1>5, <1>0 DEF GetReturn, Return, TypeOK, ThreadInv, Aligned
<1>6. CASE GetHop(t)
  <2>1. /\ pc[t] = "get_check" /\ pc'[t] = "get_read"
        /\ UNCHANGED <<global_Window, thread_Window>>
        /\ empty'[t] = IF descriptor[t].count > 0 THEN 0 ELSE empty[t]
    BY <1>6 DEF GetHop, TypeOK
  <2>2. descriptor[t].count > 0 => thread_Window[t].max > Depth
    BY <1>6, DepthAssumption DEF GetHop, InWindow, TypeOK, Descriptor, Window
  <2> QED
    BY <2>1, <2>2, <1>0 DEF ThreadInv, Aligned
<1>7. CASE GetExhausted(t)
  BY <1>7, <1>0 DEF GetExhausted, search, TypeOK, ThreadInv, Aligned
<1>8. CASE GetEmpty(t)
  BY <1>8, <1>0 DEF GetEmpty, Return, TypeOK, ThreadInv, Aligned
<1>9. CASE GetShift(t)
  <2>1. pc[t] = "get_shift" /\ pc'[t] = "get_read" /\ empty'[t] = 1
    BY <1>9 DEF GetShift, TypeOK
  <2>2. thread_Window[t].max \in Nat /\ Aligned(thread_Window[t].max)
    BY <2>1, <1>0 DEF ThreadInv, TypeOK, Window
  <2>3. Aligned(global_Window.max)' /\ Aligned(thread_Window[t].max)'
    <3>1. CASE RoomBelow(t)
      <4>1. TryShift(t, -Shift) /\ -Shift \in Int
        BY <3>1, <1>9, ShiftType DEF GetShift
      <4>2. thread_Window[t].max + (-Shift) = thread_Window[t].max - Shift
        BY <2>2, ShiftType
      <4>3. Aligned(thread_Window[t].max + (-Shift))
        BY <3>1, <2>2, <4>2, AlignedShifts DEF RoomBelow
      <4> QED
        BY <1>0, <2>2, <4>1, <4>3, TryShiftAligned
    <3>2. CASE ~RoomBelow(t)
      BY <3>2, <1>9, <1>0, <2>2 DEF GetShift, Aligned
    <3> QED
      BY <3>1, <3>2
  <2> QED
    BY <2>1, <2>3 DEF ThreadInv
<1> QED
  BY <1>1, <1>2, <1>3, <1>4, <1>5, <1>6, <1>7, <1>8, <1>9 DEF GetWindow

\* push and pop do not touch the windows and leave the searches.
LEMMA OperationInv ==
    ASSUME TypeOK, WindowInv, NEW t \in Threads, Push(t) \/ Pop(t)
    PROVE  Aligned(global_Window.max)' /\ ThreadInv(t)'
<1>1. pc'[t] \in {"idle", "put_window", "get_window"} /\ global_Window' = global_Window
  BY DEF Push, PushCall, PushCAE, PushFails, Pop, PopCall, PopEmpty, PopCAE, PopFails,
         Call, Leave, Contended, Goto, TypeOK, windowVars
<1> QED
  BY <1>1 DEF WindowInv, ThreadInv, Searching, PutScanning, GetScanning, Aligned

\* Every step keeps the window invariant.
LEMMA NextWindowInv ==
    ASSUME TypeOK, WindowInv, [Next]_vars
    PROVE  WindowInv'
<1>1. ASSUME NEW t \in Threads, ThreadStep(t)
      PROVE  WindowInv'
  <2>1. Aligned(global_Window.max)' /\ ThreadInv(t)'
    BY <1>1, PutWindowInv, GetWindowInv, OperationInv DEF ThreadStep, WindowStep
  <2>2. ASSUME NEW u \in Threads, u # t PROVE ThreadInv(u)'
    <3>1. ThreadInv(u)
      BY DEF WindowInv
    <3> QED
      BY <3>1, <1>1, <2>2, OneThread, OtherThread
  <2> QED
    BY <2>1, <2>2 DEF WindowInv
<1>2. CASE UNCHANGED vars
  BY <1>2 DEF WindowInv, ThreadInv, Searching, Aligned, vars, windowVars, search
<1> QED
  BY <1>1, <1>2 DEF Next, Finished

\* No thread ever wants to shift the window below its height, whatever it read
\* and however often the version wrapped around: the test of new_window.max in
\* get_window is never what stops a shift.
THEOREM WindowStaysUp == Spec => []NeverBelowZero
<1>1. Init => TypeOK /\ Counted /\ WindowInv
  BY InitTypeOK, InitWindowInv
<1>2. TypeOK /\ Counted /\ WindowInv /\ [Next]_vars => (TypeOK /\ Counted /\ WindowInv)'
  BY NextTypeOK, NextWindowInv
<1>3. TypeOK /\ WindowInv => NeverBelowZero
  <2> SUFFICES ASSUME TypeOK, WindowInv, NEW t \in Threads, pc[t] = "get_shift"
               PROVE  RoomBelow(t)
    BY DEF NeverBelowZero
  <2>1. thread_Window[t].max \in Nat /\ Aligned(thread_Window[t].max)
        /\ thread_Window[t].max > Depth
    BY DEF TypeOK, Window, WindowInv, ThreadInv, Searching
  <2> QED
    BY <2>1, AlignedShifts DEF RoomBelow
<1> QED
  BY <1>1, <1>2, <1>3, PTL DEF Spec

-----------------------------------------------------------------------------
(***************************************************************************)
(* Lists linked by next pointers to older nodes.  Facts about all nodes    *)
(* are proved from the smallest node for which they fail.                  *)
(***************************************************************************)
Smaller == {ss \in Nat \X Nat : ss[1] < ss[2]}

\* A set of numbers that is not empty has a smallest element.
LEMMA SmallestElement ==
    ASSUME NEW T, T \subseteq Nat, T # {}
    PROVE  \E x \in T : \A y \in T : x <= y
<1>1. IsWellFoundedOn(Smaller, Nat)
  BY NatLessThanWellFounded DEF OpToRel, Smaller
<1>2. PICK x \in T : \A y \in T : ~ (<<y, x>> \in Smaller)
  BY <1>1, WFMin
<1>3. ASSUME NEW y \in T PROVE x <= y
  <2>1. ~ (<<y, x>> \in Smaller)
    BY <1>2
  <2>2. ~(y < x)
    BY <2>1 DEF Smaller
  <2> QED
    BY <2>2
<1> QED
  BY <1>2, <1>3

\* Pointers lead to older nodes or to NULL.
Linked(s) == \A n \in 1 .. Len(s) : s[n] \in 0 .. n - 1

\* f gives the nodes reachable from each node up to k.
Reaches(s, k, f) ==
    /\ f \in [0 .. k -> SUBSET Nat]
    /\ f[0] = {}
    /\ \A n \in 1 .. k : f[n] = {n} \cup f[s[n]]

\* Below, as a function of the pointers.
Lists(s) ==
    CHOOSE f : f = [n \in 0 .. Len(s) |-> IF n = NULL THEN {} ELSE {n} \cup f[s[n]]]

LEMMA BelowIsLists == Below = Lists(next)
BY DEF Below, Lists

LEMMA BelowIsListsPrime == Below' = Lists(next')
BY DEF Below, Lists

\* Such a function exists for each k.
LEMMA ReachesExists ==
    ASSUME NEW s \in Seq(Nat), Linked(s), NEW k \in 0 .. Len(s)
    PROVE  \E f : Reaches(s, k, f)
<1> DEFINE T == {m \in 0 .. Len(s) : ~ \E f : Reaches(s, m, f)}
<1> SUFFICES ASSUME T # {} PROVE FALSE
  OBVIOUS
<1>1. PICK m \in T : \A y \in T : m <= y
  <2>1. T \subseteq Nat
    OBVIOUS
  <2> HIDE DEF T
  <2> QED
    BY <2>1, SmallestElement
<1>a. m \in 0 .. Len(s) /\ ~ \E f : Reaches(s, m, f)
  OBVIOUS
<1>b. \A y \in 0 .. Len(s) : y < m => \E f : Reaches(s, y, f)
  BY <1>1, <1>a
<1> HIDE DEF T
<1>2. m # 0
  <2>1. Reaches(s, 0, [n \in 0 .. 0 |-> {}])
    BY DEF Reaches
  <2> QED
    BY <2>1, <1>a
<1>3. m - 1 \in 0 .. Len(s) /\ m - 1 < m
  BY <1>a, <1>2
<1>4. PICK f : Reaches(s, m - 1, f)
  BY <1>b, <1>3
<1> DEFINE g == [n \in 0 .. m |-> IF n = m THEN {m} \cup f[s[m]] ELSE f[n]]
<1>5. s[m] \in 0 .. m - 1
  BY <1>a, <1>2 DEF Linked
<1>6. /\ g[m] = {m} \cup f[s[m]]
      /\ \A n \in 0 .. m - 1 : g[n] = f[n]
  BY <1>a
<1>7. Reaches(s, m, g)
  <2>1. g \in [0 .. m -> SUBSET Nat]
    BY <1>a, <1>4, <1>5 DEF Reaches
  <2>2. g[0] = {}
    BY <1>a, <1>2, <1>4 DEF Reaches
  <2>3. ASSUME NEW n \in 1 .. m PROVE g[n] = {n} \cup g[s[n]]
    <3>1. s[n] \in 0 .. n - 1
      BY <1>a DEF Linked
    <3> HIDE DEF g
    <3>2. g[s[n]] = f[s[n]]
      BY <3>1, <1>a, <1>6
    <3>3. CASE n = m
      BY <3>2, <3>3, <1>6
    <3>4. CASE n # m
      <4>1. n \in 1 .. m - 1
        BY <3>4, <1>a
      <4>2. f[n] = {n} \cup f[s[n]]
        BY <4>1, <1>4 DEF Reaches
      <4> QED
        BY <4>1, <4>2, <3>2, <1>6
    <3> QED
      BY <3>3, <3>4
  <2> QED
    BY <2>1, <2>2, <2>3 DEF Reaches
<1> QED
  BY <1>7, <1>a

\* Two of them agree where both are defined.
LEMMA ReachesUnique ==
    ASSUME NEW s \in Seq(Nat), NEW r \in Seq(Nat), NEW k \in Nat, NEW f, NEW g,
           k <= Len(s), k <= Len(r), Linked(s), Linked(r),
           \A n \in 1 .. k : s[n] = r[n],
           Reaches(s, Len(s), f), Reaches(r, Len(r), g)
    PROVE  \A n \in 0 .. k : f[n] = g[n]
<1> DEFINE T == {n \in 0 .. k : f[n] # g[n]}
<1> SUFFICES ASSUME T # {} PROVE FALSE
  OBVIOUS
<1>1. PICK m \in T : \A y \in T : m <= y
  <2>1. T \subseteq Nat
    OBVIOUS
  <2> HIDE DEF T
  <2> QED
    BY <2>1, SmallestElement
<1>a. m \in 0 .. k /\ f[m] # g[m]
  OBVIOUS
<1>b. \A y \in 0 .. k : y < m => f[y] = g[y]
  BY <1>1, <1>a
<1> HIDE DEF T
<1>2. m # 0
  BY <1>a DEF Reaches
<1>3. m \in 1 .. k /\ m \in 1 .. Len(s) /\ m \in 1 .. Len(r)
  BY <1>a, <1>2
<1>4. s[m] \in 0 .. m - 1 /\ r[m] = s[m]
  BY <1>3 DEF Linked
<1>5. f[s[m]] = g[s[m]]
  BY <1>3, <1>4, <1>b
<1>6. f[m] = {m} \cup f[s[m]] /\ g[m] = {m} \cup g[r[m]]
  BY <1>3 DEF Reaches
<1> QED
  BY <1>a, <1>4, <1>5, <1>6

\* Lists is one of them.
LEMMA ListsReach ==
    ASSUME NEW s \in Seq(Nat), Linked(s)
    PROVE  Reaches(s, Len(s), Lists(s))
<1>1. PICK f : Reaches(s, Len(s), f)
  BY ReachesExists
<1>2. f = [n \in 0 .. Len(s) |-> IF n = NULL THEN {} ELSE {n} \cup f[s[n]]]
  BY <1>1 DEF Reaches, NULL
<1>3. Lists(s) = [n \in 0 .. Len(s) |-> IF n = NULL THEN {} ELSE {n} \cup Lists(s)[s[n]]]
  BY <1>2 DEF Lists
<1> DEFINE g == Lists(s)
<1>4. g = [n \in 0 .. Len(s) |-> IF n = NULL THEN {} ELSE {n} \cup g[s[n]]]
  BY <1>3
<1> HIDE DEF g
<1>5. g[0] = {} /\ \A n \in 1 .. Len(s) : g[n] = {n} \cup g[s[n]]
  BY <1>4 DEF NULL
<1>6. ASSUME NEW n \in 0 .. Len(s) PROVE g[n] \subseteq Nat
  <2> DEFINE T == {m \in 0 .. Len(s) : ~(g[m] \subseteq Nat)}
  <2> SUFFICES ASSUME T # {} PROVE FALSE
    OBVIOUS
  <2>1. PICK m \in T : \A y \in T : m <= y
    <3>1. T \subseteq Nat
      OBVIOUS
    <3> HIDE DEF T
    <3> QED
      BY <3>1, SmallestElement
  <2>a. m \in 0 .. Len(s) /\ ~(g[m] \subseteq Nat)
    OBVIOUS
  <2>b. \A y \in 0 .. Len(s) : y < m => g[y] \subseteq Nat
    BY <2>1, <2>a
  <2> HIDE DEF T
  <2>2. m # 0
    BY <2>a, <1>5
  <2>3. m \in 1 .. Len(s) /\ s[m] \in 0 .. m - 1
    BY <2>a, <2>2 DEF Linked
  <2>4. g[s[m]] \subseteq Nat
    BY <2>b, <2>3
  <2> QED
    BY <2>a, <2>3, <2>4, <1>5
<1>7. Reaches(s, Len(s), g)
  BY <1>4, <1>5, <1>6 DEF Reaches
<1> QED
  BY <1>7 DEF g

\* Only older nodes are reachable from a node, and finitely many.
LEMMA ListsOlder ==
    ASSUME NEW s \in Seq(Nat), Linked(s), NEW n \in 0 .. Len(s)
    PROVE  Lists(s)[n] \subseteq 1 .. n /\ IsFiniteSet(Lists(s)[n])
<1> DEFINE f == Lists(s)
<1>1. /\ f[0] = {}
      /\ \A m \in 1 .. Len(s) : f[m] = {m} \cup f[s[m]]
  BY ListsReach DEF Reaches
<1> HIDE DEF f
<1>2. f[n] \subseteq 1 .. n
  <2> DEFINE T == {m \in 0 .. Len(s) : ~(f[m] \subseteq 1 .. m)}
  <2> SUFFICES ASSUME T # {} PROVE FALSE
    OBVIOUS
  <2>1. PICK m \in T : \A y \in T : m <= y
    <3>1. T \subseteq Nat
      OBVIOUS
    <3> HIDE DEF T
    <3> QED
      BY <3>1, SmallestElement
  <2>a. m \in 0 .. Len(s) /\ ~(f[m] \subseteq 1 .. m)
    OBVIOUS
  <2>b. \A y \in 0 .. Len(s) : y < m => f[y] \subseteq 1 .. y
    BY <2>1, <2>a
  <2> HIDE DEF T
  <2>2. m # 0
    BY <2>a, <1>1
  <2>3. m \in 1 .. Len(s) /\ s[m] \in 0 .. m - 1
    BY <2>a, <2>2 DEF Linked
  <2>4. f[s[m]] \subseteq 1 .. s[m]
    BY <2>b, <2>3
  <2>5. f[m] = {m} \cup f[s[m]]
    BY <2>3, <1>1
  <2> QED
    BY <2>a, <2>3, <2>4, <2>5
<1>3. IsFiniteSet(1 .. n)
  BY FS_Interval
<1>4. IsFiniteSet(f[n])
  BY <1>2, <1>3, FS_Subset
<1> QED
  BY <1>2, <1>4 DEF f

\* One more node leaves the lists of the others as they are.
LEMMA ListsAppend ==
    ASSUME NEW s \in Seq(Nat), Linked(s), NEW n \in 0 .. Len(s)
    PROVE  /\ Append(s, n) \in Seq(Nat) /\ Len(Append(s, n)) = Len(s) + 1
           /\ Linked(Append(s, n))
           /\ \A m \in 0 .. Len(s) : Lists(Append(s, n))[m] = Lists(s)[m]
           /\ Lists(Append(s, n))[Len(s) + 1] = {Len(s) + 1} \cup Lists(s)[n]
<1> DEFINE r == Append(s, n)
<1>1. /\ r \in Seq(Nat) /\ Len(r) = Len(s) + 1
      /\ r[Len(s) + 1] = n
      /\ \A m \in 1 .. Len(s) : r[m] = s[m]
  OBVIOUS
<1> HIDE DEF r
<1>2. Linked(r)
  <2> SUFFICES ASSUME NEW m \in 1 .. Len(r) PROVE r[m] \in 0 .. m - 1
    BY DEF Linked
  <2>1. CASE m = Len(s) + 1
    BY <2>1, <1>1
  <2>2. CASE m # Len(s) + 1
    <3>1. m \in 1 .. Len(s)
      BY <2>2, <1>1
    <3> QED
      BY <3>1, <1>1 DEF Linked
  <2> QED
    BY <2>1, <2>2
<1>3. Reaches(s, Len(s), Lists(s)) /\ Reaches(r, Len(r), Lists(r))
  BY <1>1, <1>2, ListsReach
<1>4. \A m \in 0 .. Len(s) : Lists(s)[m] = Lists(r)[m]
  <2> DEFINE k == Len(s)
             f == Lists(s)
             g == Lists(r)
  <2>1. k \in Nat /\ k <= Len(s) /\ k <= Len(r) /\ \A m \in 1 .. k : s[m] = r[m]
    BY <1>1
  <2>2. Reaches(s, Len(s), f) /\ Reaches(r, Len(r), g)
    BY <1>3
  <2>3. ASSUME NEW m \in 0 .. k PROVE f[m] = g[m]
    <3> HIDE DEF k, f, g
    <3>1. s \in Seq(Nat) /\ r \in Seq(Nat) /\ Linked(s) /\ Linked(r)
      BY <1>1, <1>2
    <3> HIDE DEF Linked, Reaches
    <3>2. \A q \in 0 .. k : f[q] = g[q]
      BY ONLY <2>1, <2>2, <3>1, ReachesUnique
    <3> QED
      BY <3>2
  <2> QED
    BY <2>3
<1>5. Lists(r)[Len(s) + 1] = {Len(s) + 1} \cup Lists(r)[n]
  <2>1. Len(s) + 1 \in 1 .. Len(r)
    BY <1>1
  <2> QED
    BY <2>1, <1>1, <1>3 DEF Reaches
<1> QED
  BY <1>1, <1>2, <1>4, <1>5 DEF r

-----------------------------------------------------------------------------
(***************************************************************************)
(* The sub-stacks are whole.                                               *)
(***************************************************************************)
\* What the other lemmas use of the lists in a state.
LEMMA BelowFacts ==
    ASSUME TypeOK, Counted
    PROVE  /\ next \in Seq(Nat) /\ Linked(next)
           /\ Below[0] = {}
           /\ \A n \in 1 .. Len(next) : /\ next[n] \in 0 .. n - 1
                                        /\ Below[n] = {n} \cup Below[next[n]]
           /\ \A n \in 0 .. Len(next) : Below[n] \subseteq 1 .. n /\ IsFiniteSet(Below[n])
           /\ \A i \in Index : set_array[i].node \in 0 .. Len(next)
<1>1. next \in Seq(Nat) /\ Linked(next) /\ \A i \in Index : set_array[i].node \in 0 .. Len(next)
  BY DEF TypeOK, Counted, Heights, Linked
<1>2. Reaches(next, Len(next), Below)
  BY <1>1, BelowIsLists, ListsReach
<1>3. \A n \in 0 .. Len(next) : Below[n] \subseteq 1 .. n /\ IsFiniteSet(Below[n])
  BY <1>1, BelowIsLists, ListsOlder
<1> QED
  BY <1>1, <1>2, <1>3 DEF Reaches, Linked

\* Steps that write neither the array nor the lists.
LEMMA WholeUnchanged ==
    ASSUME StacksWhole, UNCHANGED <<set_array, next, linear_clone>>
    PROVE  StacksWhole' /\ Below' = Below
<1>1. Below' = Below
  BY BelowIsLists, BelowIsListsPrime
<1> QED
  BY <1>1 DEF StacksWhole

\* A push puts one new node on top of one sub-stack.
LEMMA PushLists ==
    ASSUME TypeOK, Counted, NEW t \in Threads, PushCAE(t)
    PROVE  /\ thread_index[t] \in Index
           /\ set_array'[thread_index[t]].node = NextStamp
           /\ \A j \in Index : j # thread_index[t] => set_array'[j] = set_array[j]
           /\ Below'[NextStamp] = {NextStamp} \cup Below[set_array[thread_index[t]].node]
           /\ \A n \in 0 .. Len(next) : Below'[n] = Below[n]
<1>1. /\ thread_index[t] \in Index /\ set_array[thread_index[t]] = descriptor[t]
      /\ set_array \in [Index -> Descriptor]
      /\ set_array' = [set_array EXCEPT ![thread_index[t]] =
                        [node |-> NextStamp, count |-> descriptor[t].count + 1]]
      /\ next' = Append(next, descriptor[t].node)
  BY DEF TypeOK, PushCAE, Unchanged
<1>2. next \in Seq(Nat) /\ Linked(next) /\ descriptor[t].node \in 0 .. Len(next)
  BY <1>1, BelowFacts
<1>3. /\ \A m \in 0 .. Len(next) : Lists(next')[m] = Lists(next)[m]
      /\ Lists(next')[Len(next) + 1] = {Len(next) + 1} \cup Lists(next)[descriptor[t].node]
  BY <1>1, <1>2, ListsAppend
<1>4. /\ \A n \in 0 .. Len(next) : Below'[n] = Below[n]
      /\ Below'[NextStamp] = {NextStamp} \cup Below[descriptor[t].node]
  BY <1>3, BelowIsLists, BelowIsListsPrime DEF NextStamp
<1>5. /\ set_array'[thread_index[t]].node = NextStamp
      /\ \A j \in Index : j # thread_index[t] => set_array'[j] = set_array[j]
  BY <1>1
<1> QED
  BY <1>1, <1>4, <1>5

\* A pop takes the top node off one sub-stack.
LEMMA PopLists ==
    ASSUME TypeOK, Counted, NEW t \in Threads, PopCAE(t)
    PROVE  /\ thread_index[t] \in Index /\ set_array[thread_index[t]].node \in 1 .. Len(next)
           /\ set_array'[thread_index[t]].node = next[set_array[thread_index[t]].node]
           /\ \A j \in Index : j # thread_index[t] => set_array'[j] = set_array[j]
           /\ Below' = Below
           /\ Below[set_array'[thread_index[t]].node]
                = Below[set_array[thread_index[t]].node] \ {set_array[thread_index[t]].node}
<1>1. /\ thread_index[t] \in Index /\ set_array[thread_index[t]] = descriptor[t]
      /\ set_array \in [Index -> Descriptor]
      /\ set_array' = [set_array EXCEPT ![thread_index[t]] =
                        [node |-> next[descriptor[t].node], count |-> descriptor[t].count - 1]]
      /\ next' = next /\ descriptor[t].node # 0
  BY DEF TypeOK, PopCAE, Unchanged, NULL
<1>2. Below' = Below
  BY <1>1, BelowIsLists, BelowIsListsPrime
<1>3. descriptor[t].node \in 1 .. Len(next)
  BY <1>1, BelowFacts
<1>4. /\ next[descriptor[t].node] \in 0 .. descriptor[t].node - 1
      /\ Below[descriptor[t].node] = {descriptor[t].node} \cup Below[next[descriptor[t].node]]
      /\ Below[next[descriptor[t].node]] \subseteq 1 .. next[descriptor[t].node]
  <2>1. /\ next[descriptor[t].node] \in 0 .. descriptor[t].node - 1
        /\ Below[descriptor[t].node] = {descriptor[t].node} \cup Below[next[descriptor[t].node]]
    BY <1>3, BelowFacts
  <2>2. next[descriptor[t].node] \in 0 .. Len(next)
    BY <2>1, <1>3
  <2> QED
    BY <2>1, <2>2, BelowFacts
<1>5. descriptor[t].node \notin Below[next[descriptor[t].node]]
  BY <1>3, <1>4
<1>6. /\ set_array'[thread_index[t]].node = next[descriptor[t].node]
      /\ \A j \in Index : j # thread_index[t] => set_array'[j] = set_array[j]
  BY <1>1
<1> QED
  BY <1>1, <1>2, <1>3, <1>4, <1>5, <1>6

\* A push keeps the sub-stacks whole.
LEMMA PushWhole ==
    ASSUME TypeOK, Counted, StacksWhole, NEW t \in Threads, PushCAE(t)
    PROVE  StacksWhole'
<1> DEFINE i == thread_index[t]
           d == set_array[i].node
           new == NextStamp
<1>1. /\ i \in Index /\ new = Len(next) + 1 /\ d \in 0 .. Len(next)
      /\ set_array'[i].node = new /\ set_array'[i].count = set_array[i].count + 1
      /\ \A j \in Index : j # i => set_array'[j] = set_array[j]
      /\ Below'[new] = {new} \cup Below[d]
      /\ \A n \in 0 .. Len(next) : Below'[n] = Below[n]
      /\ linear_clone' = linear_clone \cup {new}
  <2>1. set_array' = [set_array EXCEPT ![i] = [node |-> new, count |-> set_array[i].count + 1]]
    BY DEF PushCAE, Unchanged
  <2>2. i \in Index /\ set_array \in [Index -> Descriptor]
    BY DEF TypeOK
  <2>3. set_array'[i].count = set_array[i].count + 1
    BY <2>1, <2>2
  <2> QED
    BY <2>2, <2>3, PushLists, BelowFacts DEF PushCAE, NextStamp
<1>2. \A j \in Index : set_array[j].node \in 0 .. Len(next)
  BY BelowFacts
<1>3. \A n \in 0 .. Len(next) : Below[n] \subseteq 1 .. n /\ IsFiniteSet(Below[n])
  BY BelowFacts
<1>4. \A j \in Index : new \notin Below[set_array[j].node]
  <2> SUFFICES ASSUME NEW j \in Index, new \in Below[set_array[j].node] PROVE FALSE
    OBVIOUS
  <2>1. set_array[j].node \in 0 .. Len(next)
    BY <1>2
  <2>2. new \in 1 .. set_array[j].node
    BY <2>1, <1>3
  <2> QED
    BY <2>1, <2>2, <1>1
<1> HIDE DEF i, d, new
<1>5. ASSUME NEW j \in Index, j # i
      PROVE  Below'[set_array'[j].node] = Below[set_array[j].node]
  BY <1>5, <1>1, <1>2
<1>6. Below'[set_array'[i].node] = Below[set_array[i].node] \cup {new}
  BY <1>1 DEF d
<1>7. \A j \in Index : set_array'[j].count = Cardinality(Below'[set_array'[j].node])
  <2> SUFFICES ASSUME NEW j \in Index
               PROVE  set_array'[j].count = Cardinality(Below'[set_array'[j].node])
    OBVIOUS
  <2>1. CASE j # i
    BY <2>1, <1>1, <1>5 DEF StacksWhole
  <2>2. CASE j = i
    <3>1. IsFiniteSet(Below[set_array[i].node]) /\ new \notin Below[set_array[i].node]
      BY <1>1, <1>2, <1>3, <1>4
    <3>2. Cardinality(Below[set_array[i].node] \cup {new}) = Cardinality(Below[set_array[i].node]) + 1
      BY <3>1, FS_AddElement
    <3>3. set_array[i].count = Cardinality(Below[set_array[i].node])
      BY <1>1 DEF StacksWhole
    <3> QED
      BY <2>2, <3>2, <3>3, <1>1, <1>6
  <2> QED
    BY <2>1, <2>2
<1>8. ASSUME NEW j \in Index, NEW k \in Index, j # k
      PROVE  Below'[set_array'[j].node] \cap Below'[set_array'[k].node] = {}
  <2>1. Below[set_array[j].node] \cap Below[set_array[k].node] = {}
    BY <1>8 DEF StacksWhole
  <2>2. CASE j # i /\ k # i
    BY <2>1, <2>2, <1>5
  <2>3. CASE j = i
    BY <2>1, <2>3, <1>4, <1>5, <1>6, <1>8
  <2>4. CASE k = i
    BY <2>1, <2>4, <1>4, <1>5, <1>6, <1>8
  <2> QED
    BY <2>2, <2>3, <2>4
<1>9. linear_clone' = UNION {Below'[set_array'[j].node] : j \in Index}
  <2>1. linear_clone = UNION {Below[set_array[j].node] : j \in Index}
    BY DEF StacksWhole
  <2>2. \A x : x \in linear_clone' <=> \E j \in Index : x \in Below'[set_array'[j].node]
    <3> TAKE x
    <3>1. x \in linear_clone' <=> x = new \/ \E j \in Index : x \in Below[set_array[j].node]
      BY <2>1, <1>1
    <3>2. ASSUME x \in linear_clone' PROVE \E j \in Index : x \in Below'[set_array'[j].node]
      BY <3>1, <3>2, <1>1, <1>5, <1>6
    <3>3. ASSUME NEW j \in Index, x \in Below'[set_array'[j].node] PROVE x \in linear_clone'
      <4>1. CASE j = i
        BY <3>1, <3>3, <4>1, <1>6
      <4>2. CASE j # i
        BY <3>1, <3>3, <4>2, <1>5
      <4> QED
        BY <4>1, <4>2
    <3> QED
      BY <3>2, <3>3
  <2> QED
    BY <2>2
<1> QED
  BY <1>7, <1>8, <1>9 DEF StacksWhole

\* A pop keeps the sub-stacks whole.
LEMMA PopWhole ==
    ASSUME TypeOK, Counted, StacksWhole, NEW t \in Threads, PopCAE(t)
    PROVE  StacksWhole'
<1> DEFINE i == thread_index[t]
           d == set_array[i].node
<1>1. /\ i \in Index /\ d \in 1 .. Len(next)
      /\ set_array'[i].count = set_array[i].count - 1
      /\ \A j \in Index : j # i => set_array'[j] = set_array[j]
      /\ Below' = Below
      /\ Below[set_array'[i].node] = Below[d] \ {d}
      /\ linear_clone' = linear_clone \ {d}
  <2>1. set_array' = [set_array EXCEPT ![i] = [node |-> next[d], count |-> set_array[i].count - 1]]
    BY DEF PopCAE, Unchanged
  <2>2. i \in Index /\ set_array \in [Index -> Descriptor]
    BY DEF TypeOK
  <2>3. set_array'[i].count = set_array[i].count - 1
    BY <2>1, <2>2
  <2>4. linear_clone' = linear_clone \ {d}
    BY DEF PopCAE, Unchanged
  <2> QED
    BY <2>2, <2>3, <2>4, PopLists
<1>2. d \in Below[d] /\ IsFiniteSet(Below[d])
  <2>1. d \in 0 .. Len(next)
    BY <1>1
  <2> QED
    BY <2>1, <1>1, BelowFacts
<1> HIDE DEF i, d
<1>3. \A j \in Index : set_array'[j].count = Cardinality(Below'[set_array'[j].node])
  <2> SUFFICES ASSUME NEW j \in Index
               PROVE  set_array'[j].count = Cardinality(Below'[set_array'[j].node])
    OBVIOUS
  <2>1. CASE j # i
    BY <2>1, <1>1 DEF StacksWhole
  <2>2. CASE j = i
    <3>1. Cardinality(Below[d] \ {d}) = Cardinality(Below[d]) - 1
      BY <1>2, FS_RemoveElement
    <3>2. set_array[i].count = Cardinality(Below[d])
      BY <1>1 DEF StacksWhole, d
    <3> QED
      BY <2>2, <3>1, <3>2, <1>1
  <2> QED
    BY <2>1, <2>2
<1>4. ASSUME NEW j \in Index, NEW k \in Index, j # k
      PROVE  Below'[set_array'[j].node] \cap Below'[set_array'[k].node] = {}
  <2>1. Below[set_array[j].node] \cap Below[set_array[k].node] = {}
    BY <1>4 DEF StacksWhole
  <2>2. CASE j # i /\ k # i
    BY <2>1, <2>2, <1>1
  <2>3. CASE j = i
    BY <2>1, <2>3, <1>1, <1>4 DEF d
  <2>4. CASE k = i
    BY <2>1, <2>4, <1>1, <1>4 DEF d
  <2> QED
    BY <2>2, <2>3, <2>4
<1>5. linear_clone' = UNION {Below'[set_array'[j].node] : j \in Index}
  <2>1. linear_clone = UNION {Below[set_array[j].node] : j \in Index}
    BY DEF StacksWhole
  <2>2. ASSUME NEW j \in Index, j # i
        PROVE  d \notin Below[set_array[j].node] /\ Below'[set_array'[j].node] = Below[set_array[j].node]
    <3>1. Below[set_array[j].node] \cap Below[set_array[i].node] = {}
      BY <2>2, <1>1 DEF StacksWhole
    <3> QED
      BY <3>1, <2>2, <1>1, <1>2 DEF d
  <2>3. Below'[set_array'[i].node] = Below[set_array[i].node] \ {d}
    BY <1>1 DEF d
  <2>4. \A x : x \in linear_clone' <=> \E j \in Index : x \in Below'[set_array'[j].node]
    <3> TAKE x
    <3>1. x \in linear_clone' <=> x # d /\ \E j \in Index : x \in Below[set_array[j].node]
      BY <2>1, <1>1
    <3>2. ASSUME x \in linear_clone' PROVE \E j \in Index : x \in Below'[set_array'[j].node]
      <4>1. PICK j \in Index : x \in Below[set_array[j].node] /\ x # d
        BY <3>1, <3>2
      <4>2. x \in Below'[set_array'[j].node]
        BY <4>1, <2>2, <2>3
      <4> QED
        BY <4>2
    <3>3. ASSUME NEW j \in Index, x \in Below'[set_array'[j].node] PROVE x \in linear_clone'
      <4>1. CASE j = i
        BY <3>1, <3>3, <4>1, <2>3
      <4>2. CASE j # i
        BY <3>1, <3>3, <4>2, <2>2
      <4> QED
        BY <4>1, <4>2
    <3> QED
      BY <3>2, <3>3
  <2> QED
    BY <2>4
<1> QED
  BY <1>3, <1>4, <1>5 DEF StacksWhole

\* The steps that touch the lists are the two successful compare-exchanges.
LEMMA ListSteps ==
    ASSUME [Next]_vars
    PROVE  \/ UNCHANGED <<set_array, next, linear_clone>>
           \/ \E t \in Threads : PushCAE(t) \/ PopCAE(t)
<1>1. ASSUME NEW t \in Threads, ThreadStep(t), ~PushCAE(t), ~PopCAE(t)
      PROVE  UNCHANGED <<set_array, next, linear_clone>>
  <2>1. CASE WindowStep(t)
    BY <2>1, WindowKeepsArray DEF WindowStep, stackVars
  <2>2. CASE PushCall(t) \/ PushFails(t) \/ PopCall(t) \/ PopEmpty(t) \/ PopFails(t)
    BY <2>2 DEF PushCall, PushFails, PopCall, PopEmpty, PopFails, Call, Contended,
                windowVars, stackVars
  <2> QED
    BY <1>1, <2>1, <2>2 DEF ThreadStep, Push, Pop
<1> QED
  BY <1>1 DEF Next, Finished, vars, windowVars, stackVars

LEMMA NextWhole ==
    ASSUME TypeOK, Counted, StacksWhole, [Next]_vars
    PROVE  StacksWhole'
BY ListSteps, WholeUnchanged, PushWhole, PopWhole

LEMMA InitWhole == Init => StacksWhole
<1> SUFFICES ASSUME Init PROVE StacksWhole
  OBVIOUS
<1>1. TypeOK /\ Counted
  BY InitTypeOK
<1>2. \A i \in Index : Below[set_array[i].node] = {} /\ set_array[i].count = 0
  BY <1>1, BelowFacts DEF Init, NoDescriptor, NULL
<1>3. Cardinality({}) = 0
  BY FS_EmptySet
<1>4. linear_clone = {}
  BY DEF Init
<1>5. UNION {Below[set_array[i].node] : i \in Index} = {}
  BY <1>2
<1> QED
  BY <1>2, <1>3, <1>4, <1>5 DEF StacksWhole

\* Every sub-stack is a list as long as its count, no node is in two of them,
\* and together they hold what was pushed and not popped: stack_cae is enough,
\* although push and pop work from descriptors that were read torn.
THEOREM StacksStayWhole == Spec => []StacksWhole
<1>1. Init => TypeOK /\ Counted /\ StacksWhole
  BY InitTypeOK, InitWhole
<1>2. TypeOK /\ Counted /\ StacksWhole /\ [Next]_vars => (TypeOK /\ Counted /\ StacksWhole)'
  BY NextTypeOK, NextWhole
<1> QED
  BY <1>1, <1>2, PTL DEF Spec

-----------------------------------------------------------------------------
(***************************************************************************)
(* An empty round proves that the stack was empty.  What a round has seen  *)
(* empty holds none of the items that were there when the pop began, and   *)
(* never will again: nodes are not reused, and new ones are not among      *)
(* them.  That the window moves, or that its version comes round, does not *)
(* matter.                                                                 *)
(***************************************************************************)
\* The indices that h linear hops ending at index i have left behind.
Visited(i, h) ==
    {j \in Index : (j < i /\ j >= i - h) \/ (j >= i /\ j >= Width + i - h)}

\* None of the items the pop of t began with is left in sub-stack i.
Clean(t, i) == present[t] \cap Below[set_array[i].node] = {}

RoundInv(t) ==
    /\ present[t] \subseteq 1 .. Len(next)
    /\ hops[t] > 0 => random[t] = RandomHops
    /\ pc[t] \in {"get_reread", "get_check"} /\ descriptor[t].count = 0
          => Clean(t, thread_index[t])
    /\ pc[t] \in GetScanning /\ empty[t] = 1
          => \A j \in Visited(thread_index[t], hops[t]) : Clean(t, j)

EmptyInv == \A t \in Threads : RoundInv(t)

\* A linear hop leaves one more index behind, and a whole round all of them.
LEMMA VisitedRound ==
    ASSUME NEW i \in Index, NEW h \in 0 .. Width
    PROVE  /\ Visited(i, 0) = {}
           /\ Visited(i, h) \subseteq Index
           /\ h < Width => Visited(NextIndex(i), h + 1) \subseteq Visited(i, h) \cup {i}
           /\ Visited(i, Width) = Index
<1> USE WidthAssumption DEF Visited, Index
<1>1. Visited(i, 0) = {}
  OBVIOUS
<1>2. ASSUME h < Width, NEW j \in Visited(NextIndex(i), h + 1)
      PROVE  j \in Visited(i, h) \cup {i}
  BY <1>2 DEF NextIndex
<1>3. Visited(i, Width) = Index
  OBVIOUS
<1> QED
  BY <1>1, <1>2, <1>3

\* A sub-stack that is clean stays so.
LEMMA CleanKept ==
    ASSUME TypeOK, Counted, StacksWhole, [Next]_vars, NEW t \in Threads, NEW i \in Index,
           present[t] \subseteq 1 .. Len(next), present'[t] = present[t], Clean(t, i)
    PROVE  Clean(t, i)'
<1>0. set_array[i].node \in 0 .. Len(next)
  BY BelowFacts
<1>1. CASE UNCHANGED <<set_array, next, linear_clone>>
  BY <1>1, WholeUnchanged DEF Clean
<1>2. ASSUME NEW u \in Threads, PushCAE(u) PROVE Clean(t, i)'
  <2>1. CASE i = thread_index[u]
    <3>1. Below'[set_array'[i].node] = {NextStamp} \cup Below[set_array[i].node]
      BY <1>2, <2>1, PushLists
    <3>2. NextStamp \notin present[t]
      BY BelowFacts DEF NextStamp
    <3> QED
      BY <3>1, <3>2 DEF Clean
  <2>2. CASE i # thread_index[u]
    <3>1. Below'[set_array'[i].node] = Below[set_array[i].node]
      BY <1>0, <1>2, <2>2, PushLists
    <3> QED
      BY <3>1 DEF Clean
  <2> QED
    BY <2>1, <2>2
<1>3. ASSUME NEW u \in Threads, PopCAE(u) PROVE Clean(t, i)'
  <2>1. Below'[set_array'[i].node] \subseteq Below[set_array[i].node]
    BY <1>3, PopLists
  <2> QED
    BY <2>1 DEF Clean
<1> QED
  BY <1>1, <1>2, <1>3, ListSteps

\* Nodes are only added.
LEMMA NodesAdded ==
    ASSUME TypeOK, Counted, [Next]_vars
    PROVE  1 .. Len(next) \subseteq 1 .. Len(next')
<1>1. next \in Seq(Nat)
  BY DEF TypeOK
<1>2. next' = next \/ \E n \in Nat : next' = Append(next, n)
  BY ListSteps DEF PushCAE, PopCAE, TypeOK, Descriptor
<1>3. Len(next') = Len(next) \/ Len(next') = Len(next) + 1
  BY <1>1, <1>2
<1> QED
  BY <1>1, <1>3

\* A step changes one thread's variables only.
LEMMA OtherRound ==
    ASSUME TypeOK, NEW t \in Threads, NEW u \in Threads, u # t, ThreadStep(t)
    PROVE  /\ pc'[u] = pc[u] /\ empty'[u] = empty[u] /\ hops'[u] = hops[u]
           /\ random'[u] = random[u] /\ thread_index'[u] = thread_index[u]
           /\ descriptor'[u] = descriptor[u] /\ present'[u] = present[u]
<1> USE DEF TypeOK, Goto
<1>1. CASE PutWindow(t) /\ UNCHANGED stackVars
  BY <1>1 DEF PutWindow, PutEnter, PutRead, PutReread, PutSync, PutReturn, PutHop,
              PutExhausted, PutShift, Enter, ResetSearch, MaybeRandomIndex, Read, Reread,
              Sync, Return, Hop, RandomHop, LinearHop, search, stackVars
<1>2. CASE GetWindow(t) /\ UNCHANGED stackVars
  BY <1>2 DEF GetWindow, GetEnter, GetRead, GetReread, GetSync, GetReturn, GetHop,
              GetExhausted, GetEmpty, GetShift, Enter, ResetSearch, MaybeRandomIndex, Read,
              Reread, Sync, Return, Hop, RandomHop, LinearHop, search, stackVars
<1>3. CASE Push(t)
  BY <1>3 DEF Push, PushCall, PushCAE, PushFails, Call, Leave, Contended,
              windowVars, stackVars, search
<1>4. CASE Pop(t)
  BY <1>4 DEF Pop, PopCall, PopEmpty, PopCAE, PopFails, Call, Leave, Contended,
              windowVars, stackVars, search
<1> QED
  BY <1>1, <1>2, <1>3, <1>4 DEF ThreadStep, WindowStep

\* Linear hops, the ones that count, come after the random ones.
LEMMA HopsAfterRandom ==
    ASSUME TypeOK, NEW t \in Threads, hops[t] > 0 => random[t] = RandomHops, Hop(t)
    PROVE  /\ hops'[t] > 0 => random'[t] = RandomHops
           /\ \/ hops'[t] = 0
              \/ hops'[t] = hops[t] + 1 /\ thread_index'[t] = NextIndex(thread_index[t])
<1> USE DEF TypeOK
<1>1. CASE RandomHop(t)
  BY <1>1, RandomHopsAssumption, WidthAssumption DEF RandomHop
<1>2. CASE LinearHop(t)
  BY <1>2, RandomHopsAssumption, WidthAssumption DEF LinearHop
<1> QED
  BY <1>1, <1>2 DEF Hop

\* get_window: only what was read empty counts for the round.
LEMMA GetWindowRound ==
    ASSUME TypeOK, Counted, StacksWhole, [Next]_vars, NEW t \in Threads, RoundInv(t),
           GetWindow(t), UNCHANGED stackVars
    PROVE  RoundInv(t)'
<1>0. /\ thread_index[t] \in Index /\ hops[t] \in 0 .. Width /\ empty[t] \in {0, 1}
      /\ thread_index'[t] \in Index /\ hops'[t] \in 0 .. Width
      /\ descriptor[t].count \in Nat /\ set_array \in [Index -> Descriptor]
  <2>1. TypeOK'
    BY NextTypeOK
  <2> QED
    BY <2>1 DEF TypeOK, Descriptor
<1>1. present'[t] \subseteq 1 .. Len(next') /\ present'[t] = present[t]
  BY NodesAdded DEF RoundInv, stackVars
<1>2. \A j \in Index : Clean(t, j) => Clean(t, j)'
  BY <1>1, CleanKept DEF RoundInv
<1>3. \A i \in Index : Visited(i, 0) = {} /\ Visited(i, hops[t]) \subseteq Index
  BY <1>0, VisitedRound, WidthAssumption
<1> USE DEF Goto, GetScanning
<1>4. CASE GetEnter(t)
  <2>1. pc'[t] = "get_read" /\ hops'[t] = 0
    BY <1>4 DEF GetEnter, Enter, ResetSearch, TypeOK
  <2> QED
    BY <2>1, <1>0, <1>1, <1>3 DEF RoundInv
<1>5. CASE GetRead(t)
  <2>1. /\ pc[t] = "get_read" /\ pc'[t] = "get_reread"
        /\ UNCHANGED <<thread_index, hops, random, empty>>
        /\ descriptor'[t] = set_array[thread_index[t]]
    BY <1>5 DEF GetRead, Read, search, TypeOK
  <2>2. descriptor'[t].count = 0 => Clean(t, thread_index[t])
    <3> SUFFICES ASSUME set_array[thread_index[t]].count = 0
                 PROVE  Below[set_array[thread_index[t]].node] = {}
      BY <2>1 DEF Clean
    <3>1. IsFiniteSet(Below[set_array[thread_index[t]].node])
      BY <1>0, BelowFacts
    <3>2. Cardinality(Below[set_array[thread_index[t]].node]) = 0
      BY <1>0 DEF StacksWhole
    <3> QED
      BY <3>1, <3>2, FS_EmptySet
  <2> QED
    BY <2>1, <2>2, <1>0, <1>1, <1>2, <1>3 DEF RoundInv
<1>6. CASE GetReread(t)
  <2>1. /\ pc[t] = "get_reread" /\ pc'[t] = "get_check"
        /\ UNCHANGED <<thread_index, hops, random, empty>>
    BY <1>6 DEF GetReread, Reread, search, TypeOK
  <2>2. descriptor'[t].count \in {descriptor[t].count, set_array[thread_index[t]].count}
    <3>1. PICK order \in ReadOrders :
             descriptor' = [descriptor EXCEPT ![t] =
                SecondLoad(order, descriptor[t], set_array[thread_index[t]])]
      BY <1>6 DEF GetReread, Reread
    <3>2. descriptor'[t] = SecondLoad(order, descriptor[t], set_array[thread_index[t]])
      BY <3>1 DEF TypeOK
    <3>3. descriptor[t] \in Descriptor /\ set_array[thread_index[t]] \in Descriptor
      BY <1>0 DEF TypeOK
    <3> QED
      BY <3>2, <3>3, Zenon DEF SecondLoad, Descriptor
  <2>3. set_array[thread_index[t]].count = 0 => Clean(t, thread_index[t])
    <3> SUFFICES ASSUME set_array[thread_index[t]].count = 0
                 PROVE  Below[set_array[thread_index[t]].node] = {}
      BY DEF Clean
    <3>1. IsFiniteSet(Below[set_array[thread_index[t]].node])
      BY <1>0, BelowFacts
    <3>2. Cardinality(Below[set_array[thread_index[t]].node]) = 0
      BY <1>0 DEF StacksWhole
    <3> QED
      BY <3>1, <3>2, FS_EmptySet
  <2>4. descriptor'[t].count = 0 => Clean(t, thread_index[t])
    BY <2>1, <2>2, <2>3 DEF RoundInv
  <2> QED
    BY <2>1, <2>4, <1>0, <1>1, <1>2, <1>3 DEF RoundInv
<1>7. CASE GetSync(t)
  <2>1. pc'[t] = "get_read" /\ hops'[t] = 0
    BY <1>7 DEF GetSync, Sync, TypeOK
  <2> QED
    BY <2>1, <1>0, <1>1, <1>3 DEF RoundInv
<1>8. CASE GetReturn(t) \/ GetEmpty(t)
  <2>1. pc'[t] = "get_return" /\ hops'[t] = 0
    BY <1>8 DEF GetReturn, GetEmpty, Return, ResetSearch, TypeOK
  <2> QED
    BY <2>1, <1>0, <1>1 DEF RoundInv
<1>9. CASE GetHop(t)
  <2>1. /\ pc[t] = "get_check" /\ pc'[t] = "get_read" /\ hops[t] # Width /\ Hop(t)
        /\ empty'[t] = IF descriptor[t].count > 0 THEN 0 ELSE empty[t]
    BY <1>9 DEF GetHop, TypeOK
  <2>2. /\ hops'[t] > 0 => random'[t] = RandomHops
        /\ \/ hops'[t] = 0
           \/ hops'[t] = hops[t] + 1 /\ thread_index'[t] = NextIndex(thread_index[t])
    BY <2>1, HopsAfterRandom DEF RoundInv
  <2>3. ASSUME empty'[t] = 1, NEW j \in Visited(thread_index'[t], hops'[t])
        PROVE  Clean(t, j)'
    <3>1. descriptor[t].count = 0 /\ empty[t] = 1
      BY <2>1, <2>3, <1>0
    <3>2. Clean(t, thread_index[t])
      BY <3>1, <2>1 DEF RoundInv
    <3>3. \A k \in Visited(thread_index[t], hops[t]) : Clean(t, k)
      BY <3>1, <2>1 DEF RoundInv
    <3>4. j \in Visited(thread_index[t], hops[t]) \cup {thread_index[t]}
      <4>1. hops[t] < Width
        BY <2>1, <1>0, WidthAssumption
      <4> QED
        BY <4>1, <2>2, <2>3, <1>0, <1>3, VisitedRound
    <3>5. j \in Index
      BY <3>4, <1>0, <1>3
    <3> QED
      BY <3>2, <3>3, <3>4, <3>5, <1>2
  <2> QED
    BY <2>1, <2>2, <2>3, <1>1 DEF RoundInv
<1>10. CASE GetExhausted(t)
  <2>1. pc'[t] = "get_shift" /\ UNCHANGED <<hops, random>>
    BY <1>10 DEF GetExhausted, search, TypeOK
  <2> QED
    BY <2>1, <1>1 DEF RoundInv
<1>11. CASE GetShift(t)
  <2>1. pc'[t] = "get_read" /\ hops'[t] = 0
    BY <1>11 DEF GetShift, TypeOK
  <2> QED
    BY <2>1, <1>0, <1>1, <1>3 DEF RoundInv
<1> QED
  BY <1>4, <1>5, <1>6, <1>7, <1>8, <1>9, <1>10, <1>11 DEF GetWindow

\* The other steps of a thread do not count for a round.
LEMMA OtherStepsRound ==
    ASSUME TypeOK, Counted, StacksWhole, [Next]_vars, NEW t \in Threads, RoundInv(t),
           (PutWindow(t) /\ UNCHANGED stackVars) \/ Push(t) \/ Pop(t)
    PROVE  RoundInv(t)'
<1>1. pc'[t] \notin GetScanning
  <2> USE DEF TypeOK, Goto, GetScanning
  <2>1. CASE PutWindow(t)
    BY <2>1 DEF PutWindow, PutEnter, PutRead, PutReread, PutSync, PutReturn, PutHop,
                PutExhausted, PutShift
  <2>2. CASE Push(t)
    BY <2>2 DEF Push, PushCall, PushCAE, PushFails, Call, Contended
  <2>3. CASE Pop(t)
    BY <2>3 DEF Pop, PopCall, PopEmpty, PopCAE, PopFails, Call, Contended
  <2> QED
    BY <2>1, <2>2, <2>3
<1>2. hops'[t] > 0 => random'[t] = RandomHops
  <2> USE DEF TypeOK, RoundInv
  <2>1. CASE PutHop(t)
    BY <2>1, HopsAfterRandom DEF PutHop
  <2>2. CASE PutEnter(t) \/ PutReturn(t) \/ PutSync(t) \/ PutShift(t)
    BY <2>2 DEF PutEnter, PutReturn, PutSync, PutShift, Enter, Return, Sync, ResetSearch
  <2>3. CASE PutRead(t) \/ PutReread(t) \/ PutExhausted(t)
    BY <2>3 DEF PutRead, PutReread, PutExhausted, Read, Reread, search
  <2>4. CASE Push(t)
    BY <2>4 DEF Push, PushCall, PushCAE, PushFails, Call, Leave, Contended, windowVars, search
  <2>5. CASE Pop(t)
    BY <2>5 DEF Pop, PopCall, PopEmpty, PopCAE, PopFails, Call, Leave, Contended,
                windowVars, search
  <2> QED
    BY <2>1, <2>2, <2>3, <2>4, <2>5 DEF PutWindow
<1>3. present'[t] \subseteq 1 .. Len(next')
  <2>1. present'[t] \in {present[t], linear_clone, {}}
    BY DEF TypeOK, stackVars, Push, PushCall, PushCAE, PushFails, Pop, PopCall, PopEmpty,
           PopCAE, PopFails, Call, Leave, Contended
  <2>2. linear_clone \subseteq 1 .. Len(next)
    <3> SUFFICES ASSUME NEW x \in linear_clone PROVE x \in 1 .. Len(next)
      OBVIOUS
    <3>1. PICK i \in Index : x \in Below[set_array[i].node]
      BY DEF StacksWhole
    <3>2. set_array[i].node \in 0 .. Len(next) /\ next \in Seq(Nat)
      BY BelowFacts
    <3>3. x \in 1 .. set_array[i].node
      BY <3>1, <3>2, BelowFacts
    <3> QED
      BY <3>2, <3>3
  <2> QED
    BY <2>1, <2>2, NodesAdded DEF RoundInv
<1> QED
  BY <1>1, <1>2, <1>3 DEF RoundInv, GetScanning

LEMMA NextEmptyInv ==
    ASSUME TypeOK, Counted, StacksWhole, EmptyInv, [Next]_vars
    PROVE  EmptyInv'
<1> SUFFICES ASSUME NEW u \in Threads PROVE RoundInv(u)'
  BY DEF EmptyInv
<1>0. RoundInv(u)
  BY DEF EmptyInv
<1>1. ASSUME /\ pc'[u] = pc[u] /\ empty'[u] = empty[u] /\ hops'[u] = hops[u]
             /\ random'[u] = random[u] /\ thread_index'[u] = thread_index[u]
             /\ descriptor'[u] = descriptor[u] /\ present'[u] = present[u]
      PROVE  RoundInv(u)'
  <2>1. \A j \in Index : Clean(u, j) => Clean(u, j)'
    BY <1>0, <1>1, CleanKept DEF RoundInv
  <2>2. thread_index[u] \in Index /\ Visited(thread_index[u], hops[u]) \subseteq Index
    BY DEF TypeOK, Visited
  <2> QED
    BY <2>1, <2>2, <1>0, <1>1, NodesAdded DEF RoundInv
<1>2. ASSUME NEW t \in Threads, ThreadStep(t), t # u PROVE RoundInv(u)'
  BY <1>1, <1>2, OtherRound
<1>3. CASE ThreadStep(u)
  BY <1>0, <1>3, GetWindowRound, OtherStepsRound DEF ThreadStep, WindowStep
<1>4. CASE UNCHANGED vars
  BY <1>1, <1>4 DEF vars, windowVars, stackVars, search
<1> QED
  BY <1>2, <1>3, <1>4 DEF Next, Finished

LEMMA InitEmptyInv == Init => EmptyInv
<1> SUFFICES ASSUME Init, NEW t \in Threads PROVE RoundInv(t)
  BY DEF EmptyInv
<1>1. pc[t] = "idle" /\ present[t] = {} /\ hops[t] = 0
  BY DEF Init, InitWindow
<1> QED
  BY <1>1 DEF RoundInv, GetScanning

\* A pop that reports the stack empty after a round is right: nothing that was
\* in the stack when it began is there any more.
THEOREM EmptyRoundsJustified == Spec => EmptyRoundJustified
<1>1. Init => TypeOK /\ Counted /\ StacksWhole /\ EmptyInv
  BY InitTypeOK, InitWhole, InitEmptyInv
<1>2. TypeOK /\ Counted /\ StacksWhole /\ EmptyInv /\ [Next]_vars
         => (TypeOK /\ Counted /\ StacksWhole /\ EmptyInv)'
  BY NextTypeOK, NextWhole, NextEmptyInv
<1>3. TypeOK /\ StacksWhole /\ EmptyInv
         => \A t \in Threads : GetEmpty(t) => present[t] \cap linear_clone = {}
  <2> SUFFICES ASSUME TypeOK, StacksWhole, EmptyInv, NEW t \in Threads, GetEmpty(t),
                      NEW x \in present[t], x \in linear_clone
               PROVE  FALSE
    OBVIOUS
  <2>1. pc[t] \in GetScanning /\ hops[t] = Width /\ empty[t] = 1
    BY DEF GetEmpty, Goto, GetScanning
  <2>2. thread_index[t] \in Index /\ Width \in 0 .. Width
    BY WidthAssumption DEF TypeOK
  <2>3. Visited(thread_index[t], hops[t]) = Index
    BY <2>1, <2>2, VisitedRound
  <2>4. \A i \in Index : Clean(t, i)
    BY <2>1, <2>3 DEF EmptyInv, RoundInv
  <2>5. PICK i \in Index : x \in Below[set_array[i].node]
    BY DEF StacksWhole
  <2> QED
    BY <2>4, <2>5 DEF Clean
<1>4. TypeOK /\ StacksWhole /\ EmptyInv /\ [Next]_vars
         => [\A t \in Threads : GetEmpty(t) => present[t] \cap linear_clone = {}]_vars
  BY <1>3
<1> QED
  BY <1>1, <1>2, <1>4, PTL DEF Spec, EmptyRoundJustified

-----------------------------------------------------------------------------
(***************************************************************************)
(* The window bounds the sub-stacks from above.  A push that returned from *)
(* put_window is live while its node is still in its sub-stack: only then  *)
(* can its compare-exchange succeed, now or later.  A popper that shifts   *)
(* the window down has seen every sub-stack below the window, so that all  *)
(* live pushes fit under the window it shifts; pushes that are checked     *)
(* after its visit fit because the version has not changed.  What a push   *)
(* was checked against can therefore be one shift above the window, and    *)
(* not more.                                                               *)
(***************************************************************************)
\* The compare-exchange of the push of t can still succeed.
Live(t) ==
    /\ pc[t] = "put_return"
    /\ descriptor[t].node \in Below[set_array[thread_index[t]].node] \cup {NULL}
    /\ descriptor[t].count = Cardinality(Below[descriptor[t].node])

\* Sub-stack i is not above the window, and no live push will lift it above.
Low(i) ==
    /\ set_array[i].count <= global_Window.max
    /\ \A t \in Threads :
          Live(t) /\ thread_index[t] = i => descriptor[t].count < global_Window.max

\* What a thread's copy of the window tells about the window.
VersionOf(t) ==
    /\ thread_Window[t].version <= global_Window.version
    /\ InSync(t) => thread_Window[t] = global_Window

\* What a round of get_window has found out about the sub-stacks it has seen.
LowRound(t) ==
    InSync(t) =>
        /\ pc[t] \in {"get_reread", "get_check"} /\ ~InWindow(t) => Low(thread_index[t])
        /\ pc[t] \in GetScanning => \A j \in Visited(thread_index[t], hops[t]) : Low(j)
        /\ pc[t] = "get_shift" => \A j \in Index : Low(j)

CeilingInv ==
    /\ global_Window.version < VersionModulus
    /\ WindowCeiling
    /\ \A t \in Threads :
          /\ VersionOf(t)
          /\ descriptor[t].node \in 0 .. Len(next)
          /\ Live(t) => descriptor[t].count < global_Window.max + Shift
          /\ LowRound(t)

\* The version has not wrapped around.
VersionGrows == [][global_Window'.version >= global_Window.version]_vars

\* A node's list is part of the list of every node above it.
LEMMA BelowTransitive ==
    ASSUME TypeOK, Counted, NEW m \in 0 .. Len(next), NEW n \in Below[m]
    PROVE  n \in 1 .. Len(next) /\ Below[n] \subseteq Below[m]
<1>1. /\ next \in Seq(Nat) /\ Below[0] = {}
      /\ \A k \in 1 .. Len(next) : /\ next[k] \in 0 .. k - 1
                                   /\ Below[k] = {k} \cup Below[next[k]]
      /\ \A k \in 0 .. Len(next) : Below[k] \subseteq 1 .. k
  BY BelowFacts
<1> DEFINE T == {k \in 0 .. Len(next) : ~ \A x \in Below[k] : Below[x] \subseteq Below[k]}
<1>2. n \in 1 .. Len(next)
  BY <1>1
<1>3. ASSUME T # {} PROVE FALSE
  <2>1. PICK k \in T : \A y \in T : k <= y
    <3>1. T \subseteq Nat
      OBVIOUS
    <3> HIDE DEF T
    <3> QED
      BY <3>1, <1>3, SmallestElement
  <2>a. k \in 0 .. Len(next) /\ ~ \A x \in Below[k] : Below[x] \subseteq Below[k]
    OBVIOUS
  <2>b. \A y \in 0 .. Len(next) : y < k => \A x \in Below[y] : Below[x] \subseteq Below[y]
    BY <2>1, <2>a
  <2> HIDE DEF T
  <2>2. k # 0
    BY <2>a, <1>1
  <2>3. k \in 1 .. Len(next) /\ next[k] \in 0 .. Len(next) /\ next[k] < k
    BY <2>a, <2>2, <1>1
  <2>4. Below[k] = {k} \cup Below[next[k]]
    BY <2>3, <1>1
  <2>5. \A x \in Below[next[k]] : Below[x] \subseteq Below[next[k]]
    BY <2>3, <2>b
  <2> QED
    BY <2>a, <2>4, <2>5
<1>4. m \notin T
  BY <1>3
<1> QED
  BY <1>2, <1>4

\* The list of a live push is not longer than its sub-stack.
LEMMA LiveCount ==
    ASSUME TypeOK, Counted, StacksWhole, NEW t \in Threads, Live(t)
    PROVE  descriptor[t].count <= set_array[thread_index[t]].count
<1> DEFINE i == thread_index[t]
           m == set_array[i].node
           n == descriptor[t].node
<1>1. i \in Index /\ m \in 0 .. Len(next)
  BY BelowFacts DEF TypeOK
<1>2. IsFiniteSet(Below[m]) /\ Below[0] = {}
  BY <1>1, BelowFacts
<1>3. set_array[i].count = Cardinality(Below[m]) /\ descriptor[t].count = Cardinality(Below[n])
  BY <1>1 DEF StacksWhole, Live
<1>4. Below[n] \subseteq Below[m]
  <2>1. n \in Below[m] \cup {0}
    BY DEF Live, NULL
  <2> HIDE DEF n, m
  <2>2. CASE n = 0
    BY <2>2, <1>2
  <2>3. CASE n \in Below[m]
    BY <2>3, <1>1, BelowTransitive
  <2> QED
    BY <2>1, <2>2, <2>3
<1>5. Cardinality(Below[n]) <= Cardinality(Below[m])
  BY <1>2, <1>4, FS_Subset
<1> QED
  BY <1>3, <1>5

\* A push whose compare-exchange succeeds is live.
LEMMA UnchangedLive ==
    ASSUME TypeOK, Counted, StacksWhole, NEW t \in Threads, pc[t] = "put_return", Unchanged(t)
    PROVE  Live(t)
<1> DEFINE i == thread_index[t]
<1>1. i \in Index /\ set_array[i] = descriptor[t]
  BY DEF TypeOK, Unchanged
<1>2. descriptor[t].node \in 0 .. Len(next)
  BY <1>1, BelowFacts
<1>3. descriptor[t].node \in Below[descriptor[t].node] \cup {0}
  BY <1>2, BelowFacts
<1>4. descriptor[t].count = Cardinality(Below[descriptor[t].node])
  BY <1>1 DEF StacksWhole
<1> QED
  BY <1>1, <1>3, <1>4 DEF Live, NULL

\* No step makes a push live that was not, except the return from put_window.
LEMMA LiveBefore ==
    ASSUME TypeOK, Counted, StacksWhole, [Next]_vars, NEW u \in Threads,
           descriptor[u].node \in 0 .. Len(next),
           pc[u] = "put_return", descriptor'[u] = descriptor[u],
           thread_index'[u] = thread_index[u], Live(u)'
    PROVE  Live(u)
<1> DEFINE i == thread_index[u]
           d == descriptor[u]
<1>1. /\ d.node \in Below'[set_array'[i].node] \cup {0}
      /\ d.count = Cardinality(Below'[d.node])
  BY DEF Live, NULL
<1>2. i \in Index /\ set_array[i].node \in 0 .. Len(next)
  BY BelowFacts DEF TypeOK
<1>3. ASSUME Below'[d.node] = Below[d.node],
             d.node \in Below'[set_array'[i].node] => d.node \in Below[set_array[i].node]
      PROVE  Live(u)
  BY <1>1, <1>3 DEF Live, NULL
<1>4. CASE UNCHANGED <<set_array, next, linear_clone>>
  BY <1>3, <1>4, WholeUnchanged
<1>5. ASSUME NEW t \in Threads, PushCAE(t) PROVE Live(u)
  <2>1. Below'[d.node] = Below[d.node]
    BY <1>5, PushLists
  <2>2. CASE i = thread_index[t]
    <3>1. Below'[set_array'[i].node] = {NextStamp} \cup Below[set_array[i].node]
      BY <1>5, <2>2, PushLists
    <3>2. d.node # NextStamp
      BY BelowFacts DEF NextStamp
    <3> QED
      BY <3>1, <3>2, <2>1, <1>3
  <2>3. CASE i # thread_index[t]
    <3>1. Below'[set_array'[i].node] = Below[set_array[i].node]
      BY <1>2, <1>5, <2>3, PushLists
    <3> QED
      BY <3>1, <2>1, <1>3
  <2> QED
    BY <2>2, <2>3
<1>6. ASSUME NEW t \in Threads, PopCAE(t) PROVE Live(u)
  <2>1. Below' = Below
    BY <1>6, PopLists
  <2>2. Below'[set_array'[i].node] \subseteq Below[set_array[i].node]
    BY <1>2, <1>6, PopLists
  <2> QED
    BY <2>1, <2>2, <1>3
<1> QED
  BY <1>4, <1>5, <1>6, ListSteps

\* A version that has not wrapped around is one more after a shift.
LEMMA NewerVersion ==
    ASSUME NEW w \in Window, NEW n \in Int, w.version < VersionModulus,
           ShiftedBy(w, n).version >= w.version
    PROVE  /\ ShiftedBy(w, n).version = w.version + 1
           /\ w.version + 1 < VersionModulus
           /\ ShiftedBy(w, n).max = w.max + n
<1> DEFINE v == w.version
           M == VersionModulus
<1>1. v \in Nat /\ M \in Nat /\ M > 1 /\ v < M
  BY VersionAssumption DEF Window
<1>2. (v + 1) % M >= v /\ ShiftedBy(w, n).version = (v + 1) % M /\ ShiftedBy(w, n).max = w.max + n
  BY DEF ShiftedBy
<1> HIDE DEF v, M
<1>3. CASE v + 1 < M
  <2>1. (v + 1) % M = v + 1
    BY <1>1, <1>3
  <2> QED
    BY <2>1, <1>2, <1>3 DEF v, M
<1>4. CASE v + 1 = M
  <2>1. M % M = 0
    BY <1>1
  <2> QED
    BY <2>1, <1>1, <1>2, <1>4
<1> QED
  BY <1>1, <1>3, <1>4

\* The window changes only by the compare-exchange of a thread that holds it.
LEMMA WindowChange ==
    ASSUME TypeOK, [Next]_vars, global_Window' # global_Window
    PROVE  /\ UNCHANGED <<set_array, next, linear_clone, descriptor, thread_index>>
           /\ \E t \in Threads :
                 /\ global_Window = thread_Window[t]
                 /\ \/ pc[t] = "put_shift" /\ global_Window' = ShiftedBy(global_Window, Shift)
                    \/ pc[t] = "get_shift" /\ global_Window' = ShiftedBy(global_Window, -Shift)
<1>1. PICK t \in Threads : ThreadStep(t)
  BY DEF Next, Finished, vars, windowVars
<1>2. PutShift(t) \/ GetShift(t)
  BY <1>1 DEF ThreadStep, WindowStep, Push, PushCall, PushCAE, PushFails, Pop, PopCall,
     PopEmpty, PopCAE, PopFails, Call, Leave, Contended, windowVars, PutWindow, GetWindow,
     PutEnter, PutRead, PutReread, PutSync, PutReturn, PutHop, PutExhausted, GetEnter,
     GetRead, GetReread, GetSync, GetReturn, GetHop, GetExhausted, GetEmpty, Enter, Read,
     Reread, Sync, Return
<1>3. UNCHANGED <<set_array, descriptor, thread_index>>
  BY <1>2 DEF PutShift, GetShift
<1>4. UNCHANGED <<next, linear_clone>>
  BY <1>1, <1>2 DEF ThreadStep, WindowStep, stackVars, Push, PushCall, PushCAE, PushFails,
     Pop, PopCall, PopEmpty, PopCAE, PopFails, Call, Contended, Goto, PutShift, GetShift
<1>5. CASE PutShift(t)
  BY <1>3, <1>4, <1>5 DEF PutShift, TryShift, Goto
<1>6. CASE GetShift(t)
  BY <1>3, <1>4, <1>6 DEF GetShift, TryShift, Goto
<1> QED
  BY <1>2, <1>5, <1>6

\* A thread keeps its copy of the window or has the new one.
LEMMA ThreadWindowStep ==
    ASSUME TypeOK, [Next]_vars, NEW u \in Threads
    PROVE  \/ thread_Window'[u] = thread_Window[u]
           \/ thread_Window'[u] = global_Window'
<1>1. ASSUME NEW t \in Threads, ThreadStep(t), t # u PROVE thread_Window'[u] = thread_Window[u]
  BY <1>1, OneThread
<1>2. CASE WindowStep(u)
  <2> USE DEF TypeOK
  <2>1. CASE PutWindow(u)
    BY <2>1 DEF PutWindow, PutEnter, PutRead, PutReread, PutSync, PutReturn, PutHop,
                PutExhausted, PutShift, Enter, Read, Reread, Sync, Return, TryShift
  <2>2. CASE GetWindow(u)
    BY <2>2 DEF GetWindow, GetEnter, GetRead, GetReread, GetSync, GetReturn, GetHop,
                GetExhausted, GetEmpty, GetShift, Enter, Read, Reread, Sync, Return, TryShift
  <2> QED
    BY <1>2, <2>1, <2>2 DEF WindowStep
<1>3. CASE Push(u) \/ Pop(u)
  BY <1>3 DEF Push, PushCall, PushCAE, PushFails, Pop, PopCall, PopEmpty, PopCAE, PopFails,
     Call, Leave, Contended, windowVars
<1>4. CASE UNCHANGED vars
  BY <1>4 DEF vars, windowVars
<1> QED
  BY <1>1, <1>2, <1>3, <1>4 DEF Next, Finished, ThreadStep

\* Without a wrap, versions grow and tell windows apart.
LEMMA NextVersion ==
    ASSUME TypeOK, [Next]_vars, global_Window.version < VersionModulus,
           global_Window'.version >= global_Window.version,
           NEW u \in Threads, VersionOf(u)
    PROVE  /\ (global_Window.version < VersionModulus)' /\ VersionOf(u)'
           /\ InSync(u)' => thread_Window'[u] = global_Window'
           /\ InSync(u)' /\ thread_Window'[u] = thread_Window[u]
                 => InSync(u) /\ global_Window' = global_Window
<1>1. global_Window \in Window /\ global_Window.version \in Nat
      /\ thread_Window[u].version \in Nat
  BY DEF TypeOK, Window
<1>2. CASE global_Window' = global_Window
  BY <1>1, <1>2, ThreadWindowStep DEF VersionOf, InSync
<1>3. CASE global_Window' # global_Window
  <2>1. \/ global_Window' = ShiftedBy(global_Window, Shift)
        \/ global_Window' = ShiftedBy(global_Window, -Shift)
    BY <1>3, WindowChange
  <2>2. Shift \in Int /\ -Shift \in Int
    BY ShiftType
  <2>3. global_Window'.version = global_Window.version + 1
        /\ global_Window.version + 1 < VersionModulus
    BY <1>1, <2>1, <2>2, NewerVersion
  <2>4. thread_Window[u].version <= global_Window.version
    BY DEF VersionOf
  <2>5. CASE thread_Window'[u] = thread_Window[u]
    BY <1>1, <2>3, <2>4, <2>5 DEF VersionOf, InSync
  <2>6. CASE thread_Window'[u] = global_Window' /\ thread_Window'[u] # thread_Window[u]
    BY <1>1, <2>3, <2>6 DEF VersionOf, InSync
  <2> QED
    BY <2>5, <2>6, ThreadWindowStep
<1> QED
  BY <1>2, <1>3

\* A live push was live before, or has just been checked against the window.
LEMMA LiveStep ==
    ASSUME TypeOK, Counted, StacksWhole, [Next]_vars, NEW u \in Threads, VersionOf(u),
           descriptor[u].node \in 0 .. Len(next), Live(u)'
    PROVE  \/ /\ Live(u) /\ descriptor'[u] = descriptor[u]
              /\ thread_index'[u] = thread_index[u]
           \/ /\ global_Window' = global_Window
              /\ descriptor'[u].count < global_Window.max
<1>1. pc'[u] = "put_return"
  BY DEF Live
<1>2. ASSUME pc[u] = "put_return", descriptor'[u] = descriptor[u],
             thread_index'[u] = thread_index[u]
      PROVE  Live(u)
  BY <1>2, LiveBefore
<1>3. ASSUME NEW t \in Threads, ThreadStep(t), t # u
      PROVE  /\ pc[u] = "put_return" /\ descriptor'[u] = descriptor[u]
             /\ thread_index'[u] = thread_index[u]
  BY <1>1, <1>3, OtherRound
<1>4. CASE UNCHANGED vars
  BY <1>1, <1>2, <1>4 DEF vars, windowVars
<1>5. CASE ThreadStep(u)
  <2>1. PutReturn(u)
    <3> USE DEF TypeOK, Goto
    <3>1. CASE PutWindow(u)
      BY <1>1, <3>1 DEF PutWindow, PutEnter, PutRead, PutReread, PutSync, PutReturn, PutHop,
                PutExhausted, PutShift
    <3>2. CASE GetWindow(u)
      BY <1>1, <3>2 DEF GetWindow, GetEnter, GetRead, GetReread, GetSync, GetReturn, GetHop,
                GetExhausted, GetEmpty, GetShift
    <3>3. CASE Push(u)
      BY <1>1, <3>3 DEF Push, PushCall, PushCAE, PushFails, Call, Contended
    <3>4. CASE Pop(u)
      BY <1>1, <3>4 DEF Pop, PopCall, PopEmpty, PopCAE, PopFails, Call, Contended
    <3> QED
      BY <1>5, <3>1, <3>2, <3>3, <3>4 DEF ThreadStep, WindowStep
  <2>2. global_Window' = global_Window /\ descriptor' = descriptor /\ InSync(u) /\ HasRoom(u)
    BY <2>1 DEF PutReturn, Return
  <2> QED
    BY <2>2 DEF VersionOf, HasRoom
<1> QED
  BY <1>2, <1>3, <1>4, <1>5 DEF Next, Finished

\* A sub-stack that is seen below the window is low.
LEMMA LowSeen ==
    ASSUME TypeOK, Counted, StacksWhole, NEW i \in Index,
           set_array[i].count + Depth <= global_Window.max
    PROVE  Low(i)
<1>1. set_array[i].count \in Nat /\ global_Window.max \in Nat
  BY DEF TypeOK, Descriptor, Window
<1>2. ASSUME NEW t \in Threads, Live(t), thread_index[t] = i
      PROVE  descriptor[t].count < global_Window.max
  <2>1. descriptor[t].count <= set_array[i].count /\ descriptor[t].count \in Nat
    BY <1>2, LiveCount DEF TypeOK, Descriptor
  <2> QED
    BY <2>1, <1>1, DepthAssumption
<1> QED
  BY <1>1, <1>2, DepthAssumption DEF Low

\* It stays low while the window does not move.
LEMMA LowKept ==
    ASSUME TypeOK, Counted, StacksWhole, CeilingInv, [Next]_vars,
           global_Window' = global_Window, NEW i \in Index, Low(i)
    PROVE  Low(i)'
<1>1. global_Window.max \in Nat /\ set_array \in [Index -> Descriptor]
      /\ set_array[i].count \in Nat
  BY DEF TypeOK, Descriptor, Window
<1>2. ASSUME NEW u \in Threads, Live(u)', thread_index'[u] = i
      PROVE  descriptor'[u].count < global_Window'.max
  <2>1. VersionOf(u) /\ descriptor[u].node \in 0 .. Len(next)
    BY DEF CeilingInv
  <2> QED
    BY <1>2, <2>1, LiveStep DEF Low
<1>3. set_array'[i].count <= global_Window'.max
  <2>1. CASE UNCHANGED <<set_array, next, linear_clone>>
    BY <2>1 DEF Low
  <2>2. ASSUME NEW t \in Threads, PushCAE(t) PROVE set_array'[i].count <= global_Window'.max
    <3>1. CASE i # thread_index[t]
      BY <2>2, <3>1, PushLists DEF Low
    <3>2. CASE i = thread_index[t]
      <4>1. Live(t)
        BY <2>2, UnchangedLive DEF PushCAE, Goto
      <4>2. descriptor[t].count < global_Window.max /\ descriptor[t].count \in Nat
        BY <3>2, <4>1 DEF Low, TypeOK, Descriptor
      <4>3. set_array'[i].count = descriptor[t].count + 1
        BY <1>1, <2>2, <3>2 DEF PushCAE
      <4> QED
        BY <1>1, <4>2, <4>3
    <3> QED
      BY <3>1, <3>2
  <2>3. ASSUME NEW t \in Threads, PopCAE(t) PROVE set_array'[i].count <= global_Window'.max
    <3>1. CASE i # thread_index[t]
      BY <2>3, <3>1, PopLists DEF Low
    <3>2. CASE i = thread_index[t]
      <4>1. set_array'[i].count = set_array[i].count - 1
        BY <1>1, <2>3, <3>2 DEF PopCAE, Unchanged
      <4> QED
        BY <1>1, <4>1 DEF Low
    <3> QED
      BY <3>1, <3>2
  <2> QED
    BY <2>1, <2>2, <2>3, ListSteps
<1> QED
  BY <1>2, <1>3 DEF Low

\* The round of a thread that does not move.
LEMMA OtherLowRound ==
    ASSUME TypeOK, Counted, StacksWhole, CeilingInv, [Next]_vars,
           global_Window'.version >= global_Window.version, NEW u \in Threads,
           pc'[u] = pc[u], thread_Window'[u] = thread_Window[u], hops'[u] = hops[u],
           thread_index'[u] = thread_index[u], descriptor'[u] = descriptor[u]
    PROVE  LowRound(u)'
<1> SUFFICES ASSUME InSync(u)'
             PROVE  /\ pc[u] \in {"get_reread", "get_check"} /\ ~InWindow(u)'
                          => Low(thread_index[u])'
                    /\ pc[u] \in GetScanning
                          => \A j \in Visited(thread_index[u], hops[u]) : Low(j)'
                    /\ pc[u] = "get_shift" => \A j \in Index : Low(j)'
  BY DEF LowRound
<1>1. VersionOf(u) /\ LowRound(u) /\ global_Window.version < VersionModulus
  BY DEF CeilingInv
<1>2. InSync(u) /\ global_Window' = global_Window
  BY <1>1, NextVersion
<1>3. \A j \in Index : Low(j) => Low(j)'
  BY <1>2, LowKept
<1>4. thread_index[u] \in Index /\ Visited(thread_index[u], hops[u]) \subseteq Index
  BY DEF TypeOK, Visited
<1>5. InWindow(u)' <=> InWindow(u)
  BY DEF InWindow
<1> QED
  BY <1>1, <1>2, <1>3, <1>4, <1>5 DEF LowRound

\* The round of the thread in get_window: what it sees below the window is low.
LEMMA GetLowRound ==
    ASSUME TypeOK, Counted, StacksWhole, CeilingInv, [Next]_vars,
           global_Window'.version >= global_Window.version, NEW t \in Threads,
           RoundInv(t), GetWindow(t)
    PROVE  LowRound(t)'
<1>0. /\ thread_index[t] \in Index /\ hops[t] \in 0 .. Width /\ thread_index'[t] \in Index
      /\ set_array \in [Index -> Descriptor] /\ descriptor[t] \in Descriptor
  <2>1. TypeOK'
    BY NextTypeOK
  <2> QED
    BY <2>1 DEF TypeOK
<1>1. VersionOf(t) /\ LowRound(t)
  BY DEF CeilingInv
<1>2. global_Window' = global_Window => \A j \in Index : Low(j) => Low(j)'
  BY LowKept
<1>3. \A i \in Index : Visited(i, 0) = {} /\ Visited(i, hops[t]) \subseteq Index
  BY <1>0, VisitedRound, WidthAssumption
<1>4. ASSUME InSync(t), set_array[thread_index[t]].count + Depth <= thread_Window[t].max
      PROVE  Low(thread_index[t])
  BY <1>0, <1>1, <1>4, LowSeen DEF VersionOf
<1>5. set_array[thread_index[t]].count \in Nat /\ descriptor[t].count \in Nat
      /\ thread_Window[t].max \in Nat /\ Depth \in Nat
  BY <1>0, DepthAssumption DEF TypeOK, Descriptor, Window
<1> USE DEF Goto, GetScanning
<1>6. CASE GetEnter(t) \/ GetSync(t) \/ GetShift(t)
  <2>1. pc'[t] = "get_read" /\ hops'[t] = 0
    BY <1>6 DEF GetEnter, GetSync, GetShift, Enter, Sync, ResetSearch, TypeOK
  <2> QED
    BY <2>1, <1>0, <1>3 DEF LowRound
<1>7. CASE GetReturn(t) \/ GetEmpty(t)
  <2>1. pc'[t] = "get_return"
    BY <1>7 DEF GetReturn, GetEmpty, TypeOK
  <2> QED
    BY <2>1 DEF LowRound
<1>8. CASE GetRead(t)
  <2>1. /\ pc[t] = "get_read" /\ pc'[t] = "get_reread"
        /\ UNCHANGED <<thread_index, hops, global_Window, thread_Window>>
        /\ descriptor'[t] = set_array[thread_index[t]]
    BY <1>8 DEF GetRead, Read, search, TypeOK
  <2>2. InSync(t)' <=> InSync(t)
    BY <2>1 DEF InSync
  <2>3. ~InWindow(t)' => set_array[thread_index[t]].count + Depth <= thread_Window[t].max
    BY <2>1, <1>5 DEF InWindow
  <2> QED
    BY <2>1, <2>2, <2>3, <1>0, <1>1, <1>2, <1>3, <1>4 DEF LowRound
<1>9. CASE GetReread(t)
  <2>1. /\ pc[t] = "get_reread" /\ pc'[t] = "get_check"
        /\ UNCHANGED <<thread_index, hops, global_Window, thread_Window>>
    BY <1>9 DEF GetReread, Reread, search, TypeOK
  <2>2. InSync(t)' <=> InSync(t)
    BY <2>1 DEF InSync
  <2>3. descriptor'[t].count \in {descriptor[t].count, set_array[thread_index[t]].count}
    <3>1. PICK order \in ReadOrders :
             descriptor' = [descriptor EXCEPT ![t] =
                SecondLoad(order, descriptor[t], set_array[thread_index[t]])]
      BY <1>9 DEF GetReread, Reread
    <3>2. descriptor'[t] = SecondLoad(order, descriptor[t], set_array[thread_index[t]])
      BY <3>1 DEF TypeOK
    <3>3. set_array[thread_index[t]] \in Descriptor
      BY <1>0
    <3> QED
      BY <3>2, <3>3, <1>0, Zenon DEF SecondLoad, Descriptor
  <2>4. ~InWindow(t)' => ~InWindow(t)
           \/ set_array[thread_index[t]].count + Depth <= thread_Window[t].max
    BY <2>1, <2>3, <1>5 DEF InWindow
  <2> QED
    BY <2>1, <2>2, <2>4, <1>0, <1>1, <1>2, <1>3, <1>4 DEF LowRound
<1>10. CASE GetHop(t)
  <2>1. /\ pc[t] = "get_check" /\ pc'[t] = "get_read" /\ hops[t] # Width /\ Hop(t)
        /\ UNCHANGED <<global_Window, thread_Window>> /\ InSync(t) /\ ~InWindow(t)
    BY <1>10 DEF GetHop, TypeOK
  <2>2. \/ hops'[t] = 0
        \/ hops'[t] = hops[t] + 1 /\ thread_index'[t] = NextIndex(thread_index[t])
    BY <2>1, HopsAfterRandom DEF RoundInv
  <2>3. Visited(thread_index'[t], hops'[t])
           \subseteq Visited(thread_index[t], hops[t]) \cup {thread_index[t]}
    <3>1. hops[t] < Width
      BY <2>1, <1>0, WidthAssumption
    <3> QED
      BY <3>1, <2>2, <1>0, <1>3, VisitedRound
  <2>4. \A j \in Visited(thread_index[t], hops[t]) \cup {thread_index[t]} : Low(j) /\ j \in Index
    BY <2>1, <1>0, <1>1, <1>3 DEF LowRound
  <2>5. \A j \in Visited(thread_index'[t], hops'[t]) : Low(j)'
    BY <2>1, <2>3, <2>4, <1>2
  <2> QED
    BY <2>1, <2>5 DEF LowRound
<1>11. CASE GetExhausted(t)
  <2>1. /\ pc[t] = "get_check" /\ pc'[t] = "get_shift" /\ hops[t] = Width
        /\ UNCHANGED <<global_Window, thread_Window>> /\ InSync(t)
    BY <1>11 DEF GetExhausted, TypeOK
  <2>2. Visited(thread_index[t], hops[t]) = Index
    BY <2>1, <1>0, VisitedRound, WidthAssumption
  <2>3. \A j \in Index : Low(j)
    BY <2>1, <2>2, <1>1 DEF LowRound
  <2> QED
    BY <2>1, <2>3, <1>2 DEF LowRound
<1> QED
  BY <1>6, <1>7, <1>8, <1>9, <1>10, <1>11 DEF GetWindow

\* Every thread's round, and every node held, survive a step.
LEMMA NextLowRound ==
    ASSUME TypeOK, Counted, StacksWhole, EmptyInv, CeilingInv, [Next]_vars,
           global_Window'.version >= global_Window.version, NEW u \in Threads
    PROVE  LowRound(u)'
<1>0. RoundInv(u)
  BY DEF EmptyInv
<1>1. ASSUME NEW t \in Threads, ThreadStep(t), t # u PROVE LowRound(u)'
  <2>1. /\ pc'[u] = pc[u] /\ thread_Window'[u] = thread_Window[u] /\ hops'[u] = hops[u]
        /\ thread_index'[u] = thread_index[u] /\ descriptor'[u] = descriptor[u]
    BY <1>1, OneThread, OtherRound
  <2> QED
    BY <2>1, OtherLowRound
<1>2. CASE GetWindow(u)
  BY <1>0, <1>2, GetLowRound
<1>3. CASE PutWindow(u) \/ Push(u) \/ Pop(u)
  <2>1. pc'[u] \notin GetScanning \cup {"get_shift"}
    <3> USE DEF TypeOK, Goto, GetScanning
    <3>1. CASE PutWindow(u)
      BY <3>1 DEF PutWindow, PutEnter, PutRead, PutReread, PutSync, PutReturn, PutHop,
                  PutExhausted, PutShift
    <3>2. CASE Push(u)
      BY <3>2 DEF Push, PushCall, PushCAE, PushFails, Call, Contended
    <3>3. CASE Pop(u)
      BY <3>3 DEF Pop, PopCall, PopEmpty, PopCAE, PopFails, Call, Contended
    <3> QED
      BY <1>3, <3>1, <3>2, <3>3
  <2> QED
    BY <2>1 DEF LowRound, GetScanning
<1>4. CASE UNCHANGED vars
  <2>1. /\ pc'[u] = pc[u] /\ thread_Window'[u] = thread_Window[u] /\ hops'[u] = hops[u]
        /\ thread_index'[u] = thread_index[u] /\ descriptor'[u] = descriptor[u]
    BY <1>4 DEF vars, windowVars, search
  <2> QED
    BY <2>1, OtherLowRound
<1> QED
  BY <1>1, <1>2, <1>3, <1>4 DEF Next, Finished, ThreadStep, WindowStep

LEMMA NodesKnown ==
    ASSUME TypeOK, Counted, [Next]_vars, NEW u \in Threads, descriptor[u].node \in 0 .. Len(next)
    PROVE  descriptor'[u].node \in 0 .. Len(next')
<1>1. next \in Seq(Nat) /\ next' \in Seq(Nat) /\ Len(next) <= Len(next')
  <2>1. next \in Seq(Nat) /\ next' \in Seq(Nat)
    BY NextTypeOK DEF TypeOK
  <2>2. next' = next \/ \E n \in Nat : next' = Append(next, n)
    BY ListSteps DEF PushCAE, PopCAE, TypeOK, Descriptor
  <2> QED
    BY <2>1, <2>2
<1>2. descriptor'[u].node \in {descriptor[u].node, set_array[thread_index[u]].node, 0}
  <2>1. ASSUME NEW t \in Threads, ThreadStep(t), t # u PROVE descriptor'[u] = descriptor[u]
    BY <2>1, OtherRound
  <2>2. ASSUME Reread(u)
        PROVE  descriptor'[u].node \in {descriptor[u].node, set_array[thread_index[u]].node}
    <3>1. PICK order \in ReadOrders :
             descriptor' = [descriptor EXCEPT ![u] =
                SecondLoad(order, descriptor[u], set_array[thread_index[u]])]
      BY <2>2 DEF Reread
    <3>2. descriptor'[u] = SecondLoad(order, descriptor[u], set_array[thread_index[u]])
      BY <3>1 DEF TypeOK
    <3>3. descriptor[u] \in Descriptor /\ set_array[thread_index[u]] \in Descriptor
      BY DEF TypeOK
    <3> QED
      BY <3>2, <3>3, Zenon DEF SecondLoad, Descriptor
  <2>3. CASE PutWindow(u)
    BY <2>2, <2>3 DEF PutWindow, PutEnter, PutRead, PutReread, PutSync, PutReturn, PutHop,
                PutExhausted, PutShift, Enter, Read, Sync, Return, TypeOK
  <2>4. CASE GetWindow(u)
    BY <2>2, <2>4 DEF GetWindow, GetEnter, GetRead, GetReread, GetSync, GetReturn, GetHop,
                GetExhausted, GetEmpty, GetShift, Enter, Read, Sync, Return, TypeOK
  <2>5. CASE Push(u) \/ Pop(u)
    BY <2>5 DEF Push, PushCall, PushCAE, PushFails, Pop, PopCall, PopEmpty, PopCAE, PopFails,
       Call, Leave, Contended, windowVars, NoDescriptor, NULL, TypeOK
  <2>6. CASE UNCHANGED vars
    BY <2>6 DEF vars, windowVars
  <2> QED
    BY <2>1, <2>3, <2>4, <2>5, <2>6 DEF Next, Finished, ThreadStep, WindowStep
<1>3. set_array[thread_index[u]].node \in 0 .. Len(next)
  BY BelowFacts DEF TypeOK
<1>4. 0 .. Len(next) \subseteq 0 .. Len(next') /\ 0 \in 0 .. Len(next)
  BY <1>1
<1> QED
  BY <1>2, <1>3, <1>4

\* The sub-stacks and the live pushes stay within one shift of the window.
LEMMA NextCeiling ==
    ASSUME TypeOK, Counted, StacksWhole, CeilingInv, [Next]_vars,
           global_Window'.version >= global_Window.version
    PROVE  /\ WindowCeiling'
           /\ \A u \in Threads : Live(u)' => descriptor'[u].count < global_Window'.max + Shift
<1> DEFINE m == global_Window.max
           s == Shift
<1>1. m \in Nat /\ s \in Nat /\ s > 0 /\ set_array \in [Index -> Descriptor]
  BY ShiftType DEF TypeOK, Window
<1>2. \A i \in Index : set_array[i].count \in Nat /\ set_array[i].count <= m + s
  BY <1>1 DEF CeilingInv, WindowCeiling, Descriptor
<1>3. \A u \in Threads : /\ descriptor[u].count \in Nat /\ VersionOf(u)
                         /\ descriptor[u].node \in 0 .. Len(next)
                         /\ Live(u) => descriptor[u].count < m + s
  BY DEF CeilingInv, TypeOK, Descriptor
<1>4. CASE global_Window' = global_Window
  <2> DEFINE Bounded(i) == set_array'[i].count <= m + s
  <2>1. ASSUME NEW i \in Index PROVE Bounded(i)
    <3>1. CASE UNCHANGED <<set_array, next, linear_clone>>
      BY <3>1, <1>2
    <3>2. ASSUME NEW t \in Threads, PushCAE(t) PROVE Bounded(i)
      <4>1. CASE i # thread_index[t]
        BY <1>2, <3>2, <4>1, PushLists
      <4>2. CASE i = thread_index[t]
        <5>1. Live(t)
          BY <3>2, UnchangedLive DEF PushCAE, Goto
        <5>2. set_array'[i].count = descriptor[t].count + 1
          BY <1>1, <3>2, <4>2 DEF PushCAE
        <5> HIDE DEF s, m
        <5> QED
          BY <1>1, <1>3, <5>1, <5>2
      <4> QED
        BY <4>1, <4>2
    <3>3. ASSUME NEW t \in Threads, PopCAE(t) PROVE Bounded(i)
      <4>1. CASE i # thread_index[t]
        BY <1>2, <3>3, <4>1, PopLists
      <4>2. CASE i = thread_index[t]
        <5>1. set_array'[i].count = set_array[i].count - 1
          BY <1>1, <3>3, <4>2 DEF PopCAE, Unchanged
        <5> HIDE DEF s, m
        <5> QED
          BY <1>1, <1>2, <5>1
      <4> QED
        BY <4>1, <4>2
    <3> QED
      BY <3>1, <3>2, <3>3, ListSteps
  <2>2. ASSUME NEW u \in Threads, Live(u)' PROVE descriptor'[u].count < m + s
    <3>1. \/ Live(u) /\ descriptor'[u] = descriptor[u]
          \/ descriptor'[u].count < m
      BY <1>3, <2>2, LiveStep
    <3>2. CASE Live(u) /\ descriptor'[u] = descriptor[u]
      BY <1>3, <3>2
    <3>3. CASE descriptor'[u].count < m
      <4>1. descriptor'[u].count \in Nat
        BY NextTypeOK DEF TypeOK, Descriptor
      <4> HIDE DEF s, m
      <4> QED
        BY <1>1, <3>3, <4>1
    <3> QED
      BY <3>1, <3>2, <3>3
  <2> QED
    BY <1>4, <2>1, <2>2 DEF WindowCeiling
<1>5. CASE global_Window' # global_Window
  <2>1. UNCHANGED <<set_array, next, linear_clone, descriptor, thread_index>>
    BY <1>5, WindowChange
  <2>2. PICK t \in Threads :
          /\ global_Window = thread_Window[t]
          /\ \/ pc[t] = "put_shift" /\ global_Window' = ShiftedBy(global_Window, Shift)
             \/ pc[t] = "get_shift" /\ global_Window' = ShiftedBy(global_Window, -Shift)
    BY <1>5, WindowChange
  <2>3. \A u \in Threads : Live(u)' => Live(u)
    BY <1>3, <1>5, LiveStep
  <2>4. CASE global_Window'.max = m + s
    <3> HIDE DEF s, m
    <3>1. \A i \in Index : set_array'[i].count <= global_Window'.max + s
      BY <1>1, <1>2, <2>1, <2>4
    <3>2. \A u \in Threads : Live(u)' => descriptor'[u].count < global_Window'.max + s
      BY <1>1, <1>3, <2>1, <2>3, <2>4
    <3> QED
      BY <3>1, <3>2 DEF WindowCeiling, s
  <2>5. CASE pc[t] = "get_shift" /\ global_Window'.max = m - s
    <3>1. \A i \in Index : Low(i)
      BY <2>2, <2>5 DEF CeilingInv, LowRound, InSync
    <3>2. \A i \in Index : set_array[i].count <= m
      BY <3>1 DEF Low
    <3>3. ASSUME NEW u \in Threads, Live(u) PROVE descriptor[u].count < m
      BY <3>1, <3>3 DEF Low, TypeOK
    <3>4. global_Window'.max + s = m
      BY <1>1, <2>5
    <3> HIDE DEF s, m
    <3> QED
      BY <2>1, <2>3, <3>2, <3>3, <3>4 DEF WindowCeiling, s
  <2>6. global_Window'.max = m + s \/ (pc[t] = "get_shift" /\ global_Window'.max = m - s)
    BY <1>1, <2>2 DEF ShiftedBy
  <2> QED
    BY <2>4, <2>5, <2>6
<1> QED
  BY <1>4, <1>5

LEMMA NextCeilingInv ==
    ASSUME TypeOK, Counted, StacksWhole, EmptyInv, CeilingInv, [Next]_vars,
           global_Window'.version >= global_Window.version
    PROVE  CeilingInv'
<1>1. ASSUME NEW u \in Threads
      PROVE  /\ (global_Window.version < VersionModulus)'
             /\ VersionOf(u)' /\ LowRound(u)' /\ descriptor'[u].node \in 0 .. Len(next')
  BY NextVersion, NextLowRound, NodesKnown DEF CeilingInv
<1>2. (global_Window.version < VersionModulus)'
  <2>1. CASE global_Window' = global_Window
    BY <2>1 DEF CeilingInv
  <2>2. CASE global_Window' # global_Window
    BY <2>2, <1>1, WindowChange
  <2> QED
    BY <2>1, <2>2
<1> QED
  BY <1>1, <1>2, NextCeiling DEF CeilingInv

LEMMA InitCeilingInv == Init => CeilingInv
<1> SUFFICES ASSUME Init PROVE CeilingInv
  OBVIOUS
<1>1. /\ global_Window = [max |-> Depth, version |-> 1]
      /\ \A t \in Threads : /\ thread_Window[t] = [max |-> 0, version |-> 0]
                            /\ pc[t] = "idle" /\ descriptor[t] = NoDescriptor
      /\ \A i \in Index : set_array[i] = NoDescriptor
      /\ next = <<>>
  BY DEF Init, InitWindow
<1>2. WindowCeiling
  BY <1>1, DepthAssumption, ShiftType DEF WindowCeiling, NoDescriptor
<1>3. ASSUME NEW t \in Threads
      PROVE  VersionOf(t) /\ descriptor[t].node \in 0 .. Len(next) /\ ~Live(t) /\ LowRound(t)
  BY <1>1 DEF VersionOf, InSync, NoDescriptor, NULL, Live, LowRound
<1>4. global_Window.version < VersionModulus
  BY <1>1, VersionAssumption
<1> QED
  BY <1>2, <1>3, <1>4 DEF CeilingInv

\* Until the 64-bit version wraps around, a push that was checked against a
\* window that has moved down since leaves its sub-stack at most one shift above
\* the window, whatever the number of sleepers and of shifts.
THEOREM CeilingHolds == Spec /\ VersionGrows => []WindowCeiling
<1> DEFINE Inv == TypeOK /\ Counted /\ StacksWhole /\ EmptyInv /\ CeilingInv
<1>1. Init => Inv
  BY InitTypeOK, InitWhole, InitEmptyInv, InitCeilingInv
<1>2. Inv /\ [Next]_vars /\ [global_Window'.version >= global_Window.version]_vars => Inv'
  <2> SUFFICES ASSUME Inv, [Next]_vars, [global_Window'.version >= global_Window.version]_vars
               PROVE  Inv'
    OBVIOUS
  <2>1. global_Window'.version >= global_Window.version
    BY DEF vars, windowVars, TypeOK, Window
  <2> QED
    BY <2>1, NextTypeOK, NextWhole, NextEmptyInv, NextCeilingInv
<1>3. Inv => WindowCeiling
  BY DEF CeilingInv
<1> HIDE DEF Inv
<1> QED
  BY <1>1, <1>2, <1>3, PTL DEF Spec, VersionGrows
=============================================================================
