-------------------------- MODULE MultiQueueProofs --------------------------
(***************************************************************************)
(* For every width, number of choices, threads and operations each         *)
(* sub-queue of the multi-queue and of queue-dra is a strict queue, and a  *)
(* dequeue that reports empty settled on a sub-queue that was.             *)
(***************************************************************************)
EXTENDS MultiQueue, TLAPS

EnqChosen == {"enq_next", "enq_cae", "enq_help", "enq_swing"}
DeqChosen == {"deq_tail", "deq_test", "deq_help", "deq_cae"}
Choosing == {"enq_index", "deq_index"}
PCs == {"idle"} \cup EnqChosen \cup DeqChosen \cup Choosing

Locals == [index : Nat \cup Index, node : Nat, tail : Nat, looked : Nat]

TypeOK ==
    /\ linked \in [Index -> Nat]
    /\ put_array \in [Index -> Nat]
    /\ get_array \in [Index -> Nat]
    /\ local \in [Threads -> Locals]
    /\ pc \in [Threads -> PCs]
    /\ wasEmpty \in [Dequeuers -> SUBSET Index]

\* The tail of a sub-queue is not behind its head, and at most one node behind
\* its last node.
Between(i) ==
    /\ get_array[i] <= put_array[i] /\ put_array[i] <= linked[i]
    /\ linked[i] <= put_array[i] + 1

\* What is known of the node and the tail that a thread read in sub-queue i,
\* where it is enqueuing, or dequeuing.
EnqInv(t, i) ==
    /\ local[t].node <= put_array[i]
    /\ pc[t] \in {"enq_help", "enq_swing"} => local[t].node < linked[i]

DeqInv(t, i) ==
    /\ local[t].node <= get_array[i]
    /\ pc[t] # "deq_tail" => local[t].node <= local[t].tail /\ local[t].tail <= put_array[i]
    /\ pc[t] = "deq_help" => local[t].tail < linked[i]
    /\ pc[t] = "deq_cae" => local[t].node < local[t].tail

ThreadInv(t) ==
    /\ pc[t] = "idle" => local[t].looked = 0
    /\ (pc[t] \in Choosing /\ local[t].looked > 0) =>
          /\ local[t].index \in Index
          /\ pc[t] = "enq_index" => local[t].node <= put_array[local[t].index]
          /\ pc[t] = "deq_index" => local[t].node <= get_array[local[t].index]
    /\ pc[t] \in EnqChosen => local[t].index \in Index /\ EnqInv(t, local[t].index)
    /\ pc[t] \in DeqChosen => local[t].index \in Index /\ DeqInv(t, local[t].index)
    /\ (t \in Dequeuers /\ pc[t] # "idle") =>
          \A i \in Index : get_array[i] = linked[i] => i \in wasEmpty[t]

Inv == (\A i \in Index : Between(i)) /\ (\A t \in Threads : ThreadInv(t))

Step(t) == (Enqueue(t) \/ Dequeue(t)) /\ Watch

-----------------------------------------------------------------------------
LEMMA InitInv == Init => TypeOK /\ Inv
<1> SUFFICES ASSUME Init PROVE TypeOK /\ Inv
  OBVIOUS
<1>1. TypeOK
  BY DEF Init, TypeOK, NoLocals, PCs, Locals
<1>2. \A i \in Index : Between(i)
  BY DEF Init, Between
<1>3. ASSUME NEW t \in Threads PROVE ThreadInv(t)
  <2>1. pc[t] = "idle" /\ local[t].looked = 0
    BY DEF Init, NoLocals
  <2> QED
    BY <2>1 DEF ThreadInv, Choosing, EnqChosen, DeqChosen
<1> QED
  BY <1>1, <1>2, <1>3 DEF Inv

\* What a step may do to a sub-queue: link a node behind the tail, move the
\* tail to a linked node, or move the head to a node that is not beyond the
\* tail.
Pointers(i) ==
    \/ /\ linked'[i] = linked[i] /\ put_array'[i] = put_array[i]
       /\ get_array'[i] = get_array[i]
    \/ /\ linked'[i] = linked[i] + 1 /\ put_array[i] = linked[i]
       /\ put_array'[i] = put_array[i] /\ get_array'[i] = get_array[i]
    \/ /\ put_array'[i] = put_array[i] + 1 /\ put_array[i] < linked[i]
       /\ linked'[i] = linked[i] /\ get_array'[i] = get_array[i]
    \/ /\ get_array'[i] = get_array[i] + 1 /\ get_array[i] < put_array[i]
       /\ linked'[i] = linked[i] /\ put_array'[i] = put_array[i]

LEMMA PointersGrow ==
    ASSUME TypeOK, Inv, NEW i \in Index, Pointers(i)
    PROVE  /\ linked'[i] \in Nat /\ put_array'[i] \in Nat /\ get_array'[i] \in Nat
           /\ get_array[i] <= get_array'[i] /\ put_array[i] <= put_array'[i]
           /\ linked[i] <= linked'[i]
           /\ Between(i)'
<1>1. linked[i] \in Nat /\ put_array[i] \in Nat /\ get_array[i] \in Nat
  BY DEF TypeOK
<1>2. Between(i)
  BY DEF Inv
<1> QED
  BY <1>1, <1>2 DEF Pointers, Between

LEMMA AdvanceTailPointers ==
    ASSUME TypeOK, NEW t \in Threads, NEW n \in Nat, AdvanceTail(t, n),
           local[t].index \in Index, n < linked[local[t].index]
    PROVE  \A i \in Index : Pointers(i)
<1>1. /\ linked' = linked /\ get_array' = get_array
      /\ put_array' = [put_array EXCEPT ![local[t].index] =
                          IF put_array[local[t].index] = n THEN put_array[local[t].index] + 1
                          ELSE put_array[local[t].index]]
  BY DEF AdvanceTail
<1> SUFFICES ASSUME NEW i \in Index PROVE Pointers(i)
  OBVIOUS
<1>2. CASE i = local[t].index
  BY <1>1, <1>2 DEF Pointers, TypeOK
<1>3. CASE i # local[t].index
  BY <1>1, <1>3 DEF Pointers, TypeOK
<1> QED
  BY <1>2, <1>3

LEMMA StepPointers ==
    ASSUME TypeOK, Inv, NEW t \in Threads, Enqueue(t) \/ Dequeue(t)
    PROVE  \A i \in Index : Pointers(i)
<1> DEFINE j == local[t].index
<1>1. ThreadInv(t) /\ local[t].node \in Nat /\ local[t].tail \in Nat
  BY DEF Inv, TypeOK, Locals
<1>2. CASE EnqCAE(t)
  <2>1. pc[t] = "enq_cae" /\ j \in Index /\ local[t].node <= put_array[j]
    BY <1>1, <1>2 DEF EnqCAE, Goto, ThreadInv, EnqInv, EnqChosen
  <2>2. Between(j) /\ linked[j] \in Nat /\ put_array[j] \in Nat
    BY <2>1 DEF Inv, TypeOK
  <2> SUFFICES ASSUME NEW i \in Index PROVE Pointers(i)
    OBVIOUS
  <2>3. UNCHANGED <<put_array, get_array>>
    BY <1>2 DEF EnqCAE
  <2>4. CASE LinkNull(t)
    <3>1. put_array[j] = linked[j]
      BY <1>1, <2>1, <2>2, <2>4 DEF LinkNull, IsNull, Between
    <3>2. linked' = [linked EXCEPT ![j] = linked[j] + 1]
      BY <1>2, <2>4 DEF EnqCAE
    <3>3. CASE i = j
      BY <2>1, <2>3, <3>1, <3>2, <3>3 DEF Pointers, TypeOK
    <3>4. CASE i # j
      BY <2>3, <3>2, <3>4 DEF Pointers, TypeOK
    <3> QED
      BY <3>3, <3>4
  <2>5. CASE ~LinkNull(t)
    BY <1>2, <2>3, <2>5 DEF EnqCAE, Pointers
  <2> QED
    BY <2>4, <2>5
<1>3. CASE EnqHelp(t) \/ EnqSwing(t)
  <2>1. AdvanceTail(t, local[t].node) /\ j \in Index /\ local[t].node < linked[j]
    BY <1>1, <1>3 DEF EnqHelp, EnqSwing, Return, Goto, ThreadInv, EnqInv, EnqChosen
  <2> QED
    BY <1>1, <2>1, AdvanceTailPointers
<1>4. CASE DeqHelp(t)
  <2>1. AdvanceTail(t, local[t].tail) /\ j \in Index /\ local[t].tail < linked[j]
    BY <1>1, <1>4 DEF DeqHelp, Goto, ThreadInv, DeqInv, DeqChosen
  <2> QED
    BY <1>1, <2>1, AdvanceTailPointers
<1>5. CASE DeqCAE(t)
  <2>1. /\ j \in Index /\ local[t].node < local[t].tail /\ local[t].tail <= put_array[j]
        /\ UNCHANGED <<linked, put_array>>
    BY <1>1, <1>5 DEF DeqCAE, Return, Goto, ThreadInv, DeqInv, DeqChosen
  <2> SUFFICES ASSUME NEW i \in Index PROVE Pointers(i)
    OBVIOUS
  <2>2. CASE HeadUnchanged(t)
    <3>1. get_array[j] = local[t].node /\ get_array[j] < put_array[j]
      BY <1>1, <2>1, <2>2 DEF HeadUnchanged, TypeOK
    <3>2. get_array' = [get_array EXCEPT ![j] = local[t].node + 1]
      BY <1>5, <2>2 DEF DeqCAE
    <3>3. CASE i = j
      BY <2>1, <3>1, <3>2, <3>3 DEF Pointers, TypeOK
    <3>4. CASE i # j
      BY <2>1, <3>2, <3>4 DEF Pointers, TypeOK
    <3> QED
      BY <3>3, <3>4
  <2>3. CASE ~HeadUnchanged(t)
    BY <1>5, <2>1, <2>3 DEF DeqCAE, Pointers
  <2> QED
    BY <2>2, <2>3
<1>6. CASE ~(EnqCAE(t) \/ EnqHelp(t) \/ EnqSwing(t) \/ DeqHelp(t) \/ DeqCAE(t))
  <2>1. UNCHANGED shared
    BY <1>6 DEF Enqueue, Dequeue, Call, EnqChoose, EnqNext, DeqChoose, DeqTail, DeqEmpty, DeqTest
  <2> QED
    BY <2>1 DEF Pointers, shared
<1> QED
  BY <1>2, <1>3, <1>4, <1>5, <1>6

\* The locals a step leaves.
LEMMA ChosenLocals ==
    ASSUME NEW f \in [Threads -> Locals], NEW t \in Threads, NEW n \in Nat, NEW i \in Index
    PROVE  /\ [f EXCEPT ![t].looked = n] \in [Threads -> Locals]
           /\ [f EXCEPT ![t].tail = n] \in [Threads -> Locals]
           /\ [f EXCEPT ![t] = NoLocals] \in [Threads -> Locals]
           /\ [f EXCEPT ![t] = [f[t] EXCEPT !.index = i, !.node = n, !.looked = @ + 1]]
                 \in [Threads -> Locals]
<1>1. [f[t] EXCEPT !.looked = n] \in Locals
  BY DEF Locals
<1>2. [f[t] EXCEPT !.tail = n] \in Locals
  BY DEF Locals
<1>3. NoLocals \in Locals
  BY DEF Locals, NoLocals
<1>4. [f[t] EXCEPT !.index = i, !.node = n, !.looked = @ + 1] \in Locals
  <2>1. f[t].looked + 1 \in Nat
    BY DEF Locals
  <2>2. [f[t] EXCEPT !.index = i, !.node = n, !.looked = f[t].looked + 1] \in Locals
    BY <2>1 DEF Locals
  <2> QED
    BY <2>2
<1> QED
  BY <1>1, <1>2, <1>3, <1>4

\* What looking at one more index leaves in the locals.
Looked(t, array) ==
    /\ local'[t].looked = local[t].looked + 1
    /\ \/ local'[t].index \in Index /\ local'[t].node = array[local'[t].index]
       \/ /\ local[t].looked > 0
          /\ local'[t].index = local[t].index /\ local'[t].node = local[t].node

LEMMA LookLocals ==
    ASSUME TypeOK, NEW t \in Threads, NEW array \in [Index -> Nat],
           NEW i \in Index,
           \/ local' = [local EXCEPT ![t] = [local[t] EXCEPT !.index = i, !.node = array[i],
                                                             !.looked = @ + 1]]
           \/ local[t].looked > 0 /\ local' = [local EXCEPT ![t].looked = @ + 1]
    PROVE  local' \in [Threads -> Locals] /\ Looked(t, array)
<1>1. local \in [Threads -> Locals] /\ array[i] \in Nat /\ local[t].looked + 1 \in Nat
  BY DEF TypeOK, Locals
<1>2. CASE local' = [local EXCEPT ![t] = [local[t] EXCEPT !.index = i, !.node = array[i],
                                                           !.looked = @ + 1]]
  <2>1. local' \in [Threads -> Locals]
    BY <1>1, <1>2, ChosenLocals
  <2>2. local'[t] = [local[t] EXCEPT !.index = i, !.node = array[i], !.looked = @ + 1]
    BY <1>1, <1>2
  <2>3. Looked(t, array)
    BY <1>1, <2>2 DEF Looked, Locals
  <2> QED
    BY <2>1, <2>3
<1>3. CASE local[t].looked > 0 /\ local' = [local EXCEPT ![t].looked = @ + 1]
  <2>1. local' \in [Threads -> Locals]
    BY <1>1, <1>3, ChosenLocals
  <2>2. local'[t] = [local[t] EXCEPT !.looked = @ + 1]
    BY <1>1, <1>3
  <2>3. Looked(t, array)
    BY <1>1, <1>3, <2>2 DEF Looked, Locals
  <2> QED
    BY <2>1, <2>3
<1> QED
  BY <1>2, <1>3

LEMMA ChooseLocals ==
    ASSUME TypeOK, NEW t \in Threads
    PROVE  /\ EnqChoose(t) => local' \in [Threads -> Locals] /\ Looked(t, put_array)
           /\ DeqChoose(t) => local' \in [Threads -> Locals] /\ Looked(t, get_array)
<1>1. put_array \in [Index -> Nat] /\ get_array \in [Index -> Nat]
  BY DEF TypeOK
<1>2. ASSUME EnqChoose(t) PROVE local' \in [Threads -> Locals] /\ Looked(t, put_array)
  <2>1. PICK i \in Index :
           \/ local' = [local EXCEPT ![t] = [local[t] EXCEPT !.index = i, !.node = put_array[i],
                                                             !.looked = @ + 1]]
           \/ local[t].looked > 0 /\ local' = [local EXCEPT ![t].looked = @ + 1]
    BY <1>2 DEF EnqChoose, Look
  <2> QED
    BY <1>1, <2>1, LookLocals
<1>3. ASSUME DeqChoose(t) PROVE local' \in [Threads -> Locals] /\ Looked(t, get_array)
  <2>1. PICK i \in Index :
           \/ local' = [local EXCEPT ![t] = [local[t] EXCEPT !.index = i, !.node = get_array[i],
                                                             !.looked = @ + 1]]
           \/ local[t].looked > 0 /\ local' = [local EXCEPT ![t].looked = @ + 1]
    BY <1>3 DEF DeqChoose, Look
  <2> QED
    BY <1>1, <2>1, LookLocals
<1> QED
  BY <1>2, <1>3

LEMMA StepType ==
    ASSUME TypeOK, NEW t \in Threads, Enqueue(t) \/ Dequeue(t), Watch, Inv
    PROVE  TypeOK'
<1>1. /\ linked' \in [Index -> Nat] /\ put_array' \in [Index -> Nat]
      /\ get_array' \in [Index -> Nat]
  <2>1. \A i \in Index : linked'[i] \in Nat /\ put_array'[i] \in Nat /\ get_array'[i] \in Nat
    BY StepPointers, PointersGrow
  <2>2. /\ linked' = linked \/ \E i, n : linked' = [linked EXCEPT ![i] = n]
        /\ put_array' = put_array \/ \E i, n : put_array' = [put_array EXCEPT ![i] = n]
        /\ get_array' = get_array \/ \E i, n : get_array' = [get_array EXCEPT ![i] = n]
    BY DEF Enqueue, Dequeue, Call, EnqChoose, EnqNext, EnqCAE, EnqHelp, EnqSwing, AdvanceTail,
           DeqChoose, DeqTail, DeqEmpty, DeqTest, DeqHelp, DeqCAE, shared
  <2> QED
    BY <2>1, <2>2 DEF TypeOK
<1>2. pc' \in [Threads -> PCs]
  <2>1. \E to \in PCs : pc' = [pc EXCEPT ![t] = to]
    BY DEF Enqueue, Dequeue, Call, EnqChoose, EnqNext, EnqCAE, EnqHelp, EnqSwing,
           DeqChoose, DeqTail, DeqEmpty, DeqTest, DeqHelp, DeqCAE, Return, Goto, Branch,
           PCs, EnqChosen, DeqChosen, Choosing
  <2> QED
    BY <2>1 DEF TypeOK
<1>3. local' \in [Threads -> Locals]
  <2>1. CASE EnqChoose(t) \/ DeqChoose(t)
    BY <2>1, ChooseLocals
  <2>2. CASE DeqTail(t)
    <3>1. local[t].index \in Index /\ put_array[local[t].index] \in Nat
      BY <2>2 DEF DeqTail, Goto, Inv, ThreadInv, DeqChosen, TypeOK
    <3>2. local' = [local EXCEPT ![t].tail = put_array[local[t].index]]
      BY <2>2 DEF DeqTail
    <3> QED
      BY <3>1, <3>2, ChosenLocals DEF TypeOK
  <2>3. CASE ~(EnqChoose(t) \/ DeqChoose(t) \/ DeqTail(t))
    <3>1. \/ local' = local \/ local' = [local EXCEPT ![t] = NoLocals]
          \/ local' = [local EXCEPT ![t].looked = 0]
      BY <2>3 DEF Enqueue, Dequeue, Call, EnqNext, EnqCAE, EnqHelp, EnqSwing, DeqEmpty, DeqTest,
                  DeqHelp, DeqCAE, Return
    <3>2. local \in [Threads -> Locals] /\ 0 \in Nat
      BY DEF TypeOK
    <3>3. /\ [local EXCEPT ![t] = NoLocals] \in [Threads -> Locals]
          /\ [local EXCEPT ![t].looked = 0] \in [Threads -> Locals]
      <4>1. [local[t] EXCEPT !.looked = 0] \in Locals /\ NoLocals \in Locals
        BY <3>2 DEF Locals, NoLocals
      <4> QED
        BY <3>2, <4>1
    <3> QED
      BY <3>1, <3>2, <3>3, Zenon
  <2> QED
    BY <2>1, <2>2, <2>3
<1>4. wasEmpty' \in [Dequeuers -> SUBSET Index]
  BY DEF Watch
<1> QED
  BY <1>1, <1>2, <1>3, <1>4 DEF TypeOK

\* What is known of the other threads survives a step.
LEMMA OthersKeep ==
    ASSUME TypeOK, TypeOK', Inv, NEW t \in Threads, Watch,
           \E to : pc' = [pc EXCEPT ![t] = to],
           local' = local \/ \E v : local' = [local EXCEPT ![t] = v],
           \A i \in Index : Pointers(i),
           NEW u \in Threads, u # t
    PROVE  ThreadInv(u)'
<1> DEFINE j == local[u].index
<1>1. pc'[u] = pc[u] /\ local'[u] = local[u]
  BY DEF TypeOK
<1>2. ThreadInv(u)
  BY DEF Inv
<1>3. \A i \in Index :
         /\ linked[i] \in Nat /\ put_array[i] \in Nat /\ get_array[i] \in Nat
         /\ linked'[i] \in Nat /\ put_array'[i] \in Nat /\ get_array'[i] \in Nat
         /\ get_array[i] <= get_array'[i] /\ put_array[i] <= put_array'[i]
         /\ linked[i] <= linked'[i]
  BY PointersGrow DEF TypeOK
<1>4. local[u].node \in Nat /\ local[u].tail \in Nat
  BY DEF TypeOK, Locals
<1>5. (u \in Dequeuers /\ pc'[u] # "idle") =>
         \A i \in Index : get_array'[i] = linked'[i] => i \in wasEmpty'[u]
  BY DEF Watch
<1>6. pc[u] \in EnqChosen => j \in Index /\ EnqInv(u, j)'
  BY <1>1, <1>2, <1>3, <1>4 DEF ThreadInv, EnqInv
<1>7. pc[u] \in DeqChosen => j \in Index /\ DeqInv(u, j)'
  BY <1>1, <1>2, <1>3, <1>4 DEF ThreadInv, DeqInv
<1>8. (pc[u] \in Choosing /\ local[u].looked > 0) =>
          /\ j \in Index
          /\ pc[u] = "enq_index" => local[u].node <= put_array'[j]
          /\ pc[u] = "deq_index" => local[u].node <= get_array'[j]
  BY <1>2, <1>3, <1>4 DEF ThreadInv
<1> QED
  BY <1>1, <1>2, <1>5, <1>6, <1>7, <1>8 DEF ThreadInv, EnqInv, DeqInv

\* The step of a thread, for what it knows itself.
LEMMA EnqueueThread ==
    ASSUME TypeOK, TypeOK', Inv, NEW t \in Threads, Enqueue(t), Watch,
           \A i \in Index : Pointers(i)
    PROVE  ThreadInv(t)'
<1> DEFINE j == local[t].index
<1>1. ThreadInv(t)
  BY DEF Inv
<1>2. \A i \in Index :
         /\ linked[i] \in Nat /\ put_array[i] \in Nat /\ get_array[i] \in Nat
         /\ linked'[i] \in Nat /\ put_array'[i] \in Nat /\ get_array'[i] \in Nat
         /\ get_array[i] <= get_array'[i] /\ put_array[i] <= put_array'[i]
         /\ linked[i] <= linked'[i]
         /\ put_array[i] <= linked[i]
  BY PointersGrow DEF TypeOK, Inv, Between
<1>3. local[t].node \in Nat /\ local[t].tail \in Nat /\ local[t].looked \in Nat
  BY DEF TypeOK, Locals
<1>4. (t \in Dequeuers /\ pc'[t] # "idle") =>
         \A i \in Index : get_array'[i] = linked'[i] => i \in wasEmpty'[t]
  BY DEF Watch
<1>5. CASE pc'[t] \in {"idle", "enq_index"} /\ local'[t].looked = 0
  BY <1>4, <1>5 DEF ThreadInv, Choosing, EnqChosen, DeqChosen
<1>6. CASE EnqChoose(t)
  <2>1. /\ pc[t] = "enq_index" /\ pc'[t] \in {"enq_index", "enq_next"} /\ Looked(t, put_array)
        /\ put_array' = put_array
    BY <1>6, ChooseLocals DEF EnqChoose, Branch, Goto, TypeOK, shared
  <2>2. local'[t].index \in Index /\ local'[t].node <= put_array[local'[t].index]
    BY <1>1, <1>2, <2>1 DEF Looked, ThreadInv, Choosing
  <2> QED
    BY <1>4, <2>1, <2>2 DEF ThreadInv, Choosing, EnqChosen, DeqChosen, EnqInv
<1>7. CASE EnqNext(t)
  <2>1. /\ pc[t] = "enq_next"
        /\ pc'[t] = (IF local[t].node = linked[j] THEN "enq_cae" ELSE "enq_help")
        /\ local' = local /\ put_array' = put_array /\ linked' = linked
    BY <1>7 DEF EnqNext, Branch, Goto, IsNull, TypeOK, shared
  <2>2. j \in Index /\ local[t].node <= put_array[j]
    BY <1>1, <2>1 DEF ThreadInv, EnqChosen, EnqInv
  <2> QED
    BY <1>2, <1>3, <1>4, <2>1, <2>2 DEF ThreadInv, Choosing, EnqChosen, DeqChosen, EnqInv
<1>8. CASE EnqCAE(t) /\ LinkNull(t)
  <2>1. /\ pc[t] = "enq_cae" /\ pc'[t] = "enq_swing" /\ local' = local
        /\ put_array' = put_array /\ local[t].node = linked[j]
    BY <1>8 DEF EnqCAE, LinkNull, IsNull, Goto, TypeOK
  <2>2. j \in Index /\ local[t].node <= put_array[j]
    BY <1>1, <2>1 DEF ThreadInv, EnqChosen, EnqInv
  <2>3. linked'[j] = linked[j] + 1
    BY <1>8, <2>2 DEF EnqCAE, TypeOK
  <2> QED
    BY <1>2, <1>3, <1>4, <2>1, <2>2, <2>3 DEF ThreadInv, Choosing, EnqChosen, DeqChosen, EnqInv
<1>9. CASE ~(EnqChoose(t) \/ EnqNext(t) \/ (EnqCAE(t) /\ LinkNull(t)))
  <2>1. CASE t \in Enqueuers /\ Call(t, "enq_index")
    <3>1. pc[t] = "idle" /\ pc'[t] = "enq_index" /\ local' = local
      BY <2>1 DEF Call, Goto, TypeOK
    <3> QED
      BY <1>1, <1>5, <3>1 DEF ThreadInv
  <2>2. CASE EnqCAE(t) /\ ~LinkNull(t)
    BY <1>5, <2>2 DEF EnqCAE, Goto, TypeOK, Locals
  <2>3. CASE EnqHelp(t)
    BY <1>5, <2>3 DEF EnqHelp, Goto, TypeOK, Locals
  <2>4. CASE EnqSwing(t)
    BY <1>5, <2>4 DEF EnqSwing, Return, NoLocals, Goto, TypeOK
  <2> QED
    BY <1>9, <2>1, <2>2, <2>3, <2>4 DEF Enqueue
<1> QED
  BY <1>6, <1>7, <1>8, <1>9

LEMMA DequeueThread ==
    ASSUME TypeOK, TypeOK', Inv, NEW t \in Threads, Dequeue(t), Watch,
           \A i \in Index : Pointers(i)
    PROVE  ThreadInv(t)'
<1> DEFINE j == local[t].index
<1>1. ThreadInv(t)
  BY DEF Inv
<1>2. \A i \in Index :
         /\ linked[i] \in Nat /\ put_array[i] \in Nat /\ get_array[i] \in Nat
         /\ get_array[i] <= put_array[i] /\ put_array[i] <= linked[i]
  BY DEF TypeOK, Inv, Between
<1>3. local[t].node \in Nat /\ local[t].tail \in Nat /\ local[t].looked \in Nat
  BY DEF TypeOK, Locals
<1>4. (t \in Dequeuers /\ pc'[t] # "idle") =>
         \A i \in Index : get_array'[i] = linked'[i] => i \in wasEmpty'[t]
  BY DEF Watch
<1>5. CASE pc'[t] \in {"idle", "deq_index"} /\ local'[t].looked = 0
  BY <1>4, <1>5 DEF ThreadInv, Choosing, EnqChosen, DeqChosen
<1>6. CASE DeqChoose(t)
  <2>1. /\ pc[t] = "deq_index" /\ pc'[t] \in {"deq_index", "deq_tail"} /\ Looked(t, get_array)
        /\ get_array' = get_array
    BY <1>6, ChooseLocals DEF DeqChoose, Branch, Goto, TypeOK, shared
  <2>2. local'[t].index \in Index /\ local'[t].node <= get_array[local'[t].index]
    BY <1>1, <1>2, <2>1 DEF Looked, ThreadInv, Choosing
  <2> QED
    BY <1>4, <2>1, <2>2 DEF ThreadInv, Choosing, EnqChosen, DeqChosen, DeqInv
<1>7. CASE DeqTail(t)
  <2>1. /\ pc[t] = "deq_tail" /\ pc'[t] = "deq_test"
        /\ local'[t].index = j /\ local'[t].node = local[t].node
        /\ local'[t].tail = put_array[j]
        /\ UNCHANGED <<linked, put_array, get_array>>
    BY <1>7 DEF DeqTail, Goto, TypeOK, Locals, shared
  <2>2. j \in Index /\ local[t].node <= get_array[j]
    BY <1>1, <2>1 DEF ThreadInv, DeqChosen, DeqInv
  <2> QED
    BY <1>2, <1>3, <1>4, <2>1, <2>2 DEF ThreadInv, Choosing, EnqChosen, DeqChosen, DeqInv
<1>8. CASE DeqTest(t)
  <2>1. /\ pc[t] = "deq_test"
        /\ pc'[t] = (IF local[t].node = local[t].tail THEN "deq_help" ELSE "deq_cae")
        /\ ~(local[t].node = local[t].tail /\ local[t].node = linked[j])
        /\ local' = local /\ UNCHANGED <<linked, put_array, get_array>>
    BY <1>8 DEF DeqTest, HeadIsTail, IsNull, Branch, Goto, TypeOK, shared
  <2>2. /\ j \in Index /\ local[t].node <= get_array[j]
        /\ local[t].node <= local[t].tail /\ local[t].tail <= put_array[j]
    BY <1>1, <2>1 DEF ThreadInv, DeqChosen, DeqInv
  <2> QED
    BY <1>2, <1>3, <1>4, <2>1, <2>2 DEF ThreadInv, Choosing, EnqChosen, DeqChosen, DeqInv
<1>9. CASE ~(DeqChoose(t) \/ DeqTail(t) \/ DeqTest(t))
  <2>1. CASE t \in Dequeuers /\ Call(t, "deq_index")
    <3>1. pc[t] = "idle" /\ pc'[t] = "deq_index" /\ local' = local
      BY <2>1 DEF Call, Goto, TypeOK
    <3> QED
      BY <1>1, <1>5, <3>1 DEF ThreadInv
  <2>2. CASE DeqEmpty(t)
    BY <1>5, <2>2 DEF DeqEmpty, Return, NoLocals, Goto, TypeOK
  <2>3. CASE DeqHelp(t)
    BY <1>5, <2>3 DEF DeqHelp, Goto, TypeOK, Locals
  <2>4. CASE DeqCAE(t)
    BY <1>5, <2>4 DEF DeqCAE, Return, NoLocals, Goto, TypeOK, Locals
  <2> QED
    BY <1>9, <2>1, <2>2, <2>3, <2>4 DEF Dequeue
<1> QED
  BY <1>6, <1>7, <1>8, <1>9

\* The invariant is inductive.
LEMMA StepInv ==
    ASSUME TypeOK, Inv, NEW t \in Threads, Step(t)
    PROVE  TypeOK' /\ Inv' /\ \A i \in Index : Pointers(i)
<1>1. TypeOK'
  BY StepType DEF Step
<1>2. \A i \in Index : Pointers(i)
  BY StepPointers DEF Step
<1>3. \A i \in Index : Between(i)'
  BY <1>2, PointersGrow
<1>4. ThreadInv(t)'
  BY <1>1, <1>2, EnqueueThread, DequeueThread DEF Step
<1>5. \E to : pc' = [pc EXCEPT ![t] = to]
  BY DEF Step, Enqueue, Dequeue, Call, EnqChoose, EnqNext, EnqCAE, EnqHelp, EnqSwing,
         DeqChoose, DeqTail, DeqEmpty, DeqTest, DeqHelp, DeqCAE, Return, Goto, Branch
<1>6. local' = local \/ \E v : local' = [local EXCEPT ![t] = v]
  <2>1. CASE EnqChoose(t) \/ DeqChoose(t)
    BY <2>1 DEF EnqChoose, DeqChoose, Look
  <2>2. CASE ~(EnqChoose(t) \/ DeqChoose(t))
    BY <2>2 DEF Step, Enqueue, Dequeue, Call, EnqNext, EnqCAE, EnqHelp, EnqSwing,
           DeqTail, DeqEmpty, DeqTest, DeqHelp, DeqCAE, Return
  <2> QED
    BY <2>1, <2>2
<1>7. ASSUME NEW u \in Threads, u # t PROVE ThreadInv(u)'
  BY <1>1, <1>2, <1>5, <1>6, <1>7, OthersKeep DEF Step
<1> QED
  BY <1>1, <1>2, <1>3, <1>4, <1>7 DEF Inv

LEMMA NextInv == TypeOK /\ Inv /\ [Next]_vars => TypeOK' /\ Inv'
<1> SUFFICES ASSUME TypeOK, Inv, [Next]_vars PROVE TypeOK' /\ Inv'
  OBVIOUS
<1>1. CASE \E t \in Threads : Step(t)
  BY <1>1, StepInv
<1>2. CASE UNCHANGED vars
  BY <1>2 DEF vars, shared, TypeOK, Inv, Between, ThreadInv, EnqInv, DeqInv
<1> QED
  BY <1>1, <1>2 DEF Next, Step, Finished

-----------------------------------------------------------------------------
(***************************************************************************)
(* A sub-queue implements the strict queue: linking a node puts an item,   *)
(* the compare-and-exchange of the head takes the oldest, every other step *)
(* does nothing to its content.                                            *)
(***************************************************************************)
SubQueue(i) == INSTANCE OutOfOrder WITH K <- 0, Newest <- FALSE, content <- Content(i)

LEMMA ContentIs ==
    ASSUME NEW h \in Nat, NEW n \in Nat
    PROVE  /\ [k \in 1 .. n |-> h + k] \in Seq(Nat)
           /\ Len([k \in 1 .. n |-> h + k]) = n
OBVIOUS

LEMMA LinkPuts ==
    ASSUME TypeOK, Inv, NEW i \in Index, linked'[i] = linked[i] + 1,
           get_array'[i] = get_array[i]
    PROVE  SubQueue(i)!Put
<1> DEFINE n == linked[i] - get_array[i]
<1>1. n \in Nat /\ get_array[i] \in Nat /\ linked'[i] - get_array'[i] = n + 1
  BY DEF TypeOK, Inv, Between
<1>2. /\ Content(i) = [k \in 1 .. n |-> get_array[i] + k]
      /\ Content(i)' = [k \in 1 .. n + 1 |-> get_array[i] + k]
  BY <1>1 DEF Content
<1> HIDE DEF n
<1>3. Len(Content(i)) = n /\ DOMAIN Content(i) = 1 .. n /\ Len(Content(i)') = n + 1
  BY <1>1, <1>2, ContentIs
<1> QED
  BY <1>1, <1>2, <1>3 DEF SubQueue!Put

LEMMA HeadTakes ==
    ASSUME TypeOK, Inv, NEW i \in Index, get_array'[i] = get_array[i] + 1,
           get_array[i] < linked[i], linked'[i] = linked[i]
    PROVE  SubQueue(i)!Take
<1> DEFINE h == get_array[i]
           n == linked[i] - h
<1>1. n \in Nat /\ n >= 1 /\ h \in Nat /\ linked'[i] - get_array'[i] = n - 1
  BY DEF TypeOK, Inv, Between
<1>2. /\ Content(i) = [k \in 1 .. n |-> h + k]
      /\ Content(i)' = [k \in 1 .. n - 1 |-> h + 1 + k]
  BY <1>1 DEF Content
<1> HIDE DEF n, h
<1>3. Len(Content(i)) = n /\ DOMAIN Content(i) = 1 .. n
  BY <1>1, <1>2, ContentIs
<1>4. SubQueue(i)!Without(1) = Content(i)'
  <2>1. SubQueue(i)!Without(1) = [k \in 1 .. n - 1 |-> Content(i)[IF k < 1 THEN k ELSE k + 1]]
    BY <1>3 DEF SubQueue!Without
  <2>2. \A k \in 1 .. n - 1 : Content(i)[IF k < 1 THEN k ELSE k + 1] = h + 1 + k
    BY <1>1, <1>2
  <2> QED
    BY <1>2, <2>1, <2>2
<1>5. 1 \in DOMAIN Content(i) /\ SubQueue(i)!Skips(1) <= 0
  BY <1>1, <1>3 DEF SubQueue!Skips
<1> QED
  BY <1>4, <1>5 DEF SubQueue!Take

\* For every width, number of choices, threads and operations: each sub-queue of
\* multi-queue and queue-dra is a strict first-in first-out queue, although an
\* operation works on a sub-queue that it rated earlier.
THEOREM SubQueuesAreStrict ==
    ASSUME NEW i \in Index
    PROVE  Spec => SubQueue(i)!Spec
<1>1. Init => SubQueue(i)!Init
  BY DEF Init, SubQueue!Init, Content
<1>2. TypeOK /\ Inv /\ [Next]_vars => [SubQueue(i)!Next]_(Content(i))
  <2> SUFFICES ASSUME TypeOK, Inv, [Next]_vars PROVE [SubQueue(i)!Next]_(Content(i))
    OBVIOUS
  <2>1. CASE \E t \in Threads : Step(t)
    <3>1. Pointers(i)
      BY <2>1, StepInv
    <3>2. CASE linked'[i] = linked[i] /\ get_array'[i] = get_array[i]
      BY <3>2 DEF Content
    <3>3. CASE linked'[i] = linked[i] + 1 /\ get_array'[i] = get_array[i]
      BY <3>3, LinkPuts DEF SubQueue!Next
    <3>4. CASE /\ get_array'[i] = get_array[i] + 1 /\ get_array[i] < put_array[i]
               /\ linked'[i] = linked[i]
      <4>1. get_array[i] < linked[i]
        BY <3>4 DEF TypeOK, Inv, Between
      <4> QED
        BY <3>4, <4>1, HeadTakes DEF SubQueue!Next
    <3> QED
      BY <3>1, <3>2, <3>3, <3>4 DEF Pointers
  <2>2. CASE UNCHANGED vars
    BY <2>2 DEF vars, shared, Content
  <2> QED
    BY <2>1, <2>2 DEF Next, Step, Finished
<1>3. Spec => [](TypeOK /\ Inv)
  BY InitInv, NextInv, PTL DEF Spec
<1> QED
  BY <1>1, <1>2, <1>3, PTL DEF Spec, SubQueue!Spec

\* For every width, number of choices, threads and operations: a dequeue of
\* multi-queue or queue-dra that reports empty settled on a sub-queue that was
\* empty at some moment of the call.
THEOREM EmptyDequeuesJustified ==
    Spec => [][\A t \in Dequeuers : DeqEmpty(t) => local[t].index \in wasEmpty[t]]_vars
<1>1. TypeOK /\ Inv /\ [Next]_vars
         => [\A t \in Dequeuers : DeqEmpty(t) => local[t].index \in wasEmpty[t]]_vars
  <2> SUFFICES ASSUME TypeOK, Inv, NEW t \in Dequeuers, DeqEmpty(t)
               PROVE  local[t].index \in wasEmpty[t]
    OBVIOUS
  <2> DEFINE j == local[t].index
  <2>1. t \in Threads /\ pc[t] = "deq_test" /\ local[t].node = linked[j]
    BY DEF Threads, DeqEmpty, Return, Goto, IsNull
  <2>2. ThreadInv(t) /\ local[t].node \in Nat
    BY <2>1 DEF Inv, TypeOK, Locals
  <2>3. j \in Index /\ local[t].node <= get_array[j]
    BY <2>1, <2>2 DEF ThreadInv, DeqInv, DeqChosen
  <2>4. get_array[j] = linked[j]
    BY <2>1, <2>2, <2>3 DEF Inv, Between, TypeOK
  <2> QED
    BY <2>1, <2>2, <2>3, <2>4 DEF ThreadInv
<1>2. Spec => [](TypeOK /\ Inv)
  BY InitInv, NextInv, PTL DEF Spec
<1> QED
  BY <1>1, <1>2, PTL DEF Spec
=============================================================================
