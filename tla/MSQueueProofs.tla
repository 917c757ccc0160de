--------------------------- MODULE MSQueueProofs ---------------------------
(***************************************************************************)
(* For every number of threads and operations the Michael-Scott queue is a *)
(* strict queue, and a delete that reports it empty is right.              *)
(***************************************************************************)
EXTENDS MSQueue, TLAPS

PCs ==
    {"idle", "ins_tail", "ins_next", "ins_same", "ins_link", "ins_help", "ins_swing",
     "del_head", "del_tail", "del_next", "del_same", "del_help", "del_cas"}

TypeOK ==
    /\ linked \in Nat /\ head \in Nat /\ tail \in Nat
    /\ local \in [Threads -> [head : Nat, tail : Nat, last : BOOLEAN]]
    /\ pc \in [Threads -> PCs]
    /\ wasEmpty \in [Dequeuers -> BOOLEAN]

\* A head or tail that a thread has read is never ahead of the pointer; the
\* tail was read after the head.  A tail that is to be moved has a node after
\* it.  A last node found by a delete was the head of an empty queue.
ThreadInv(t) ==
    /\ local[t].head <= head /\ local[t].tail <= tail
    /\ (pc[t] = "ins_same" /\ ~local[t].last) => local[t].tail < linked
    /\ pc[t] \in {"ins_help", "ins_swing", "del_help"} => local[t].tail < linked
    /\ pc[t] \in {"del_next", "del_same", "del_cas"} => local[t].head <= local[t].tail
    /\ pc[t] = "del_same" =>
          IF local[t].last THEN local[t].head = local[t].tail
                                /\ (t \in Dequeuers => wasEmpty[t])
          ELSE local[t].head < linked
    /\ pc[t] = "del_cas" => local[t].head < local[t].tail /\ ~local[t].last

Inv ==
    /\ head <= tail /\ tail <= linked /\ linked <= tail + 1
    /\ \A t \in Threads : ThreadInv(t)

-----------------------------------------------------------------------------
\* What a step of thread t does to the others.
LEMMA OthersKeep ==
    ASSUME TypeOK, Inv, NEW t \in Threads, Watch,
           \E to : pc' = [pc EXCEPT ![t] = to],
           local' = local \/ \E v : local' = [local EXCEPT ![t] = v],
           head' \in Nat, tail' \in Nat, linked' \in Nat,
           head <= head', tail <= tail', linked <= linked',
           NEW u \in Threads, u # t
    PROVE  ThreadInv(u)'
<1>1. pc'[u] = pc[u] /\ local'[u] = local[u]
  BY DEF TypeOK
<1>2. ThreadInv(u)
  BY DEF Inv
<1>3. (u \in Dequeuers /\ pc[u] # "idle" /\ wasEmpty[u]) => wasEmpty'[u]
  BY <1>1 DEF Watch
<1>4. /\ local[u].head \in Nat /\ local[u].tail \in Nat
      /\ head \in Nat /\ tail \in Nat /\ linked \in Nat
  BY DEF TypeOK
<1> QED
  BY <1>1, <1>2, <1>3, <1>4 DEF ThreadInv

\* The actions of one thread.
Step(t) == (Insert(t) \/ Delete(t)) /\ Watch

LEMMA InitInv == Init => TypeOK /\ Inv
<1> SUFFICES ASSUME Init PROVE TypeOK /\ Inv
  OBVIOUS
<1>1. TypeOK
  BY DEF Init, TypeOK, NoLocals, PCs
<1>2. Inv
  BY DEF Init, Inv, ThreadInv, NoLocals
<1> QED
  BY <1>1, <1>2

\* A return clears the locals, any other step keeps them or sets one of them.
Locals == [head : Nat, tail : Nat, last : BOOLEAN]

LEMMA SetLocal ==
    ASSUME NEW f \in [Threads -> Locals], NEW t \in Threads, NEW n \in Nat, NEW b \in BOOLEAN
    PROVE  /\ [f EXCEPT ![t].head = n] \in [Threads -> Locals]
           /\ [f EXCEPT ![t].tail = n] \in [Threads -> Locals]
           /\ [f EXCEPT ![t].last = b] \in [Threads -> Locals]
           /\ [f EXCEPT ![t] = NoLocals] \in [Threads -> Locals]
<1>1. [f[t] EXCEPT !.head = n] \in Locals
  BY DEF Locals
<1>2. [f[t] EXCEPT !.tail = n] \in Locals
  BY DEF Locals
<1>3. [f[t] EXCEPT !.last = b] \in Locals
  BY DEF Locals
<1>4. NoLocals \in Locals
  BY DEF Locals, NoLocals
<1> QED
  BY <1>1, <1>2, <1>3, <1>4

LEMMA StepType ==
    ASSUME TypeOK, NEW t \in Threads, Insert(t) \/ Delete(t), Watch
    PROVE  TypeOK'
<1>1. linked' \in Nat /\ head' \in Nat /\ tail' \in Nat
  <2>1. local[t].head \in Nat
    BY DEF TypeOK
  <2> QED
    BY <2>1 DEF TypeOK, Insert, Delete, Call, InsReadTail, InsReadNext, InsTailSame, Link, InsHelp,
             Swing, DelReadHead, DelReadTail, DelReadNext, DelHeadSame, DelHelp, DelCAS,
             AdvanceTail, NewHead, shared
<1>2. pc' \in [Threads -> PCs]
  BY DEF TypeOK, Insert, Delete, Call, InsReadTail, InsReadNext, InsTailSame, Link, InsHelp,
         Swing, DelReadHead, DelReadTail, DelReadNext, DelHeadSame, DelHelp, DelCAS,
         Return, Goto, Branch, PCs
<1>3. \/ local' = local \/ local' = [local EXCEPT ![t] = NoLocals]
      \/ local' = [local EXCEPT ![t].tail = tail] \/ local' = [local EXCEPT ![t].head = head]
      \/ \E b \in BOOLEAN : local' = [local EXCEPT ![t].last = b]
  <2>1. CASE InsReadNext(t)
    BY <2>1 DEF InsReadNext, IsNull
  <2>2. CASE DelReadNext(t)
    BY <2>2 DEF DelReadNext, IsNull
  <2>3. CASE InsReadTail(t) \/ DelReadTail(t) \/ DelReadHead(t)
    BY <2>3 DEF InsReadTail, DelReadTail, DelReadHead
  <2>4. CASE ~(InsReadNext(t) \/ DelReadNext(t) \/ InsReadTail(t) \/ DelReadTail(t) \/ DelReadHead(t))
    BY <2>4 DEF Insert, Delete, Call, InsTailSame, Link, InsHelp, Swing, DelHeadSame, DelHelp,
                DelCAS, Return
  <2> QED
    BY <2>1, <2>2, <2>3, <2>4
<1>4. local \in [Threads -> Locals] /\ head \in Nat /\ tail \in Nat
  BY DEF TypeOK, Locals
<1>5. local' \in [Threads -> Locals]
  <2>1. /\ [local EXCEPT ![t] = NoLocals] \in [Threads -> Locals]
        /\ [local EXCEPT ![t].tail = tail] \in [Threads -> Locals]
        /\ [local EXCEPT ![t].head = head] \in [Threads -> Locals]
    BY <1>4, SetLocal, Zenon
  <2>2. \A b \in BOOLEAN : [local EXCEPT ![t].last = b] \in [Threads -> Locals]
    BY <1>4, SetLocal, Zenon
  <2> QED
    BY <1>3, <1>4, <2>1, <2>2, Zenon
<1>6. wasEmpty' \in [Dequeuers -> BOOLEAN]
  BY DEF Watch, TypeOK
<1> QED
  BY <1>1, <1>2, <1>5, <1>6 DEF TypeOK, Locals

\* What a step may do to the pointers: link a node behind the tail, move the
\* tail to a linked node, or move the head to a node that is not beyond the
\* tail.
Pointers(t) ==
    \/ UNCHANGED shared
    \/ linked' = linked + 1 /\ tail = linked /\ UNCHANGED <<head, tail>>
    \/ tail' = tail + 1 /\ tail < linked /\ UNCHANGED <<head, linked>>
    \/ /\ pc[t] = "del_cas" /\ head' = head + 1 /\ head < tail
       /\ UNCHANGED <<tail, linked>>

LEMMA AdvanceTailPointers ==
    ASSUME TypeOK, NEW t \in Threads, AdvanceTail(t), local[t].tail < linked
    PROVE  Pointers(t)
BY DEF AdvanceTail, Pointers, TypeOK, shared

LEMMA StepPointers ==
    ASSUME TypeOK, Inv, NEW t \in Threads, Insert(t) \/ Delete(t)
    PROVE  Pointers(t)
<1>1. ThreadInv(t)
  BY DEF Inv
<1>2. CASE Link(t)
  BY <1>1, <1>2 DEF Link, IsNull, Pointers, Inv, ThreadInv, TypeOK, shared
<1>3. CASE InsHelp(t) \/ Swing(t) \/ DelHelp(t)
  <2>1. local[t].tail < linked /\ AdvanceTail(t)
    BY <1>1, <1>3 DEF InsHelp, Swing, DelHelp, Return, Goto, ThreadInv
  <2> QED
    BY <2>1, AdvanceTailPointers
<1>4. CASE DelCAS(t)
  <2>1. pc[t] = "del_cas"
    BY <1>4 DEF DelCAS, Return, Goto
  <2>2. local[t].head < local[t].tail /\ local[t].tail <= tail
    BY <1>1, <2>1 DEF ThreadInv
  <2>3. local[t].head \in Nat /\ local[t].tail \in Nat /\ tail \in Nat
    BY DEF TypeOK
  <2> QED
    BY <1>4, <2>1, <2>2, <2>3 DEF DelCAS, HeadUnchanged, NewHead, Pointers, shared
<1>5. CASE ~(Link(t) \/ InsHelp(t) \/ Swing(t) \/ DelHelp(t) \/ DelCAS(t))
  <2>1. UNCHANGED shared
    BY <1>5 DEF Insert, Delete, Call, InsReadTail, InsReadNext, InsTailSame, DelReadHead,
                DelReadTail, DelReadNext, DelHeadSame
  <2> QED
    BY <2>1 DEF Pointers
<1> QED
  BY <1>2, <1>3, <1>4, <1>5

\* The pointers keep their order and only grow.
LEMMA PointersGrow ==
    ASSUME TypeOK, Inv, NEW t \in Threads, Pointers(t)
    PROVE  /\ head <= head' /\ tail <= tail' /\ linked <= linked'
           /\ head' <= tail' /\ tail' <= linked' /\ linked' <= tail' + 1
BY DEF TypeOK, Inv, Pointers, shared

\* Which of its own facts a step establishes.
LEMMA InsertThread ==
    ASSUME TypeOK, TypeOK', Inv, NEW t \in Threads, Insert(t), Pointers(t)
    PROVE  ThreadInv(t)'
<1>1. ThreadInv(t)
  BY DEF Inv
<1>2. /\ head <= head' /\ tail <= tail' /\ linked <= linked'
      /\ head' <= tail' /\ tail' <= linked' /\ linked' <= tail' + 1
  BY PointersGrow
<1>3. /\ local[t].head \in Nat /\ local[t].tail \in Nat /\ local[t].last \in BOOLEAN
      /\ head \in Nat /\ tail \in Nat /\ linked \in Nat
      /\ head' \in Nat /\ tail' \in Nat /\ linked' \in Nat
  BY DEF TypeOK
<1>4. CASE t \in Enqueuers /\ Call(t, "ins_tail")
  <2>1. pc'[t] = "ins_tail" /\ local'[t] = local[t]
    BY <1>4 DEF Call, Goto, TypeOK
  <2> QED
    BY <1>1, <1>2, <1>3, <2>1 DEF ThreadInv
<1>5. CASE InsReadTail(t)
  <2>1. pc'[t] = "ins_next" /\ local'[t].tail = tail /\ local'[t].head = local[t].head
    BY <1>5 DEF InsReadTail, Goto, TypeOK
  <2> QED
    BY <1>1, <1>2, <1>3, <2>1 DEF ThreadInv
<1>6. CASE InsReadNext(t)
  <2>1. /\ pc'[t] = "ins_same" /\ local'[t].tail = local[t].tail
        /\ local'[t].head = local[t].head /\ (local'[t].last <=> local[t].tail = linked)
        /\ linked' = linked
    BY <1>6 DEF InsReadNext, Goto, IsNull, TypeOK, shared
  <2>2. local[t].tail <= linked
    BY <1>1, <1>3 DEF Inv, ThreadInv
  <2> QED
    BY <1>1, <1>2, <1>3, <2>1, <2>2 DEF ThreadInv
<1>7. CASE InsTailSame(t)
  <2>1. /\ pc[t] = "ins_same" /\ pc'[t] \in {"ins_tail", "ins_link", "ins_help"}
        /\ local'[t] = local[t]
    BY <1>7 DEF InsTailSame, Goto, TypeOK
  <2>2. pc'[t] = "ins_help" => ~local[t].last
    <3>1. pc'[t] = CASE local[t].tail # tail -> "ins_tail"
                     [] local[t].tail = tail /\ local[t].last -> "ins_link"
                     [] OTHER -> "ins_help"
      BY <1>7 DEF InsTailSame, Goto, TypeOK
    <3> QED
      BY <3>1
  <2> QED
    BY <1>1, <1>2, <1>3, <2>1, <2>2 DEF ThreadInv
<1>8. CASE Link(t)
  <2>1. /\ pc'[t] = (IF local[t].tail = linked THEN "ins_swing" ELSE "ins_tail")
        /\ linked' = (IF local[t].tail = linked THEN linked + 1 ELSE linked)
        /\ local'[t] = local[t]
    BY <1>8 DEF Link, Branch, Goto, IsNull, TypeOK
  <2> QED
    BY <1>1, <1>2, <1>3, <2>1 DEF ThreadInv
<1>9. CASE InsHelp(t)
  <2>1. pc'[t] = "ins_tail" /\ local'[t] = local[t]
    BY <1>9 DEF InsHelp, Goto, TypeOK
  <2> QED
    BY <1>1, <1>2, <1>3, <2>1 DEF ThreadInv
<1>10. CASE Swing(t)
  <2>1. pc'[t] = "idle" /\ local'[t].head = 0 /\ local'[t].tail = 0
    BY <1>10 DEF Swing, Return, Goto, NoLocals, TypeOK
  <2> QED
    BY <1>3, <2>1 DEF ThreadInv
<1> QED
  BY <1>4, <1>5, <1>6, <1>7, <1>8, <1>9, <1>10 DEF Insert

LEMMA DeleteThread ==
    ASSUME TypeOK, TypeOK', Inv, NEW t \in Threads, Delete(t), Pointers(t), Watch
    PROVE  ThreadInv(t)'
<1>1. ThreadInv(t)
  BY DEF Inv
<1>2. /\ head <= head' /\ tail <= tail' /\ linked <= linked'
      /\ head' <= tail' /\ tail' <= linked' /\ linked' <= tail' + 1
  BY PointersGrow
<1>3. /\ local[t].head \in Nat /\ local[t].tail \in Nat /\ local[t].last \in BOOLEAN
      /\ head \in Nat /\ tail \in Nat /\ linked \in Nat
      /\ head' \in Nat /\ tail' \in Nat /\ linked' \in Nat
      /\ head <= tail /\ tail <= linked
  BY DEF TypeOK, Inv
<1>4. CASE t \in Dequeuers /\ Call(t, "del_head")
  <2>1. pc'[t] = "del_head" /\ local'[t] = local[t]
    BY <1>4 DEF Call, Goto, TypeOK
  <2> QED
    BY <1>1, <1>2, <1>3, <2>1 DEF ThreadInv
<1>5. CASE DelReadHead(t)
  <2>1. pc'[t] = "del_tail" /\ local'[t].head = head /\ local'[t].tail = local[t].tail
    BY <1>5 DEF DelReadHead, Goto, TypeOK
  <2> QED
    BY <1>1, <1>2, <1>3, <2>1 DEF ThreadInv
<1>6. CASE DelReadTail(t)
  <2>1. pc'[t] = "del_next" /\ local'[t].tail = tail /\ local'[t].head = local[t].head
    BY <1>6 DEF DelReadTail, Goto, TypeOK
  <2> QED
    BY <1>1, <1>2, <1>3, <2>1 DEF ThreadInv
<1>7. CASE DelReadNext(t)
  <2>1. /\ pc[t] = "del_next" /\ pc'[t] = "del_same" /\ local'[t].tail = local[t].tail
        /\ local'[t].head = local[t].head /\ (local'[t].last <=> local[t].head = linked)
        /\ linked' = linked /\ head' = head /\ tail' = tail
    BY <1>7 DEF DelReadNext, Goto, IsNull, TypeOK, shared
  <2>2. /\ local[t].head <= local[t].tail /\ local[t].tail <= tail
        /\ local[t].head <= head
    BY <1>1, <2>1 DEF ThreadInv
  <2>3. local'[t].last => head = linked /\ local[t].head = local[t].tail
    BY <1>3, <2>1, <2>2
  <2>4. (t \in Dequeuers /\ local'[t].last) => wasEmpty'[t]
    BY <2>1, <2>3 DEF Watch
  <2>5. ~local'[t].last => local[t].head < linked
    BY <1>3, <2>1, <2>2
  <2> QED
    BY <1>3, <2>1, <2>2, <2>3, <2>4, <2>5 DEF ThreadInv
<1>8. CASE DelHeadSame(t)
  <2>1. pc[t] = "del_same" /\ pc'[t] \in {"del_head", "idle", "del_help", "del_cas"}
    BY <1>8 DEF DelHeadSame, Goto, Return, Branch, TypeOK
  <2>2. UNCHANGED shared
    BY <1>8 DEF DelHeadSame
  <2>3. CASE pc'[t] = "idle"
    <3>1. local'[t].head = 0 /\ local'[t].tail = 0
      BY <1>8, <2>3 DEF DelHeadSame, Goto, Return, Branch, NoLocals, TypeOK
    <3> QED
      BY <1>3, <2>3, <3>1 DEF ThreadInv
  <2>4. CASE pc'[t] # "idle"
    <3>1. /\ local' = local
          /\ pc'[t] = "del_help" => HeadIsTail(t) /\ ~local[t].last
          /\ pc'[t] = "del_cas" => ~HeadIsTail(t)
      BY <1>8, <2>4 DEF DelHeadSame, Goto, Return, Branch, TypeOK
    <3> QED
      BY <1>1, <1>3, <2>1, <2>2, <2>4, <3>1 DEF ThreadInv, HeadIsTail, shared
  <2> QED
    BY <2>3, <2>4
<1>9. CASE DelHelp(t)
  <2>1. pc'[t] = "del_head" /\ local'[t] = local[t]
    BY <1>9 DEF DelHelp, Goto, TypeOK
  <2> QED
    BY <1>1, <1>2, <1>3, <2>1 DEF ThreadInv
<1>10. CASE DelCAS(t)
  <2>1. \/ pc'[t] = "idle" /\ local'[t].head = 0 /\ local'[t].tail = 0
        \/ pc'[t] = "del_head" /\ local'[t] = local[t]
    BY <1>10 DEF DelCAS, Return, Goto, NoLocals, TypeOK
  <2> QED
    BY <1>1, <1>2, <1>3, <2>1 DEF ThreadInv
<1> QED
  BY <1>4, <1>5, <1>6, <1>7, <1>8, <1>9, <1>10 DEF Delete

\* The invariant is inductive.
LEMMA StepInv ==
    ASSUME TypeOK, Inv, NEW t \in Threads, Step(t)
    PROVE  TypeOK' /\ Inv' /\ Pointers(t)
<1>1. TypeOK'
  BY StepType DEF Step
<1>2. Pointers(t)
  BY StepPointers DEF Step
<1>3. /\ head <= head' /\ tail <= tail' /\ linked <= linked'
      /\ head' <= tail' /\ tail' <= linked' /\ linked' <= tail' + 1
  BY <1>2, PointersGrow
<1>4. ThreadInv(t)'
  BY <1>1, <1>2, InsertThread, DeleteThread DEF Step
<1>5. \E to : pc' = [pc EXCEPT ![t] = to]
  BY DEF Step, Insert, Delete, Call, InsReadTail, InsReadNext, InsTailSame, Link, InsHelp,
         Swing, DelReadHead, DelReadTail, DelReadNext, DelHeadSame, DelHelp, DelCAS, Return,
         Goto, Branch
<1>6. local' = local \/ \E v : local' = [local EXCEPT ![t] = v]
  BY DEF Step, Insert, Delete, Call, InsReadTail, InsReadNext, InsTailSame, Link, InsHelp,
         Swing, DelReadHead, DelReadTail, DelReadNext, DelHeadSame, DelHelp, DelCAS, Return
<1>7. ASSUME NEW u \in Threads, u # t PROVE ThreadInv(u)'
  <2>1. head' \in Nat /\ tail' \in Nat /\ linked' \in Nat
    BY <1>1 DEF TypeOK
  <2> QED
    BY <1>3, <1>5, <1>6, <1>7, <2>1, OthersKeep DEF Step
<1> QED
  BY <1>1, <1>2, <1>3, <1>4, <1>7 DEF Inv

LEMMA NextInv == TypeOK /\ Inv /\ [Next]_vars => TypeOK' /\ Inv'
<1> SUFFICES ASSUME TypeOK, Inv, [Next]_vars PROVE TypeOK' /\ Inv'
  OBVIOUS
<1>1. CASE \E t \in Threads : Step(t)
  BY <1>1, StepInv
<1>2. CASE UNCHANGED vars
  BY <1>2 DEF vars, shared, TypeOK, Inv, ThreadInv
<1> QED
  BY <1>1, <1>2 DEF Next, Step, Finished

\* For every number of threads and operations: the tail of the Michael-Scott
\* queue is never behind the head and at most one node behind the last, and a
\* delete moves the head only to a node that was linked.
THEOREM TailStaysBetween == Spec => []TailBetween
<1>1. Spec => [](TypeOK /\ Inv)
  BY InitInv, NextInv, PTL DEF Spec
<1>2. TypeOK /\ Inv => TailBetween
  BY DEF TypeOK, Inv, ThreadInv, TailBetween, Threads
<1> QED
  BY <1>1, <1>2, PTL

-----------------------------------------------------------------------------
(***************************************************************************)
(* The queue implements the strict queue: linking a node puts an item, the *)
(* compare-and-swap of the head takes the oldest, every other step does    *)
(* nothing to the content.                                                 *)
(***************************************************************************)
StrictQueue == INSTANCE OutOfOrder WITH K <- 0, Newest <- FALSE, content <- Content

LEMMA ContentIs ==
    ASSUME NEW h \in Nat, NEW n \in Nat
    PROVE  /\ [i \in 1 .. n |-> h + i] \in Seq(Nat)
           /\ Len([i \in 1 .. n |-> h + i]) = n
OBVIOUS

LEMMA LinkPuts ==
    ASSUME TypeOK, Inv, linked' = linked + 1, UNCHANGED head
    PROVE  StrictQueue!Put
<1> DEFINE n == linked - head
<1>1. n \in Nat /\ head \in Nat /\ linked' - head' = n + 1
  BY DEF TypeOK, Inv
<1>2. Content = [i \in 1 .. n |-> head + i] /\ Content' = [i \in 1 .. n + 1 |-> head + i]
  BY <1>1 DEF Content
<1> HIDE DEF n
<1>3. Len(Content) = n /\ DOMAIN Content = 1 .. n /\ Len(Content') = n + 1
  BY <1>1, <1>2, ContentIs
<1> QED
  BY <1>1, <1>2, <1>3 DEF StrictQueue!Put

LEMMA HeadTakes ==
    ASSUME TypeOK, Inv, head' = head + 1, head < linked, UNCHANGED linked
    PROVE  StrictQueue!Take
<1> DEFINE n == linked - head
<1>1. n \in Nat /\ n >= 1 /\ head \in Nat /\ linked' - head' = n - 1
  BY DEF TypeOK, Inv
<1>2. /\ Content = [i \in 1 .. n |-> head + i]
      /\ Content' = [i \in 1 .. n - 1 |-> head + 1 + i]
  BY <1>1 DEF Content
<1> HIDE DEF n
<1>3. Len(Content) = n /\ DOMAIN Content = 1 .. n
  BY <1>1, <1>2, ContentIs
<1>4. StrictQueue!Without(1) = Content'
  <2>1. StrictQueue!Without(1) = [j \in 1 .. n - 1 |-> Content[IF j < 1 THEN j ELSE j + 1]]
    BY <1>3 DEF StrictQueue!Without
  <2>2. \A j \in 1 .. n - 1 : Content[IF j < 1 THEN j ELSE j + 1] = head + 1 + j
    BY <1>1, <1>2
  <2> QED
    BY <1>2, <2>1, <2>2
<1>5. 1 \in DOMAIN Content /\ StrictQueue!Skips(1) <= 0
  BY <1>1, <1>3 DEF StrictQueue!Skips
<1> QED
  BY <1>4, <1>5 DEF StrictQueue!Take

\* For every number of threads and operations the Michael-Scott queue is a
\* strict first-in first-out queue: each item leaves once, in the order the
\* nodes were linked, however old the head and the tail a thread works with.
THEOREM MSQueueIsStrict == Spec => StrictQueue!Spec
<1>1. Init => StrictQueue!Init
  BY DEF Init, StrictQueue!Init, Content
<1>2. TypeOK /\ Inv /\ [Next]_vars => [StrictQueue!Next]_Content
  <2> SUFFICES ASSUME TypeOK, Inv, [Next]_vars PROVE [StrictQueue!Next]_Content
    OBVIOUS
  <2>1. CASE \E t \in Threads : Step(t)
    <3>1. PICK t \in Threads : Step(t)
      BY <2>1
    <3>2. Pointers(t)
      BY <3>1, StepInv
    <3>3. CASE UNCHANGED <<head, linked>>
      BY <3>3 DEF Content
    <3>4. CASE linked' = linked + 1 /\ UNCHANGED head
      BY <3>4, LinkPuts DEF StrictQueue!Next
    <3>5. CASE head' = head + 1 /\ head < tail /\ UNCHANGED linked
      <4>1. head < linked
        BY <3>5 DEF TypeOK, Inv
      <4> QED
        BY <3>5, <4>1, HeadTakes DEF StrictQueue!Next
    <3> QED
      BY <3>2, <3>3, <3>4, <3>5 DEF Pointers, shared
  <2>2. CASE UNCHANGED vars
    BY <2>2 DEF vars, shared, Content
  <2> QED
    BY <2>1, <2>2 DEF Next, Step, Finished
<1>3. Spec => [](TypeOK /\ Inv)
  BY InitInv, NextInv, PTL DEF Spec
<1> QED
  BY <1>1, <1>2, <1>3, PTL DEF Spec, StrictQueue!Spec

\* A delete that returns NULL.
ReturnsEmpty(t) == pc[t] = "del_same" /\ pc'[t] = "idle"

\* For every number of threads and operations: a delete that reports the
\* Michael-Scott queue empty is right, the queue was empty at some moment of
\* the call.
THEOREM EmptyDeletesJustified ==
    Spec => [][\A t \in Dequeuers : ReturnsEmpty(t) => wasEmpty[t]]_vars
<1>1. TypeOK /\ Inv /\ [Next]_vars
         => [\A t \in Dequeuers : ReturnsEmpty(t) => wasEmpty[t]]_vars
  <2> SUFFICES ASSUME TypeOK, Inv, Next, NEW t \in Dequeuers, ReturnsEmpty(t)
               PROVE  wasEmpty[t]
    BY DEF vars
  <2>1. t \in Threads
    BY DEF Threads
  <2>2. PICK u \in Threads : Step(u)
    BY <2>1 DEF Next, Step, Finished, ReturnsEmpty
  <2>3. \E to : pc' = [pc EXCEPT ![u] = to]
    BY <2>2 DEF Step, Insert, Delete, Call, InsReadTail, InsReadNext, InsTailSame, Link, InsHelp,
           Swing, DelReadHead, DelReadTail, DelReadNext, DelHeadSame, DelHelp, DelCAS, Return,
           Goto, Branch
  <2>4. u = t
    BY <2>1, <2>3 DEF ReturnsEmpty, TypeOK
  <2>5. DelHeadSame(t)
    BY <2>2, <2>4 DEF Step, Insert, Delete, Call, InsReadTail, InsReadNext, InsTailSame, Link,
           InsHelp, Swing, DelReadHead, DelReadTail, DelReadNext, DelHelp, DelCAS, Return,
           Goto, Branch, ReturnsEmpty
  <2>6. local[t].last
    <3>1. pc' = [pc EXCEPT ![t] = "del_head"] => pc'[t] # "idle"
      BY <2>1 DEF TypeOK
    <3>2. pc' = [pc EXCEPT ![t] = IF HeadIsTail(t) THEN "del_help" ELSE "del_cas"]
             => pc'[t] # "idle"
      BY <2>1 DEF TypeOK
    <3> QED
      BY <2>5, <3>1, <3>2 DEF DelHeadSame, Goto, Branch, ReturnsEmpty
  <2> QED
    BY <2>1, <2>6 DEF Inv, ThreadInv, ReturnsEmpty
<1>2. Spec => [](TypeOK /\ Inv)
  BY InitInv, NextInv, PTL DEF Spec
<1> QED
  BY <1>1, <1>2, PTL DEF Spec
=============================================================================
