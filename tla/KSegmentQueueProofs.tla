------------------------- MODULE KSegmentQueueProofs -------------------------
(***************************************************************************)
(* Proofs about the k-segment queue for every number of threads and        *)
(* operations and every segment_size of at least 1: no segment is left     *)
(* behind before it is used up, a delete that reports empty is right, and  *)
(* the queue is (segment_size - 1)-out-of-order.                           *)
(***************************************************************************)
EXTENDS KSegmentQueue, FiniteSetTheorems, TLAPS

PushPCs ==
    {"push_start", "push_read", "push_walk", "create", "swing", "created", "enq_cae"}
PopPCs == {"pop_top", "pop_pass", "passed", "pop_read", "pop_deleted", "pop_walk", "deq_cas"}
PCs == {"idle", "pop_start"} \cup PushPCs \cup PopPCs

Cell == [node : Nat, deleted : {0, 1}]
Local ==
    [slot : Slots, segment : Nat, walk : 0 .. SegmentSize, node : Nat, deleted : {0, 1},
     pending : {0, 1}]

TypeOK ==
    /\ segments \in Seq([Slots -> Cell])
    /\ head \in Nat /\ tail \in Nat /\ stamp \in Nat
    /\ local \in [Threads -> Local]
    /\ pc \in [Threads -> PCs]
    /\ published \in [Threads -> SUBSET (1 .. stamp)]

-----------------------------------------------------------------------------
(***************************************************************************)
(* The segments.  Those before the head are used up, those before the last *)
(* one are full, and one that the tail has not reached is empty.  A stamp  *)
(* is in one place, and the stamps of a segment are above those of the     *)
(* segments before it.                                                     *)
(***************************************************************************)
Pointers == 1 <= head /\ head <= tail /\ tail <= Len(segments) /\ Len(segments) <= tail + 1
UsedUp == \A g \in 1 .. head - 1, i \in Slots : segments[g][i].deleted = 1
Full == \A g \in 1 .. Len(segments) - 1, i \in Slots : segments[g][i].node # NULL
Fresh == \A g \in tail + 1 .. Len(segments), i \in Slots : segments[g][i].node = NULL
Stamped ==
    \A g \in DOMAIN segments, i \in Slots :
        segments[g][i].node <= stamp /\ (segments[g][i].deleted = 1 => segments[g][i].node # NULL)
Ordered ==
    \A g, h \in DOMAIN segments, i, j \in Slots :
        (g < h /\ segments[h][j].node # NULL) => segments[g][i].node < segments[h][j].node
Once ==
    \A g, h \in DOMAIN segments, i, j \in Slots :
        (segments[g][i].node = segments[h][j].node /\ segments[g][i].node # NULL)
            => (g = h /\ i = j)

SegmentsInv == Pointers /\ UsedUp /\ Full /\ Fresh /\ Stamped /\ Ordered /\ Once

(***************************************************************************)
(* The searches.  Back(i, j) is the number of steps from slot j to slot i, *)
(* and a whole round from i to i.  An insert that walks has left taken     *)
(* slots behind; a delete has left slots behind that are deleted or, if it *)
(* remembers a pending one, hold nothing that was there when it began.     *)
(***************************************************************************)
Back(i, j) == IF j < i THEN i - j ELSE i + SegmentSize - j
Behind(t, n) == {j \in Slots : Back(local[t].slot, j) <= n}

Taken(t, n) == \A j \in Behind(t, n) : segments[local[t].segment][j].node # NULL

InsertInv(t) ==
    /\ pc[t] = "push_read" => Taken(t, local[t].walk - 1)
    /\ pc[t] = "push_walk" => Taken(t, local[t].walk - 1) /\ Slot(t).node # NULL
    /\ pc[t] = "create" => \A j \in Slots : segments[local[t].segment][j].node # NULL
    /\ pc[t] = "swing" => local[t].segment < Len(segments)

Done(t, j) ==
    \/ segments[local[t].segment][j].deleted = 1
    \/ local[t].pending = 1 /\ segments[local[t].segment][j].node \notin published[t]
Searched(t, n) == \A j \in Behind(t, n) : Done(t, j)

DeleteInv(t) ==
    /\ pc[t] \in PopPCs => local[t].segment <= head
    /\ pc[t] = "pop_top" =>
          Searched(t, local[t].walk) /\ (local[t].walk > 0 => NothingFound(t))
    /\ pc[t] \in {"pop_read", "pop_deleted", "pop_walk"} => Searched(t, local[t].walk - 1)
    /\ pc[t] \in {"pop_deleted", "pop_walk"} =>
          IF local[t].node = NULL THEN Slot(t).node \notin published[t] ELSE Slot(t).node # NULL
    /\ pc[t] = "pop_walk" =>
          NothingFound(t) /\ (local[t].node # NULL => Slot(t).deleted = 1)
    /\ pc[t] = "pop_pass" =>
          /\ local[t].segment < tail
          /\ \A j \in Slots : segments[local[t].segment][j].deleted = 1
    /\ pc[t] = "deq_cas" =>
          IF NothingFound(t) THEN published[t] \cap Live = {} ELSE Slot(t).node # NULL

ThreadInv(t) == 1 <= local[t].segment /\ local[t].segment <= tail /\ InsertInv(t) /\ DeleteInv(t)

Inv == SegmentsInv /\ \A t \in Threads : ThreadInv(t)

-----------------------------------------------------------------------------
SizeOK == SegmentSize \in Nat \ {0}

\* What Back counts.
LEMMA BackCounts ==
    ASSUME SizeOK, NEW i \in Slots, NEW j \in Slots
    PROVE  /\ Back(i, j) \in 1 .. SegmentSize
           /\ Back(i, j) = SegmentSize => i = j
           /\ NextSlot(i) \in Slots
           /\ j # i => Back(NextSlot(i), j) = Back(i, j) + 1
BY DEF SizeOK, Slots, Back, NextSlot

\* Nothing is behind at the start, and everything but the slot itself after a
\* whole round less one step.
LEMMA BehindRange ==
    ASSUME SizeOK, NEW t, local[t].slot \in Slots, NEW n \in Int
    PROVE  /\ n <= 0 => Behind(t, n) = {}
           /\ n >= SegmentSize - 1 => Slots \ {local[t].slot} \subseteq Behind(t, n)
           /\ n >= SegmentSize => Behind(t, n) = Slots
<1>1. \A j \in Slots : /\ Back(local[t].slot, j) \in 1 .. SegmentSize
                       /\ Back(local[t].slot, j) = SegmentSize => local[t].slot = j
  BY BackCounts
<1>2. n <= 0 => Behind(t, n) = {}
  BY <1>1 DEF Behind, SizeOK
<1>3. n >= SegmentSize - 1 => Slots \ {local[t].slot} \subseteq Behind(t, n)
  BY <1>1 DEF Behind, SizeOK
<1>4. n >= SegmentSize => Behind(t, n) = Slots
  BY <1>1 DEF Behind, SizeOK
<1> QED
  BY <1>2, <1>3, <1>4

\* One step of a walk leaves one more slot behind.
LEMMA BehindStep ==
    ASSUME SizeOK, NEW t, local[t].slot \in Slots, local'[t].slot = NextSlot(local[t].slot),
           NEW n \in Int
    PROVE  Behind(t, n + 1)' \subseteq Behind(t, n) \cup {local[t].slot}
<1> SUFFICES ASSUME NEW j \in Slots, Back(local'[t].slot, j) <= n + 1, j # local[t].slot
             PROVE  Back(local[t].slot, j) <= n
  BY DEF Behind, Back, Slots
<1>1. Back(local'[t].slot, j) = Back(local[t].slot, j) + 1
  BY BackCounts
<1>2. Back(local[t].slot, j) \in 1 .. SegmentSize
  BY BackCounts
<1> QED
  BY <1>1, <1>2 DEF SizeOK

\* Where a thread is and what it finds there.
LEMMA Place ==
    ASSUME SizeOK, TypeOK, Inv, NEW t \in Threads
    PROVE  /\ local[t] \in Local
           /\ local[t].segment \in DOMAIN segments
           /\ local[t].segment \in 1 .. tail
           /\ \A j \in Slots : segments[local[t].segment][j] \in Cell
           /\ Slot(t) \in Cell
           /\ Len(segments) \in Nat /\ DOMAIN segments = 1 .. Len(segments)
<1>1. local[t] \in Local /\ Len(segments) \in Nat /\ DOMAIN segments = 1 .. Len(segments)
  BY DEF TypeOK
<1>2. local[t].segment \in 1 .. tail
  BY <1>1 DEF Inv, ThreadInv, Local, TypeOK
<1>3. local[t].segment \in DOMAIN segments
  BY <1>1, <1>2 DEF Inv, SegmentsInv, Pointers, TypeOK
<1>4. segments[local[t].segment] \in [Slots -> Cell]
  BY <1>3 DEF TypeOK
<1>5. local[t].slot \in Slots
  BY <1>1 DEF Local
<1> QED
  BY <1>1, <1>2, <1>3, <1>4, <1>5 DEF Slot

-----------------------------------------------------------------------------
(***************************************************************************)
(* What a step of thread t leaves alone, and what it can only increase.    *)
(***************************************************************************)
Quiet(t) ==
    \A u \in Threads \ {t} :
        pc'[u] = pc[u] /\ local'[u] = local[u] /\ published'[u] = published[u]

Grows ==
    /\ head <= head' /\ tail <= tail' /\ stamp <= stamp' /\ Len(segments) <= Len(segments')
    /\ \A g \in DOMAIN segments, i \in Slots :
          /\ segments[g][i].node # NULL => segments'[g][i].node = segments[g][i].node
          /\ segments'[g][i].node = segments[g][i].node \/ segments'[g][i].node > stamp
          /\ segments[g][i].deleted = 1 => segments'[g][i].deleted = 1
    /\ Live' \cap (1 .. stamp) \subseteq Live

\* What a thread has seen stays true while others work.
LEMMA OthersKeep ==
    ASSUME SizeOK, TypeOK, Inv, NEW t \in Threads, Quiet(t), Grows, TypeOK',
           NEW u \in Threads, u # t
    PROVE  ThreadInv(u)'
<1>1. pc'[u] = pc[u] /\ local'[u] = local[u] /\ published'[u] = published[u]
  BY DEF Quiet
<1>2. ThreadInv(u)
  BY DEF Inv
<1>3. /\ local[u] \in Local /\ local[u].segment \in DOMAIN segments
      /\ \A j \in Slots : segments[local[u].segment][j] \in Cell
      /\ Len(segments) \in Nat
  BY Place
<1>4. Len(segments') \in Nat /\ tail' \in Nat /\ tail \in Nat /\ head \in Nat /\ head' \in Nat
  BY DEF TypeOK
<1>5. published[u] \subseteq 1 .. stamp
  BY DEF TypeOK
<1> DEFINE g == local[u].segment
<1>6. \A j \in Slots :
          /\ segments[g][j].node # NULL => segments'[g][j].node # NULL
          /\ segments[g][j].node \notin published[u] => segments'[g][j].node \notin published[u]
          /\ segments[g][j].deleted = 1 => segments'[g][j].deleted = 1
  <2> SUFFICES ASSUME NEW j \in Slots
               PROVE  /\ segments[g][j].node # NULL => segments'[g][j].node # NULL
                      /\ segments[g][j].node \notin published[u]
                            => segments'[g][j].node \notin published[u]
                      /\ segments[g][j].deleted = 1 => segments'[g][j].deleted = 1
    OBVIOUS
  <2>1. stamp \in Nat
    BY DEF TypeOK
  <2> QED
    BY <1>3, <1>5, <2>1 DEF Grows
<1>7. \A n : Behind(u, n)' = Behind(u, n)
  BY <1>1 DEF Behind
<1>8. local[u].slot \in Slots
  BY <1>3 DEF Local
<1>9. \A n : Behind(u, n) \subseteq Slots
  BY DEF Behind
<1>10. \A n : Taken(u, n) => Taken(u, n)'
  BY <1>1, <1>6, <1>7, <1>9 DEF Taken
<1>11. \A n : Searched(u, n) => Searched(u, n)'
  BY <1>1, <1>6, <1>7, <1>9 DEF Searched, Done
<1>12. NothingFound(u)' <=> NothingFound(u)
  BY <1>1 DEF NothingFound
<1>13. /\ Slot(u).node # NULL => Slot(u)'.node # NULL
       /\ Slot(u).node \notin published[u] => Slot(u)'.node \notin published'[u]
       /\ Slot(u).deleted = 1 => Slot(u)'.deleted = 1
  BY <1>1, <1>6, <1>8 DEF Slot
<1>14. InsertInv(u)'
  <2>1. InsertInv(u)
    BY <1>2 DEF ThreadInv
  <2>2. local[u].segment < Len(segments) => local[u].segment < Len(segments')
    BY <1>3, <1>4 DEF Grows, Local
  <2>3. pc'[u] = "push_read" => Taken(u, local[u].walk - 1)'
    BY <1>1, <1>10, <2>1 DEF InsertInv
  <2>4. pc'[u] = "push_walk" => Taken(u, local[u].walk - 1)' /\ Slot(u)'.node # NULL
    BY <1>1, <1>10, <1>13, <2>1 DEF InsertInv
  <2> QED
    BY <1>1, <1>6, <2>1, <2>2, <2>3, <2>4 DEF InsertInv
<1>15. DeleteInv(u)'
  <2>1. DeleteInv(u)
    BY <1>2 DEF ThreadInv
  <2>2. /\ local[u].segment <= head => local[u].segment <= head'
        /\ local[u].segment < tail => local[u].segment < tail'
    BY <1>3, <1>4 DEF Grows, Local
  <2>3. published[u] \cap Live = {} => published'[u] \cap Live' = {}
    BY <1>1, <1>5 DEF Grows
  <2>4. pc'[u] = "pop_top" =>
            Searched(u, local[u].walk)' /\ (local[u].walk > 0 => NothingFound(u)')
    BY <1>1, <1>11, <1>12, <2>1 DEF DeleteInv
  <2>5. pc'[u] \in {"pop_read", "pop_deleted", "pop_walk"} => Searched(u, local[u].walk - 1)'
    BY <1>1, <1>11, <2>1 DEF DeleteInv
  <2>6. pc'[u] \in {"pop_deleted", "pop_walk"} =>
            IF local[u].node = NULL THEN Slot(u)'.node \notin published'[u]
            ELSE Slot(u)'.node # NULL
    BY <1>1, <1>13, <2>1 DEF DeleteInv
  <2>7. pc'[u] = "pop_walk" =>
            NothingFound(u)' /\ (local[u].node # NULL => Slot(u)'.deleted = 1)
    BY <1>1, <1>12, <1>13, <2>1 DEF DeleteInv
  <2>8. pc'[u] = "pop_pass" =>
            /\ local[u].segment < tail'
            /\ \A j \in Slots : segments'[local[u].segment][j].deleted = 1
    BY <1>1, <1>6, <2>1, <2>2 DEF DeleteInv
  <2>9. pc'[u] = "deq_cas" =>
            IF NothingFound(u)' THEN published'[u] \cap Live' = {} ELSE Slot(u)'.node # NULL
    BY <1>1, <1>12, <1>13, <2>1, <2>3 DEF DeleteInv
  <2>10. pc'[u] \in PopPCs => local'[u].segment <= head'
    BY <1>1, <2>1, <2>2 DEF DeleteInv
  <2> QED
    BY <1>1, <2>4, <2>5, <2>6, <2>7, <2>8, <2>9, <2>10 DEF DeleteInv
<1>16. 1 <= local'[u].segment /\ local'[u].segment <= tail'
  BY <1>1, <1>2, <1>3, <1>4 DEF Grows, ThreadInv, Local
<1> QED
  BY <1>14, <1>15, <1>16 DEF ThreadInv

-----------------------------------------------------------------------------
Step(t) == Insert(t) \/ Delete(t)
shared == <<segments, head, tail, stamp>>

Empty == [i \in Slots |-> Free]
Reset ==
    [slot |-> 0, segment |-> 1, walk |-> 0, node |-> NULL, deleted |-> 0, pending |-> 0]

LEMMA EmptyTyped ==
    ASSUME SizeOK
    PROVE  Empty \in [Slots -> Cell] /\ Reset \in Local
BY DEF SizeOK, Empty, Free, Cell, Reset, Local, Slots, NULL

\* A search that starts takes a slot of the given segment.
LEMMA Starts ==
    ASSUME SizeOK, TypeOK, NEW t \in Threads, NEW g \in Nat, Start(t, g)
    PROVE  /\ local' \in [Threads -> Local]
           /\ \A u \in Threads \ {t} : local'[u] = local[u]
           /\ local'[t].segment = g /\ local'[t].walk = 0
<1>1. PICK i \in Slots :
          local' = [local EXCEPT ![t].slot = i, ![t].segment = g, ![t].walk = 0,
                                 ![t].pending = 0]
  BY DEF Start
<1>2. local \in [Threads -> Local]
  BY DEF TypeOK
<1>3. local' = [local EXCEPT ![t] = [local[t] EXCEPT !.slot = i, !.segment = g, !.walk = 0,
                                                     !.pending = 0]]
  BY <1>1, <1>2
<1>4. [local[t] EXCEPT !.slot = i, !.segment = g, !.walk = 0, !.pending = 0] \in Local
  <2>1. local[t] \in Local /\ 0 \in 0 .. SegmentSize /\ 0 \in {0, 1}
    BY <1>2 DEF SizeOK
  <2> QED
    BY <2>1 DEF Local
<1> QED
  BY <1>2, <1>3, <1>4 DEF Local

\* A change of the thread's own locals keeps the others'.
LEMMA Returns ==
    ASSUME SizeOK, TypeOK, NEW t \in Threads, NEW from, Return(t, from)
    PROVE  /\ pc[t] = from /\ pc'[t] = "idle" /\ pc' \in [Threads -> PCs]
           /\ local' \in [Threads -> Local] /\ local'[t] = Reset
           /\ \A S : published \in [Threads -> SUBSET S] => published' \in [Threads -> SUBSET S]
           /\ Quiet(t)
<1>1. Reset \in Local
  BY EmptyTyped
<1>2. local' = [local EXCEPT ![t] = Reset]
  BY DEF Return, Reset
<1>3. "idle" \in PCs
  BY DEF PCs
<1> QED
  BY <1>1, <1>2, <1>3 DEF Return, Goto, TypeOK, Quiet

\* One segment replaced.
LEMMA Replaced ==
    ASSUME segments \in Seq([Slots -> Cell]), NEW g, g \in DOMAIN segments,
           NEW row, row \in [Slots -> Cell], segments' = [segments EXCEPT ![g] = row]
    PROVE  /\ segments' \in Seq([Slots -> Cell]) /\ Len(segments') = Len(segments)
           /\ \A h \in DOMAIN segments : segments'[h] = IF h = g THEN row ELSE segments[h]
OBVIOUS

\* What an insert stores.
LEMMA Stored ==
    ASSUME SizeOK, TypeOK, Inv, NEW t \in Threads, NEW n \in Nat,
           segments' = [segments EXCEPT ![local[t].segment][local[t].slot].node = n]
    PROVE  /\ segments' \in Seq([Slots -> Cell]) /\ Len(segments') = Len(segments)
           /\ \A g \in DOMAIN segments, i \in Slots :
                 segments'[g][i] =
                    IF g = local[t].segment /\ i = local[t].slot
                    THEN [node |-> n, deleted |-> segments[g][i].deleted] ELSE segments[g][i]
<1> DEFINE g == local[t].segment
           s == local[t].slot
           row == [segments[g] EXCEPT ![s] = [segments[g][s] EXCEPT !.node = n]]
<1>1. g \in DOMAIN segments /\ s \in Slots
  BY Place DEF Local
<1>2. segments[g] \in [Slots -> Cell] /\ segments \in Seq([Slots -> Cell])
  BY <1>1 DEF TypeOK
<1>3. segments' = [segments EXCEPT ![g] = row]
  BY <1>1, <1>2
<1>4. [segments[g][s] EXCEPT !.node = n] \in Cell
      /\ [segments[g][s] EXCEPT !.node = n] = [node |-> n, deleted |-> segments[g][s].deleted]
  <2>1. segments[g][s] \in Cell
    BY <1>1, <1>2
  <2> HIDE DEF g, s
  <2> QED
    BY <2>1 DEF Cell
<1>5. row \in [Slots -> Cell]
  BY <1>1, <1>2, <1>4
<1> HIDE DEF row
<1>6. /\ segments' \in Seq([Slots -> Cell]) /\ Len(segments') = Len(segments)
      /\ \A h \in DOMAIN segments : segments'[h] = IF h = g THEN row ELSE segments[h]
  BY <1>1, <1>2, <1>3, <1>5, Replaced
<1>7. \A i \in Slots :
          row[i] = IF i = s THEN [node |-> n, deleted |-> segments[g][s].deleted]
                   ELSE segments[g][i]
  BY <1>1, <1>2, <1>4 DEF row
<1> QED
  BY <1>6, <1>7

\* What a delete stores.
LEMMA Deleted ==
    ASSUME SizeOK, TypeOK, Inv, NEW t \in Threads,
           segments' = [segments EXCEPT ![local[t].segment][local[t].slot].deleted = 1]
    PROVE  /\ segments' \in Seq([Slots -> Cell]) /\ Len(segments') = Len(segments)
           /\ \A g \in DOMAIN segments, i \in Slots :
                 segments'[g][i] =
                    IF g = local[t].segment /\ i = local[t].slot
                    THEN [node |-> segments[g][i].node, deleted |-> 1] ELSE segments[g][i]
<1> DEFINE g == local[t].segment
           s == local[t].slot
           row == [segments[g] EXCEPT ![s] = [segments[g][s] EXCEPT !.deleted = 1]]
<1>1. g \in DOMAIN segments /\ s \in Slots
  BY Place DEF Local
<1>2. segments[g] \in [Slots -> Cell] /\ segments \in Seq([Slots -> Cell])
  BY <1>1 DEF TypeOK
<1>3. segments' = [segments EXCEPT ![g] = row]
  BY <1>1, <1>2
<1>4. [segments[g][s] EXCEPT !.deleted = 1] \in Cell
      /\ [segments[g][s] EXCEPT !.deleted = 1] = [node |-> segments[g][s].node, deleted |-> 1]
  <2>1. segments[g][s] \in Cell
    BY <1>1, <1>2
  <2> HIDE DEF g, s
  <2> QED
    BY <2>1 DEF Cell
<1>5. row \in [Slots -> Cell]
  BY <1>1, <1>2, <1>4
<1> HIDE DEF row
<1>6. /\ segments' \in Seq([Slots -> Cell]) /\ Len(segments') = Len(segments)
      /\ \A h \in DOMAIN segments : segments'[h] = IF h = g THEN row ELSE segments[h]
  BY <1>1, <1>2, <1>3, <1>5, Replaced
<1>7. \A i \in Slots :
          row[i] = IF i = s THEN [node |-> segments[g][s].node, deleted |-> 1]
                   ELSE segments[g][i]
  BY <1>1, <1>2, <1>4 DEF row
<1> QED
  BY <1>6, <1>7

-----------------------------------------------------------------------------
(***************************************************************************)
(* Steps that change no shared variable.                                   *)
(***************************************************************************)
Own(t, l) == l \in Local /\ local' = [local EXCEPT ![t] = l]

\* Such a step keeps the invariant if the thread keeps its part.
LEMMA LocalStep ==
    ASSUME SizeOK, TypeOK, Inv, NEW t \in Threads, Quiet(t), TypeOK', UNCHANGED shared,
           ThreadInv(t)'
    PROVE  Inv'
<1>1. SegmentsInv' /\ Live' = Live
  BY DEF Inv, shared, SegmentsInv, Pointers, UsedUp, Full, Fresh, Stamped, Ordered, Once, Live
<1>2. Grows
  BY <1>1 DEF Grows, shared, TypeOK
<1>3. \A u \in Threads : u # t => ThreadInv(u)'
  BY <1>2, OthersKeep
<1> QED
  BY <1>1, <1>3 DEF Inv

\* The types after such a step.
LEMMA LocalTypes ==
    ASSUME TypeOK, NEW t \in Threads, NEW l \in Local, NEW to \in PCs,
           pc' = [pc EXCEPT ![t] = to], local' = [local EXCEPT ![t] = l],
           UNCHANGED <<shared, published>>
    PROVE  /\ TypeOK' /\ Quiet(t)
           /\ pc'[t] = to /\ local'[t] = l
BY DEF TypeOK, Quiet, shared

LEMMA StayTypes ==
    ASSUME TypeOK, NEW t \in Threads, NEW to \in PCs, pc' = [pc EXCEPT ![t] = to],
           UNCHANGED <<shared, published, local>>
    PROVE  /\ TypeOK' /\ Quiet(t)
           /\ pc'[t] = to /\ local'[t] = local[t]
BY DEF TypeOK, Quiet, shared

LEMMA CallsInv ==
    ASSUME SizeOK, TypeOK, Inv, NEW t \in Threads, InsertCall(t) \/ DeleteCall(t)
    PROVE  TypeOK' /\ Inv'
<1>1. Live \subseteq 1 .. stamp
  BY DEF Live
<1>2. /\ pc' = [pc EXCEPT ![t] = pc'[t]] /\ pc'[t] \in {"push_start", "pop_start"}
      /\ UNCHANGED shared /\ local' = local
      /\ published' = published \/ published' = [published EXCEPT ![t] = Live]
  BY DEF InsertCall, DeleteCall, Goto, shared, TypeOK
<1>3. published' \in [Threads -> SUBSET (1 .. stamp)]
  BY <1>1, <1>2 DEF TypeOK
<1>4. pc' \in [Threads -> PCs]
  BY <1>2 DEF TypeOK, PCs, PushPCs
<1>5. TypeOK' /\ Quiet(t)
  BY <1>2, <1>3, <1>4 DEF TypeOK, shared, Quiet
<1>6. 1 <= local[t].segment /\ local[t].segment <= tail
  BY DEF Inv, ThreadInv
<1>7. ThreadInv(t)'
  BY <1>2, <1>6 DEF ThreadInv, InsertInv, DeleteInv, shared, PopPCs
<1> QED
  BY <1>2, <1>5, <1>7, LocalStep

LEMMA StartsInv ==
    ASSUME SizeOK, TypeOK, Inv, NEW t \in Threads, PushStart(t) \/ PopStart(t)
    PROVE  TypeOK' /\ Inv'
<1>1. /\ UNCHANGED <<shared, published>>
      /\ \/ pc' = [pc EXCEPT ![t] = "push_read"] /\ Start(t, tail)
         \/ pc' = [pc EXCEPT ![t] = "pop_top"] /\ Start(t, head)
  BY DEF PushStart, PopStart, shared, Goto
<1>2. /\ local' \in [Threads -> Local]
      /\ \A u \in Threads \ {t} : local'[u] = local[u]
      /\ local'[t].walk = 0
      /\ \/ pc'[t] = "push_read" /\ local'[t].segment = tail
         \/ pc'[t] = "pop_top" /\ local'[t].segment = head
  BY <1>1, Starts DEF TypeOK
<1>3. TypeOK' /\ Quiet(t)
  BY <1>1, <1>2 DEF TypeOK, shared, Quiet, PCs, PushPCs, PopPCs
<1>4. Behind(t, 0)' = {} /\ Behind(t, -1)' = {}
  <2>1. local'[t].slot \in Slots
    BY <1>2 DEF Local
  <2>2. \A j \in Slots : Back(local'[t].slot, j) \in 1 .. SegmentSize
    BY <2>1, BackCounts
  <2> QED
    BY <2>2 DEF Behind, SizeOK
<1>5. Searched(t, local[t].walk)' /\ Taken(t, local[t].walk - 1)'
  <2>1. Searched(t, 0)' /\ Taken(t, -1)'
    BY <1>4 DEF Searched, Taken
  <2>2. 0 - 1 = -1
    OBVIOUS
  <2> QED
    BY <1>2, <2>1, <2>2
<1>6. 1 <= head /\ head <= tail /\ 1 <= tail /\ head \in Nat /\ tail \in Nat
  BY DEF Inv, SegmentsInv, Pointers, TypeOK
<1>7. ThreadInv(t)'
  BY <1>1, <1>2, <1>5, <1>6 DEF ThreadInv, InsertInv, DeleteInv, shared, PopPCs
<1> QED
  BY <1>1, <1>3, <1>7, LocalStep

-----------------------------------------------------------------------------
\* The steps of an insert that change no shared variable.
LEMMA PushReadInv ==
    ASSUME SizeOK, TypeOK, Inv, NEW t \in Threads, PushRead(t)
    PROVE  TypeOK' /\ Inv'
<1> DEFINE to == IF Slot(t).node = NULL THEN "enq_cae" ELSE "push_walk"
<1>1. /\ pc[t] = "push_read" /\ pc' = [pc EXCEPT ![t] = to]
      /\ UNCHANGED <<shared, published, local>>
  BY DEF PushRead, Branch, Goto, shared
<1>2. to \in PCs
  BY DEF PCs, PushPCs
<1>3. TypeOK' /\ Quiet(t) /\ pc'[t] = to /\ local'[t] = local[t]
  BY <1>1, <1>2, StayTypes
<1>4. ThreadInv(t)
  BY DEF Inv
<1>5. Taken(t, local[t].walk - 1) /\ (Taken(t, local[t].walk - 1) => Taken(t, local[t].walk - 1)')
  BY <1>1, <1>4 DEF ThreadInv, InsertInv, Taken, Behind, shared
<1>6. Slot(t)' = Slot(t)
  BY <1>1 DEF Slot, shared
<1>7. ThreadInv(t)'
  BY <1>1, <1>3, <1>4, <1>5, <1>6 DEF ThreadInv, InsertInv, DeleteInv, shared, PopPCs
<1> QED
  BY <1>1, <1>3, <1>7, LocalStep DEF shared

LEMMA PushWalkInv ==
    ASSUME SizeOK, TypeOK, Inv, NEW t \in Threads, PushWalk(t)
    PROVE  TypeOK' /\ Inv'
<1> DEFINE here == local[t].segment = tail
           walk == IF here THEN local[t].walk ELSE 0
           to == IF walk >= SegmentSize THEN "create" ELSE "push_read"
           slot == IF here THEN NextSlot(local[t].slot) ELSE local[t].slot
           n == IF walk >= SegmentSize THEN walk ELSE walk + 1
           l == [local[t] EXCEPT !.walk = n, !.slot = slot, !.segment = tail]
<1>1. pc[t] = "push_walk" /\ pc' = [pc EXCEPT ![t] = to] /\ UNCHANGED <<shared, published>>
  BY DEF PushWalk, Branch, Goto, shared
<1>2. local[t] \in Local /\ local \in [Threads -> Local]
  BY DEF TypeOK
<1>3. local' = [local EXCEPT ![t] = l]
  BY <1>2 DEF PushWalk
<1>4. local[t].slot \in Slots /\ local[t].walk \in 0 .. SegmentSize
  BY <1>2 DEF Local
<1>5. walk \in 0 .. SegmentSize
  BY <1>4 DEF SizeOK
<1>6. slot \in Slots
  BY <1>4, BackCounts
<1>7. tail \in Nat /\ 1 <= tail
  BY DEF TypeOK, Inv, SegmentsInv, Pointers
<1>8. l \in Local /\ l.segment = tail /\ l.slot = slot /\ l.walk = n
  <2>1. n \in 0 .. SegmentSize
    BY <1>5 DEF SizeOK
  <2> HIDE DEF n, slot
  <2> QED
    BY <1>2, <1>6, <1>7, <2>1 DEF Local
<1>9. to \in PCs
  BY DEF PCs, PushPCs
<1> HIDE DEF l
<1>10. TypeOK' /\ Quiet(t) /\ pc'[t] = to /\ local'[t] = l
  BY <1>1, <1>3, <1>8, <1>9, LocalTypes
<1>11. Taken(t, local[t].walk - 1) /\ Slot(t).node # NULL
  BY <1>1 DEF Inv, ThreadInv, InsertInv
<1>12. (pc'[t] = "create") => \A j \in Slots : segments'[tail][j].node # NULL
  <2> SUFFICES ASSUME walk >= SegmentSize
               PROVE  \A j \in Slots : segments[tail][j].node # NULL
    BY <1>1, <1>10 DEF shared
  <2>1. here /\ local[t].walk = SegmentSize
    BY <1>4, <1>5 DEF SizeOK
  <2>2. Slots \ {local[t].slot} \subseteq Behind(t, local[t].walk - 1)
    BY <1>4, <2>1, BehindRange DEF SizeOK
  <2> QED
    BY <1>11, <2>1, <2>2 DEF Taken, Slot
<1>13. (pc'[t] = "push_read") => Taken(t, local[t].walk - 1)'
  <2>0. (pc'[t] = "push_read") => walk < SegmentSize
    <3> HIDE DEF walk
    <3> QED
      BY <1>5, <1>10 DEF SizeOK
  <2> SUFFICES ASSUME walk < SegmentSize
               PROVE  Taken(t, local[t].walk - 1)'
    BY <2>0
  <2>1. local'[t].walk - 1 = walk
    <3> HIDE DEF walk
    <3> QED
      BY <1>5, <1>8, <1>10 DEF SizeOK
  <2>2. CASE here
    <3>1. local'[t].slot = NextSlot(local[t].slot)
      BY <1>8, <1>10, <2>2
    <3>2. PICK m \in Int : m = local[t].walk - 1
      BY <1>4
    <3>3. local'[t].walk - 1 = m + 1
      BY <1>4, <2>1, <2>2, <3>2
    <3>4. Behind(t, m + 1)' \subseteq Behind(t, m) \cup {local[t].slot}
      BY <1>4, <3>1, BehindStep
    <3>5. local'[t].segment = local[t].segment
      BY <1>8, <1>10, <2>2
    <3>6. Taken(t, m + 1)'
      BY <1>1, <1>11, <3>2, <3>4, <3>5 DEF Taken, Slot, shared
    <3> QED
      BY <3>3, <3>6
  <2>3. CASE ~here
    <3>1. \A j \in Slots : Back(local'[t].slot, j) \in 1 .. SegmentSize
      BY <1>6, <1>8, <1>10, BackCounts
    <3>2. local'[t].walk - 1 = 0
      BY <2>1, <2>3
    <3> QED
      BY <3>1, <3>2 DEF Taken, Behind, SizeOK
  <2> QED
    BY <2>2, <2>3
<1>14. ThreadInv(t)'
  BY <1>1, <1>7, <1>8, <1>10, <1>12, <1>13 DEF ThreadInv, InsertInv, DeleteInv, shared, PopPCs
<1> QED
  BY <1>1, <1>10, <1>14, LocalStep

LEMMA CreatedInv ==
    ASSUME SizeOK, TypeOK, Inv, NEW t \in Threads, Created(t)
    PROVE  TypeOK' /\ Inv'
<1> DEFINE l == [local[t] EXCEPT !.segment = tail, !.walk = 0]
<1>1. pc' = [pc EXCEPT ![t] = "push_read"] /\ UNCHANGED <<shared, published>>
  BY DEF Created, Goto, shared
<1>2. local[t] \in Local /\ local \in [Threads -> Local]
  BY DEF TypeOK
<1>3. local' = [local EXCEPT ![t] = l]
  BY <1>2 DEF Created
<1>4. tail \in Nat /\ 1 <= tail
  BY DEF TypeOK, Inv, SegmentsInv, Pointers
<1>5. l \in Local /\ l.segment = tail /\ l.walk = 0
  <2>1. 0 \in 0 .. SegmentSize
    BY DEF SizeOK
  <2> QED
    BY <1>2, <1>4, <2>1 DEF Local
<1>6. "push_read" \in PCs
  BY DEF PCs, PushPCs
<1> HIDE DEF l
<1>7. TypeOK' /\ Quiet(t) /\ pc'[t] = "push_read" /\ local'[t] = l
  BY <1>1, <1>3, <1>5, <1>6, LocalTypes
<1>8. Taken(t, local[t].walk - 1)'
  <2>1. local'[t].slot \in Slots
    BY <1>5, <1>7 DEF Local
  <2>2. \A j \in Slots : Back(local'[t].slot, j) \in 1 .. SegmentSize
    BY <2>1, BackCounts
  <2> QED
    BY <1>5, <1>7, <2>2 DEF Taken, Behind, SizeOK
<1>9. ThreadInv(t)'
  BY <1>1, <1>4, <1>5, <1>7, <1>8 DEF ThreadInv, InsertInv, DeleteInv, shared, PopPCs
<1> QED
  BY <1>1, <1>7, <1>9, LocalStep

-----------------------------------------------------------------------------
\* The steps of a delete that change no shared variable.
LEMMA PopTopInv ==
    ASSUME SizeOK, TypeOK, Inv, NEW t \in Threads, PopTop(t)
    PROVE  TypeOK' /\ Inv'
<1>1. pc[t] = "pop_top" /\ UNCHANGED <<shared, published>>
  BY DEF PopTop, Goto, Branch, shared
<1>2. local[t] \in Local /\ local \in [Threads -> Local] /\ pc \in [Threads -> PCs]
  BY DEF TypeOK
<1>3. local[t].slot \in Slots /\ local[t].walk \in 0 .. SegmentSize /\ local[t].segment \in Nat
  BY <1>2 DEF Local
<1>4. /\ 1 <= local[t].segment /\ local[t].segment <= tail /\ local[t].segment <= head
      /\ Searched(t, local[t].walk) /\ (local[t].walk > 0 => NothingFound(t))
  BY <1>1 DEF Inv, ThreadInv, DeleteInv, PopPCs
<1>5. /\ head \in Nat /\ tail \in Nat /\ head <= tail /\ tail <= Len(segments)
      /\ Len(segments) <= tail + 1 /\ Len(segments) \in Nat
      /\ DOMAIN segments = 1 .. Len(segments)
  BY DEF TypeOK, Inv, SegmentsInv, Pointers
<1>6. CASE local[t].walk >= SegmentSize /\ local[t].segment = tail
  <2>1. pc' = [pc EXCEPT ![t] = "deq_cas"] /\ local' = local
    BY <1>6, <1>3 DEF PopTop, Goto, SizeOK
  <2>2. "deq_cas" \in PCs
    BY DEF PCs, PopPCs
  <2>3. TypeOK' /\ Quiet(t) /\ pc'[t] = "deq_cas" /\ local'[t] = local[t]
    BY <1>1, <2>1, <2>2, StayTypes
  <2>4. NothingFound(t) /\ Behind(t, local[t].walk) = Slots
    BY <1>3, <1>4, <1>6, BehindRange DEF SizeOK
  <2>5. \A j \in Slots : Done(t, j)
    BY <1>4, <2>4 DEF Searched
  <2>6. published[t] \cap Live = {}
    <3> SUFFICES ASSUME NEW s \in published[t], s \in Live PROVE FALSE
      OBVIOUS
    <3>1. PICK g \in DOMAIN segments :
              \E i \in Slots : segments[g][i] = [node |-> s, deleted |-> 0]
      BY DEF Live
    <3>2. PICK i \in Slots : segments[g][i] = [node |-> s, deleted |-> 0]
      BY <3>1
    <3>3. s # NULL
      BY DEF Live, NULL, TypeOK
    <3>4. ~(g < head)
      <4>1. g < head => g \in 1 .. head - 1
        BY <1>5, <3>1
      <4> QED
        BY <3>2, <4>1 DEF Inv, SegmentsInv, UsedUp
    <3>5. ~(g > tail)
      <4>1. g > tail => g \in tail + 1 .. Len(segments)
        BY <1>5, <3>1
      <4> QED
        BY <3>2, <3>3, <4>1 DEF Inv, SegmentsInv, Fresh
    <3>6. g = local[t].segment
      BY <1>3, <1>4, <1>5, <1>6, <3>1, <3>4, <3>5
    <3> QED
      BY <2>5, <3>2, <3>6 DEF Done
  <2>7. published'[t] \cap Live' = {} /\ NothingFound(t)'
    BY <1>1, <2>1, <2>4, <2>6 DEF shared, Live, NothingFound
  <2>8. ThreadInv(t)'
    BY <1>1, <1>4, <2>1, <2>3, <2>7 DEF ThreadInv, InsertInv, DeleteInv, shared, PopPCs
  <2> QED
    BY <1>1, <2>3, <2>8, LocalStep
<1>7. CASE local[t].walk >= SegmentSize /\ local[t].segment # tail
  <2> DEFINE to == IF local[t].pending = 0 THEN "pop_pass" ELSE "pop_read"
  <2>1. pc' = [pc EXCEPT ![t] = to] /\ local' = local
    BY <1>7, <1>3 DEF PopTop, Goto, Branch, SizeOK
  <2>2. to \in PCs
    BY DEF PCs, PopPCs
  <2>3. TypeOK' /\ Quiet(t) /\ pc'[t] = to /\ local'[t] = local[t]
    BY <1>1, <2>1, <2>2, StayTypes
  <2>4. Behind(t, local[t].walk) = Slots /\ Behind(t, local[t].walk - 1) \subseteq Slots
    BY <1>3, <1>7, BehindRange DEF SizeOK, Behind
  <2>5. \A j \in Slots : Done(t, j)
    BY <1>4, <2>4 DEF Searched
  <2>6. local[t].segment < tail
    BY <1>3, <1>4, <1>5, <1>7
  <2>7. pc'[t] = "pop_pass" =>
            \A j \in Slots : segments'[local'[t].segment][j].deleted = 1
    BY <1>1, <2>1, <2>3, <2>5 DEF Done, shared
  <2>8. Searched(t, local[t].walk - 1)'
    BY <1>1, <2>1, <2>4, <2>5 DEF Searched, Done, Behind, shared
  <2>9. ThreadInv(t)'
    BY <1>1, <1>4, <2>1, <2>3, <2>6, <2>7, <2>8
       DEF ThreadInv, InsertInv, DeleteInv, shared, PopPCs
  <2> QED
    BY <1>1, <2>3, <2>9, LocalStep
<1>8. CASE local[t].walk < SegmentSize
  <2> DEFINE l == [local[t] EXCEPT !.walk = @ + 1]
  <2>1. pc' = [pc EXCEPT ![t] = "pop_read"] /\ local' = [local EXCEPT ![t] = l]
    BY <1>2, <1>3, <1>8 DEF PopTop, Goto, Branch, SizeOK
  <2>2. /\ l \in Local /\ l.walk = local[t].walk + 1 /\ l.segment = local[t].segment
        /\ l.slot = local[t].slot /\ l.pending = local[t].pending
    <3>1. local[t].walk + 1 \in 0 .. SegmentSize
      BY <1>3, <1>8 DEF SizeOK
    <3> QED
      BY <1>2, <3>1 DEF Local
  <2>3. "pop_read" \in PCs
    BY DEF PCs, PopPCs
  <2> HIDE DEF l
  <2>4. TypeOK' /\ Quiet(t) /\ pc'[t] = "pop_read" /\ local'[t] = l
    BY <1>1, <2>1, <2>2, <2>3, LocalTypes
  <2>5. local'[t].walk - 1 = local[t].walk
    BY <1>3, <2>2, <2>4
  <2>6. Searched(t, local[t].walk - 1)'
    BY <1>1, <1>4, <2>2, <2>4, <2>5 DEF Searched, Done, Behind, shared
  <2>7. ThreadInv(t)'
    BY <1>1, <1>4, <2>2, <2>4, <2>6 DEF ThreadInv, InsertInv, DeleteInv, shared, PopPCs
  <2> QED
    BY <1>1, <2>4, <2>7, LocalStep
<1> QED
  BY <1>3, <1>6, <1>7, <1>8 DEF SizeOK

LEMMA PassedInv ==
    ASSUME SizeOK, TypeOK, Inv, NEW t \in Threads, Passed(t)
    PROVE  TypeOK' /\ Inv'
<1> DEFINE l == [local[t] EXCEPT !.segment = head, !.walk = 0]
<1>1. pc' = [pc EXCEPT ![t] = "pop_read"] /\ UNCHANGED <<shared, published>>
  BY DEF Passed, Goto, shared
<1>2. local[t] \in Local /\ local \in [Threads -> Local]
  BY DEF TypeOK
<1>3. local' = [local EXCEPT ![t] = l]
  BY <1>2 DEF Passed
<1>4. head \in Nat /\ tail \in Nat /\ 1 <= head /\ head <= tail
  BY DEF TypeOK, Inv, SegmentsInv, Pointers
<1>5. l \in Local /\ l.segment = head /\ l.walk = 0
  <2>1. 0 \in 0 .. SegmentSize
    BY DEF SizeOK
  <2> QED
    BY <1>2, <1>4, <2>1 DEF Local
<1>6. "pop_read" \in PCs
  BY DEF PCs, PopPCs
<1> HIDE DEF l
<1>7. TypeOK' /\ Quiet(t) /\ pc'[t] = "pop_read" /\ local'[t] = l
  BY <1>1, <1>3, <1>5, <1>6, LocalTypes
<1>8. Searched(t, local[t].walk - 1)'
  <2>1. local'[t].slot \in Slots
    BY <1>5, <1>7 DEF Local
  <2>2. \A j \in Slots : Back(local'[t].slot, j) \in 1 .. SegmentSize
    BY <2>1, BackCounts
  <2> QED
    BY <1>5, <1>7, <2>2 DEF Searched, Behind, SizeOK
<1>9. ThreadInv(t)'
  BY <1>1, <1>4, <1>5, <1>7, <1>8 DEF ThreadInv, InsertInv, DeleteInv, shared, PopPCs
<1> QED
  BY <1>1, <1>7, <1>9, LocalStep

LEMMA PopReadInv ==
    ASSUME SizeOK, TypeOK, Inv, NEW t \in Threads, PopRead(t)
    PROVE  TypeOK' /\ Inv'
<1> DEFINE l == [local[t] EXCEPT !.node = Slot(t).node]
<1>1. /\ pc[t] = "pop_read" /\ pc' = [pc EXCEPT ![t] = "pop_deleted"]
      /\ UNCHANGED <<shared, published>>
  BY DEF PopRead, Goto, shared
<1>2. local[t] \in Local /\ local \in [Threads -> Local] /\ Slot(t) \in Cell
  BY Place DEF TypeOK
<1>3. local' = [local EXCEPT ![t] = l]
  BY <1>2 DEF PopRead
<1>4. Slot(t).node \in Nat
  BY <1>2 DEF Cell
<1>5. /\ l \in Local /\ l.segment = local[t].segment /\ l.walk = local[t].walk
      /\ l.slot = local[t].slot /\ l.pending = local[t].pending /\ l.node = Slot(t).node
  BY <1>2, <1>4 DEF Local
<1>6. "pop_deleted" \in PCs
  BY DEF PCs, PopPCs
<1> HIDE DEF l
<1>7. TypeOK' /\ Quiet(t) /\ pc'[t] = "pop_deleted" /\ local'[t] = l
  BY <1>1, <1>3, <1>5, <1>6, LocalTypes
<1>8. /\ Searched(t, local[t].walk - 1) /\ 1 <= local[t].segment /\ local[t].segment <= tail
      /\ local[t].segment <= head
  BY <1>1 DEF Inv, ThreadInv, DeleteInv, PopPCs
<1>9. Searched(t, local[t].walk - 1)'
  BY <1>1, <1>5, <1>7, <1>8 DEF Searched, Done, Behind, shared
<1>10. Slot(t)' = Slot(t) /\ NULL \notin published'[t]
  <2>1. published[t] \subseteq 1 .. stamp /\ stamp \in Nat
    BY DEF TypeOK
  <2>2. published'[t] = published[t] /\ Slot(t)' = Slot(t)
    BY <1>1, <1>5, <1>7 DEF Slot, shared
  <2> QED
    BY <2>1, <2>2 DEF NULL
<1>11. ThreadInv(t)'
  BY <1>1, <1>5, <1>7, <1>8, <1>9, <1>10 DEF ThreadInv, InsertInv, DeleteInv, shared, PopPCs
<1> QED
  BY <1>1, <1>7, <1>11, LocalStep

LEMMA PopReadDeletedInv ==
    ASSUME SizeOK, TypeOK, Inv, NEW t \in Threads, PopReadDeleted(t)
    PROVE  TypeOK' /\ Inv'
<1> DEFINE l == [local[t] EXCEPT !.deleted = Slot(t).deleted]
           to == IF local[t].node # NULL /\ Slot(t).deleted = 0 THEN "deq_cas" ELSE "pop_walk"
<1>1. /\ pc[t] = "pop_deleted" /\ pc' = [pc EXCEPT ![t] = to]
      /\ UNCHANGED <<shared, published>>
  BY DEF PopReadDeleted, Branch, Goto, shared
<1>2. local[t] \in Local /\ local \in [Threads -> Local] /\ Slot(t) \in Cell
  BY Place DEF TypeOK
<1>3. local' = [local EXCEPT ![t] = l]
  BY <1>2 DEF PopReadDeleted
<1>4. Slot(t).deleted \in {0, 1}
  BY <1>2 DEF Cell
<1>5. /\ l \in Local /\ l.segment = local[t].segment /\ l.walk = local[t].walk
      /\ l.slot = local[t].slot /\ l.pending = local[t].pending /\ l.node = local[t].node
      /\ l.deleted = Slot(t).deleted
  BY <1>2, <1>4 DEF Local
<1>6. to \in PCs
  BY DEF PCs, PopPCs
<1> HIDE DEF l
<1>7. TypeOK' /\ Quiet(t) /\ pc'[t] = to /\ local'[t] = l
  BY <1>1, <1>3, <1>5, <1>6, LocalTypes
<1>8. /\ Searched(t, local[t].walk - 1) /\ 1 <= local[t].segment /\ local[t].segment <= tail
      /\ local[t].segment <= head
      /\ IF local[t].node = NULL THEN Slot(t).node \notin published[t] ELSE Slot(t).node # NULL
  BY <1>1 DEF Inv, ThreadInv, DeleteInv, PopPCs
<1>9. Searched(t, local[t].walk - 1)'
  BY <1>1, <1>5, <1>7, <1>8 DEF Searched, Done, Behind, shared
<1>10. Slot(t)' = Slot(t) /\ published'[t] = published[t]
  BY <1>1, <1>5, <1>7 DEF Slot, shared
<1>11. NothingFound(t)' <=> Slot(t).deleted = 1 \/ local[t].node = NULL
  BY <1>5, <1>7 DEF NothingFound
<1>12. ThreadInv(t)'
  BY <1>1, <1>4, <1>5, <1>7, <1>8, <1>9, <1>10, <1>11
     DEF ThreadInv, InsertInv, DeleteInv, shared, PopPCs
<1> QED
  BY <1>1, <1>7, <1>12, LocalStep

LEMMA PopWalkInv ==
    ASSUME SizeOK, TypeOK, Inv, NEW t \in Threads, PopWalk(t)
    PROVE  TypeOK' /\ Inv'
<1>1. /\ pc[t] = "pop_walk" /\ pc' = [pc EXCEPT ![t] = "pop_top"]
      /\ UNCHANGED <<shared, published>>
  BY DEF PopWalk, Goto, shared
<1>2. local[t] \in Local /\ local \in [Threads -> Local] /\ Slot(t) \in Cell
  BY Place DEF TypeOK
<1>3. "pop_top" \in PCs
  BY DEF PCs, PopPCs
<1>4. head \in Nat /\ tail \in Nat /\ 1 <= head /\ head <= tail
  BY DEF TypeOK, Inv, SegmentsInv, Pointers
<1>5. /\ Searched(t, local[t].walk - 1) /\ NothingFound(t)
      /\ local[t].node # NULL => Slot(t).deleted = 1
      /\ local[t].node = NULL => Slot(t).node \notin published[t]
  BY <1>1 DEF Inv, ThreadInv, DeleteInv
<1>6. local[t].slot \in Slots /\ local[t].walk \in 0 .. SegmentSize
  BY <1>2 DEF Local
<1>7. CASE local[t].segment = head
  <2> DEFINE pending == IF local[t].node = NULL THEN 1 ELSE local[t].pending
             l == [local[t] EXCEPT !.slot = NextSlot(local[t].slot), !.pending = pending]
  <2>1. local' = [local EXCEPT ![t] = l]
    BY <1>2, <1>7 DEF PopWalk
  <2>2. pending \in {0, 1} /\ NextSlot(local[t].slot) \in Slots
    BY <1>2, <1>6, BackCounts DEF Local
  <2>3. /\ l \in Local /\ l.segment = local[t].segment /\ l.walk = local[t].walk
        /\ l.slot = NextSlot(local[t].slot) /\ l.pending = pending
        /\ l.node = local[t].node /\ l.deleted = local[t].deleted
    <3> HIDE DEF pending
    <3> QED
      BY <1>2, <2>2 DEF Local
  <2> HIDE DEF l
  <2>4. TypeOK' /\ Quiet(t) /\ pc'[t] = "pop_top" /\ local'[t] = l
    BY <1>1, <1>3, <2>1, <2>3, LocalTypes
  <2>5. PICK m \in Int : m = local[t].walk - 1
    BY <1>6
  <2>6. local'[t].walk = m + 1
    BY <1>6, <2>3, <2>4, <2>5
  <2>7. Behind(t, m + 1)' \subseteq Behind(t, m) \cup {local[t].slot}
    BY <1>6, <2>3, <2>4, BehindStep
  <2>8. \A j \in Behind(t, m) : Done(t, j)'
    BY <1>1, <1>5, <2>3, <2>4, <2>5 DEF Searched, Done, shared
  <2>9. \/ Done(t, local[t].slot)
        \/ local[t].node = NULL /\ Slot(t).node \notin published[t]
    BY <1>5 DEF Done, Slot
  <2>10. \A j : j = local[t].slot => Done(t, j)'
    BY <1>1, <2>3, <2>4, <2>9 DEF Done, Slot, shared
  <2>11. Searched(t, m + 1)'
    BY <2>7, <2>8, <2>10 DEF Searched
  <2>12. Searched(t, local[t].walk)'
    BY <2>6, <2>11
  <2>13. NothingFound(t)'
    BY <1>5, <2>3, <2>4 DEF NothingFound
  <2>14. ThreadInv(t)'
    BY <1>1, <1>4, <1>7, <2>3, <2>4, <2>12, <2>13
       DEF ThreadInv, InsertInv, DeleteInv, shared, PopPCs
  <2> QED
    BY <1>1, <2>4, <2>14, LocalStep
<1>8. CASE local[t].segment # head
  <2> DEFINE l == [local[t] EXCEPT !.segment = head, !.walk = 0]
  <2>1. local' = [local EXCEPT ![t] = l]
    BY <1>2, <1>8 DEF PopWalk
  <2>2. l \in Local /\ l.segment = head /\ l.walk = 0
    <3>1. 0 \in 0 .. SegmentSize
      BY DEF SizeOK
    <3> QED
      BY <1>2, <1>4, <3>1 DEF Local
  <2> HIDE DEF l
  <2>3. TypeOK' /\ Quiet(t) /\ pc'[t] = "pop_top" /\ local'[t] = l
    BY <1>1, <1>3, <2>1, <2>2, LocalTypes
  <2>4. Searched(t, local[t].walk)'
    <3>1. local'[t].slot \in Slots
      BY <2>2, <2>3 DEF Local
    <3>2. \A j \in Slots : Back(local'[t].slot, j) \in 1 .. SegmentSize
      BY <3>1, BackCounts
    <3> QED
      BY <2>2, <2>3, <3>2 DEF Searched, Behind, SizeOK
  <2>5. ThreadInv(t)'
    BY <1>1, <1>4, <2>2, <2>3, <2>4 DEF ThreadInv, InsertInv, DeleteInv, shared, PopPCs
  <2> QED
    BY <1>1, <2>3, <2>5, LocalStep
<1> QED
  BY <1>7, <1>8

\* A thread that has returned has nothing to keep.
LEMMA IdleKeeps ==
    ASSUME TypeOK', SegmentsInv', NEW t \in Threads, pc'[t] = "idle", local'[t] = Reset
    PROVE  ThreadInv(t)'
BY DEF ThreadInv, InsertInv, DeleteInv, PopPCs, Reset, SegmentsInv, Pointers, TypeOK

LEMMA ReturnEmptyInv ==
    ASSUME SizeOK, TypeOK, Inv, NEW t \in Threads, ReturnEmpty(t)
    PROVE  TypeOK' /\ Inv'
<1>1. Return(t, "deq_cas") /\ UNCHANGED shared
  BY DEF ReturnEmpty, shared
<1>2. /\ pc'[t] = "idle" /\ pc' \in [Threads -> PCs]
      /\ local' \in [Threads -> Local] /\ local'[t] = Reset
      /\ \A S : published \in [Threads -> SUBSET S] => published' \in [Threads -> SUBSET S]
      /\ Quiet(t)
  BY <1>1, Returns
<1>3. TypeOK'
  BY <1>1, <1>2 DEF TypeOK, shared
<1>4. SegmentsInv'
  BY <1>1 DEF Inv, shared, SegmentsInv, Pointers, UsedUp, Full, Fresh, Stamped, Ordered, Once
<1> QED
  BY <1>1, <1>2, <1>3, <1>4, IdleKeeps, LocalStep

\* A compare-exchange that fails, and a segment that another thread has linked.
LEMMA FailsInv ==
    ASSUME SizeOK, TypeOK, Inv, NEW t \in Threads, UNCHANGED <<shared, published, local>>,
           \/ pc' = [pc EXCEPT ![t] = "push_start"]
           \/ pc' = [pc EXCEPT ![t] = "pop_start"]
           \/ pc' = [pc EXCEPT ![t] = "created"]
           \/ pc' = [pc EXCEPT ![t] = "swing"] /\ local[t].segment < Len(segments)
    PROVE  TypeOK' /\ Inv'
<1>1. PICK to \in {"push_start", "pop_start", "created", "swing"} :
          /\ pc' = [pc EXCEPT ![t] = to]
          /\ to = "swing" => local[t].segment < Len(segments)
  OBVIOUS
<1>2. to \in PCs
  BY DEF PCs, PushPCs
<1>3. TypeOK' /\ Quiet(t) /\ pc'[t] = to /\ local'[t] = local[t]
  BY <1>1, <1>2, StayTypes
<1>4. 1 <= local[t].segment /\ local[t].segment <= tail
  BY DEF Inv, ThreadInv
<1>5. ThreadInv(t)'
  BY <1>1, <1>3, <1>4 DEF ThreadInv, InsertInv, DeleteInv, shared, PopPCs
<1> QED
  BY <1>3, <1>5, LocalStep DEF shared

-----------------------------------------------------------------------------
(***************************************************************************)
(* Steps that move a pointer or change a segment.                          *)
(***************************************************************************)
\* Such a step keeps the invariant if it keeps the segments' and the thread's.
LEMMA GrowingStep ==
    ASSUME SizeOK, TypeOK, Inv, NEW t \in Threads, Quiet(t), TypeOK', Grows, SegmentsInv',
           ThreadInv(t)'
    PROVE  Inv'
<1>1. \A u \in Threads : u # t => ThreadInv(u)'
  BY OthersKeep
<1> QED
  BY <1>1 DEF Inv

\* A segment without items is appended to a last one that is full.
LEMMA AppendInv ==
    ASSUME SizeOK, TypeOK, Inv, NEW t \in Threads, CreateSegment(t),
           local[t].segment = Len(segments)
    PROVE  TypeOK' /\ Inv'
<1> USE DEF NULL
<1>1. /\ pc[t] = "create" /\ pc' = [pc EXCEPT ![t] = "swing"]
      /\ segments' = Append(segments, Empty)
      /\ UNCHANGED <<head, tail, stamp, local, published>>
  BY DEF CreateSegment, Goto, Empty
<1>2. Empty \in [Slots -> Cell]
  BY EmptyTyped
<1>3. /\ segments \in Seq([Slots -> Cell]) /\ Len(segments) \in Nat
      /\ head \in Nat /\ tail \in Nat /\ stamp \in Nat
      /\ DOMAIN segments = 1 .. Len(segments)
  BY DEF TypeOK
<1> DEFINE T == [Slots -> Cell]
<1>4. /\ segments' \in Seq(T) /\ Len(segments') = Len(segments) + 1
      /\ DOMAIN segments' = 1 .. Len(segments) + 1
      /\ \A g \in DOMAIN segments : segments'[g] = segments[g]
      /\ segments'[Len(segments) + 1] = Empty
  <2>1. Empty \in T /\ segments \in Seq(T)
    BY <1>2, <1>3
  <2> HIDE DEF T
  <2> QED
    BY <1>1, <1>3, <2>1
<1>5. "swing" \in PCs
  BY DEF PCs, PushPCs
<1>6. TypeOK' /\ Quiet(t) /\ pc'[t] = "swing" /\ local'[t] = local[t]
  BY <1>1, <1>4, <1>5 DEF TypeOK, Quiet
<1>7. /\ 1 <= local[t].segment /\ local[t].segment <= tail
      /\ \A j \in Slots : segments[local[t].segment][j].node # NULL
  BY <1>1 DEF Inv, ThreadInv, InsertInv
<1>8. /\ 1 <= head /\ head <= tail /\ tail = Len(segments)
  <2>1. Len(segments) \in Nat /\ tail \in Nat
    BY <1>3
  <2> QED
    BY <1>7, <2>1 DEF Inv, SegmentsInv, Pointers
<1>9. \A i \in Slots : Empty[i].node = NULL /\ Empty[i].deleted = 0
  BY DEF Empty, Free
<1>10. SegmentsInv'
  <2>1. Pointers'
    BY <1>1, <1>3, <1>4, <1>8 DEF Pointers
  <2>2. UsedUp'
    <3>1. \A g \in 1 .. head - 1 : g \in DOMAIN segments
      BY <1>3, <1>8
    <3> QED
      BY <1>1, <1>4, <3>1 DEF Inv, SegmentsInv, UsedUp
  <2>3. Full'
    <3> SUFFICES ASSUME NEW g \in 1 .. Len(segments), NEW i \in Slots
                 PROVE  segments'[g][i].node # NULL
      BY <1>3, <1>4 DEF Full
    <3>1. segments'[g] = segments[g]
      BY <1>3, <1>4
    <3>2. CASE g = Len(segments)
      BY <1>7, <3>1, <3>2
    <3>3. CASE g # Len(segments)
      <4>1. g \in 1 .. Len(segments) - 1
        <5>1. Len(segments) \in Nat
          BY <1>3
        <5> QED
          BY <3>3, <5>1
      <4> QED
        BY <3>1, <4>1 DEF Inv, SegmentsInv, Full
    <3> QED
      BY <3>2, <3>3
  <2>4. Fresh'
    <3> SUFFICES ASSUME NEW g \in tail + 1 .. Len(segments) + 1, NEW i \in Slots
                 PROVE  segments'[g][i].node = NULL
      BY <1>1, <1>4 DEF Fresh
    <3>1. g = Len(segments) + 1
      BY <1>3, <1>8
    <3> QED
      BY <1>4, <1>9, <3>1
  <2>5. \A g \in DOMAIN segments' : g \in DOMAIN segments \/ g = Len(segments) + 1
    BY <1>3, <1>4
  <2>6. Stamped'
    <3> SUFFICES ASSUME NEW g \in DOMAIN segments', NEW i \in Slots
                 PROVE  /\ segments'[g][i].node <= stamp
                        /\ segments'[g][i].deleted = 1 => segments'[g][i].node # NULL
      BY <1>1 DEF Stamped
    <3>1. CASE g \in DOMAIN segments
      BY <1>4, <3>1 DEF Inv, SegmentsInv, Stamped
    <3>2. CASE g = Len(segments) + 1
      BY <1>3, <1>4, <1>9, <3>2
    <3> QED
      BY <2>5, <3>1, <3>2
  <2>7. Ordered'
    <3> SUFFICES ASSUME NEW g \in DOMAIN segments', NEW h \in DOMAIN segments',
                        NEW i \in Slots, NEW j \in Slots, g < h, segments'[h][j].node # NULL
                 PROVE  segments'[g][i].node < segments'[h][j].node
      BY DEF Ordered
    <3>1. h \in DOMAIN segments
      BY <1>4, <1>9, <2>5
    <3>2. g \in DOMAIN segments
      BY <1>3, <2>5, <3>1
    <3> QED
      BY <1>4, <3>1, <3>2 DEF Inv, SegmentsInv, Ordered
  <2>8. Once'
    <3> SUFFICES ASSUME NEW g \in DOMAIN segments', NEW h \in DOMAIN segments',
                        NEW i \in Slots, NEW j \in Slots,
                        segments'[g][i].node = segments'[h][j].node,
                        segments'[g][i].node # NULL
                 PROVE  g = h /\ i = j
      BY DEF Once
    <3>1. g \in DOMAIN segments /\ h \in DOMAIN segments
      BY <1>4, <1>9, <2>5
    <3> QED
      BY <1>4, <3>1 DEF Inv, SegmentsInv, Once
  <2> QED
    BY <2>1, <2>2, <2>3, <2>4, <2>6, <2>7, <2>8 DEF SegmentsInv
<1>11. Live' \cap (1 .. stamp) \subseteq Live
  <2> SUFFICES ASSUME NEW s \in 1 .. stamp, s \in Live' PROVE s \in Live
    OBVIOUS
  <2>1. PICK g \in DOMAIN segments' :
            \E i \in Slots : segments'[g][i] = [node |-> s, deleted |-> 0]
    BY DEF Live
  <2>2. PICK i \in Slots : segments'[g][i] = [node |-> s, deleted |-> 0]
    BY <2>1
  <2>3. s # NULL /\ segments'[g][i].node = s
    BY <1>3, <2>2
  <2>4. g \in DOMAIN segments
    BY <1>3, <1>4, <1>9, <2>3
  <2> QED
    BY <1>4, <2>2, <2>4 DEF Live
<1>12. Grows
  BY <1>1, <1>3, <1>4, <1>11 DEF Grows
<1>13. ThreadInv(t)'
  BY <1>1, <1>3, <1>4, <1>6, <1>7, <1>8 DEF ThreadInv, InsertInv, DeleteInv, PopPCs
<1> QED
  BY <1>6, <1>10, <1>12, <1>13, GrowingStep

LEMMA CreateSegmentInv ==
    ASSUME SizeOK, TypeOK, Inv, NEW t \in Threads, CreateSegment(t)
    PROVE  TypeOK' /\ Inv'
<1>1. CASE local[t].segment = Len(segments)
  BY <1>1, AppendInv
<1>2. CASE local[t].segment # Len(segments)
  <2>1. /\ UNCHANGED <<shared, published, local>>
        /\ \/ pc' = [pc EXCEPT ![t] = "created"]
           \/ pc' = [pc EXCEPT ![t] = "swing"]
    BY <1>2 DEF CreateSegment, Branch, Goto, shared
  <2>2. local[t].segment < Len(segments)
    BY <1>2, Place
  <2> QED
    BY <2>1, <2>2, FailsInv
<1> QED
  BY <1>1, <1>2

\* The pointers move over a segment that is full, or used up.
LEMMA SwingTailInv ==
    ASSUME SizeOK, TypeOK, Inv, NEW t \in Threads, SwingTail(t)
    PROVE  TypeOK' /\ Inv'
<1>1. /\ pc[t] = "swing" /\ pc' = [pc EXCEPT ![t] = "created"]
      /\ tail' = IF tail = local[t].segment THEN tail + 1 ELSE tail
      /\ UNCHANGED <<segments, head, stamp, local, published>>
  BY DEF SwingTail, Goto
<1>2. /\ Len(segments) \in Nat /\ head \in Nat /\ tail \in Nat /\ stamp \in Nat
      /\ local[t].segment \in Nat
  BY Place DEF TypeOK, Local
<1>3. "created" \in PCs
  BY DEF PCs, PushPCs
<1>4. TypeOK' /\ Quiet(t) /\ pc'[t] = "created" /\ local'[t] = local[t]
  BY <1>1, <1>2, <1>3 DEF TypeOK, Quiet
<1>5. /\ 1 <= local[t].segment /\ local[t].segment <= tail
      /\ local[t].segment < Len(segments)
  BY <1>1 DEF Inv, ThreadInv, InsertInv
<1>6. Pointers'
  BY <1>1, <1>2, <1>5 DEF Inv, SegmentsInv, Pointers
<1>7. tail <= tail'
  BY <1>1, <1>2
<1>8. Fresh'
  <2>1. \A g \in tail' + 1 .. Len(segments) : g \in tail + 1 .. Len(segments)
    BY <1>1, <1>2
  <2> QED
    BY <1>1, <2>1 DEF Inv, SegmentsInv, Fresh
<1>9. UsedUp' /\ Full' /\ Stamped' /\ Ordered' /\ Once'
  BY <1>1 DEF Inv, SegmentsInv, UsedUp, Full, Stamped, Ordered, Once
<1>10. SegmentsInv'
  BY <1>6, <1>8, <1>9 DEF SegmentsInv
<1>11. Live' = Live
  BY <1>1 DEF Live
<1>12. Grows
  BY <1>1, <1>2, <1>7, <1>11 DEF Grows
<1>13. ThreadInv(t)'
  BY <1>2, <1>1, <1>4, <1>5, <1>7 DEF ThreadInv, InsertInv, DeleteInv, PopPCs
<1> QED
  BY <1>4, <1>10, <1>12, <1>13, GrowingStep

LEMMA PassSegmentInv ==
    ASSUME SizeOK, TypeOK, Inv, NEW t \in Threads, PassSegment(t)
    PROVE  TypeOK' /\ Inv'
<1>1. /\ pc[t] = "pop_pass" /\ pc' = [pc EXCEPT ![t] = "passed"]
      /\ head' = IF head = local[t].segment THEN head + 1 ELSE head
      /\ UNCHANGED <<segments, tail, stamp, local, published>>
  BY DEF PassSegment, Goto
<1>2. /\ Len(segments) \in Nat /\ head \in Nat /\ tail \in Nat /\ stamp \in Nat
      /\ local[t].segment \in Nat
  BY Place DEF TypeOK, Local
<1>3. "passed" \in PCs
  BY DEF PCs, PopPCs
<1>4. TypeOK' /\ Quiet(t) /\ pc'[t] = "passed" /\ local'[t] = local[t]
  BY <1>1, <1>2, <1>3 DEF TypeOK, Quiet
<1>5. /\ 1 <= local[t].segment /\ local[t].segment <= head /\ local[t].segment < tail
      /\ \A j \in Slots : segments[local[t].segment][j].deleted = 1
  BY <1>1 DEF Inv, ThreadInv, DeleteInv, PopPCs
<1>6. Pointers'
  BY <1>1, <1>2, <1>5 DEF Inv, SegmentsInv, Pointers
<1>7. head <= head'
  BY <1>1, <1>2
<1>8. UsedUp'
  <2>1. \A g \in 1 .. head' - 1 : g \in 1 .. head - 1 \/ g = local[t].segment
    BY <1>1, <1>2
  <2> QED
    BY <1>1, <1>5, <2>1 DEF Inv, SegmentsInv, UsedUp
<1>9. Full' /\ Fresh' /\ Stamped' /\ Ordered' /\ Once'
  BY <1>1 DEF Inv, SegmentsInv, Full, Fresh, Stamped, Ordered, Once
<1>10. SegmentsInv'
  BY <1>6, <1>8, <1>9 DEF SegmentsInv
<1>11. Live' = Live
  BY <1>1 DEF Live
<1>12. Grows
  BY <1>1, <1>2, <1>7, <1>11 DEF Grows
<1>13. ThreadInv(t)'
  BY <1>1, <1>2, <1>4, <1>5, <1>7 DEF ThreadInv, InsertInv, DeleteInv, PopPCs
<1> QED
  BY <1>4, <1>10, <1>12, <1>13, GrowingStep

\* An item enters a slot: only the last segment can have a free one.
LEMMA EntersInv ==
    ASSUME SizeOK, TypeOK, Inv, NEW t \in Threads, EnqCAE(t), Slot(t).node = NULL
    PROVE  /\ TypeOK' /\ Inv'
           /\ stamp' = stamp + 1 /\ Live' = Live \cup {stamp + 1}
<1> USE DEF NULL
<1> DEFINE g == local[t].segment
           s == local[t].slot
<1>1. /\ Return(t, "enq_cae") /\ stamp' = stamp + 1 /\ UNCHANGED <<head, tail>>
      /\ segments' = [segments EXCEPT ![local[t].segment][local[t].slot].node = stamp + 1]
  BY DEF EnqCAE, Return, Goto
<1>2. /\ Len(segments) \in Nat /\ head \in Nat /\ tail \in Nat /\ stamp \in Nat
      /\ DOMAIN segments = 1 .. Len(segments)
  BY DEF TypeOK
<1>3. /\ pc'[t] = "idle" /\ pc' \in [Threads -> PCs]
      /\ local' \in [Threads -> Local] /\ local'[t] = Reset
      /\ \A S : published \in [Threads -> SUBSET S] => published' \in [Threads -> SUBSET S]
      /\ Quiet(t)
  BY <1>1, Returns
<1>4. /\ segments' \in Seq([Slots -> Cell]) /\ Len(segments') = Len(segments)
      /\ \A h \in DOMAIN segments, i \in Slots :
            segments'[h][i] =
               IF h = local[t].segment /\ i = local[t].slot
               THEN [node |-> stamp + 1, deleted |-> segments[h][i].deleted]
               ELSE segments[h][i]
  <2>1. PICK n \in Nat : n = stamp + 1
    BY <1>2
  <2>2. segments' = [segments EXCEPT ![local[t].segment][local[t].slot].node = n]
    BY <1>1, <2>1
  <2>3. /\ segments' \in Seq([Slots -> Cell]) /\ Len(segments') = Len(segments)
        /\ \A h \in DOMAIN segments, i \in Slots :
              segments'[h][i] =
                 IF h = local[t].segment /\ i = local[t].slot
                 THEN [node |-> n, deleted |-> segments[h][i].deleted]
                 ELSE segments[h][i]
    BY <2>2, Stored, Zenon
  <2> QED
    BY <2>1, <2>3, Zenon
<1>5. TypeOK'
  <2>1. stamp' \in Nat /\ 1 .. stamp \subseteq 1 .. stamp'
    BY <1>1, <1>2
  <2>2. published \in [Threads -> SUBSET (1 .. stamp')]
    BY <2>1 DEF TypeOK
  <2>3. published' \in [Threads -> SUBSET (1 .. stamp')]
    BY <1>3, <2>2
  <2> QED
    BY <1>1, <1>2, <1>3, <1>4, <2>1, <2>3 DEF TypeOK
<1>6. g \in DOMAIN segments /\ s \in Slots /\ g \in 1 .. tail /\ segments[g][s].node = NULL
  BY Place DEF Local, Slot
<1>7. g = Len(segments)
  <2>1. g # Len(segments) => g \in 1 .. Len(segments) - 1
    BY <1>2, <1>6
  <2> QED
    BY <1>6, <2>1 DEF Inv, SegmentsInv, Full
<1>8. segments[g][s].deleted = 0
  <2>1. segments[g][s] \in Cell
    BY <1>6, Place
  <2>2. segments[g][s].deleted # 1
    BY <1>6 DEF Inv, SegmentsInv, Stamped
  <2> QED
    BY <2>1, <2>2 DEF Cell
<1>9. /\ segments'[g][s] = [node |-> stamp + 1, deleted |-> 0]
      /\ \A h \in DOMAIN segments, i \in Slots :
            ~(h = g /\ i = s) => segments'[h][i] = segments[h][i]
      /\ DOMAIN segments' = DOMAIN segments
  <2>1. DOMAIN segments' = DOMAIN segments
    BY <1>2, <1>4
  <2> QED
    BY <1>4, <1>6, <1>8, <2>1
<1>10. \A h \in DOMAIN segments, i \in Slots :
           segments[h][i].node \in Nat /\ segments[h][i].node <= stamp
  <2>1. \A h \in DOMAIN segments, i \in Slots : segments[h][i].node \in Nat
    BY DEF TypeOK, Cell
  <2> QED
    BY <2>1 DEF Inv, SegmentsInv, Stamped
<1>20. Len(segments') = Len(segments) /\ Len(segments) \in Nat
  BY <1>2, <1>4
<1> HIDE DEF g, s
<1>11. SegmentsInv'
  <2>1. Pointers'
    BY <1>1, <1>4 DEF Inv, SegmentsInv, Pointers
  <2>2. UsedUp'
    <3>1. \A h \in 1 .. head - 1 : h \in DOMAIN segments
      BY <1>2 DEF Inv, SegmentsInv, Pointers
    <3>2. \A h \in 1 .. head - 1 : h # g
      BY <1>6, <1>8 DEF Inv, SegmentsInv, UsedUp
    <3> QED
      BY <1>1, <1>9, <3>1, <3>2 DEF Inv, SegmentsInv, UsedUp
  <2>3. Full'
    <3>1. \A h \in 1 .. Len(segments) - 1 : h \in DOMAIN segments /\ h # g
      <4> SUFFICES ASSUME NEW h \in 1 .. Len(segments) - 1
                   PROVE  h \in 1 .. Len(segments) /\ h # Len(segments)
        BY <1>2, <1>7, Zenon
      <4> QED
        BY <1>20
    <3> QED
      BY <1>9, <1>20, <3>1 DEF Inv, SegmentsInv, Full
  <2>4. Fresh'
    <3>1. \A h \in tail + 1 .. Len(segments) : h \in DOMAIN segments /\ h # g
      BY <1>2, <1>6
    <3> SUFFICES ASSUME NEW h \in tail + 1 .. Len(segments), NEW i \in Slots
                 PROVE  segments'[h][i].node = NULL
      BY <1>1, <1>20, Zenon DEF Fresh
    <3>2. segments[h][i].node = NULL
      BY Zenon DEF Inv, SegmentsInv, Fresh
    <3> QED
      BY <1>9, <3>1, <3>2, Zenon
  <2>5. Stamped'
    <3> SUFFICES ASSUME NEW h \in DOMAIN segments, NEW i \in Slots
                 PROVE  /\ segments'[h][i].node <= stamp + 1
                        /\ segments'[h][i].deleted = 1 => segments'[h][i].node # NULL
      BY <1>1, <1>9 DEF Stamped
    <3>1. CASE h = g /\ i = s
      BY <1>2, <1>9, <3>1
    <3>2. CASE ~(h = g /\ i = s)
      <4>1. segments[h][i].node <= stamp + 1
        BY <1>2, <1>10
      <4>2. segments[h][i].deleted = 1 => segments[h][i].node # NULL
        BY DEF Inv, SegmentsInv, Stamped
      <4> QED
        BY <1>9, <3>2, <4>1, <4>2
    <3> QED
      BY <3>1, <3>2
  <2>6. Ordered'
    <3> SUFFICES ASSUME NEW h \in DOMAIN segments, NEW k \in DOMAIN segments,
                        NEW i \in Slots, NEW j \in Slots, h < k, segments'[k][j].node # NULL
                 PROVE  segments'[h][i].node < segments'[k][j].node
      BY <1>9 DEF Ordered
    <3>1. h # g
      BY <1>2, <1>7
    <3>2. segments'[h][i] = segments[h][i]
      BY <1>9, <3>1
    <3>3. CASE k = g /\ j = s
      <4>1. segments[h][i].node < stamp + 1
        BY <1>2, <1>10
      <4> QED
        BY <1>9, <3>2, <3>3, <4>1
    <3>4. CASE ~(k = g /\ j = s)
      <4>1. segments'[k][j] = segments[k][j]
        BY <1>9, <3>4
      <4> QED
        BY <3>2, <4>1 DEF Inv, SegmentsInv, Ordered
    <3> QED
      BY <3>3, <3>4
  <2>7. Once'
    <3> SUFFICES ASSUME NEW h \in DOMAIN segments, NEW k \in DOMAIN segments,
                        NEW i \in Slots, NEW j \in Slots,
                        segments'[h][i].node = segments'[k][j].node,
                        segments'[h][i].node # NULL
                 PROVE  h = k /\ i = j
      BY <1>9 DEF Once
    <3>1. \A m \in DOMAIN segments, n \in Slots :
              ~(m = g /\ n = s) => /\ segments'[m][n] = segments[m][n]
                                   /\ segments'[m][n].node # stamp + 1
      <4> SUFFICES ASSUME NEW m \in DOMAIN segments, NEW n \in Slots, ~(m = g /\ n = s)
                   PROVE  /\ segments'[m][n] = segments[m][n]
                          /\ segments'[m][n].node # stamp + 1
        OBVIOUS
      <4>1. segments'[m][n] = segments[m][n]
        BY <1>9
      <4>2. segments[m][n].node # stamp + 1
        BY <1>2, <1>10
      <4> QED
        BY <4>1, <4>2
    <3>2. segments'[g][s].node = stamp + 1
      BY <1>9
    <3>3. CASE h = g /\ i = s
      BY <3>1, <3>2, <3>3
    <3>4. CASE k = g /\ j = s
      BY <3>1, <3>2, <3>4
    <3>5. CASE ~(h = g /\ i = s) /\ ~(k = g /\ j = s)
      BY <3>1, <3>5 DEF Inv, SegmentsInv, Once
    <3> QED
      BY <3>3, <3>4, <3>5
  <2> QED
    BY <2>1, <2>2, <2>3, <2>4, <2>5, <2>6, <2>7 DEF SegmentsInv
<1>12. Live' = Live \cup {stamp + 1}
  <2>1. ASSUME NEW r \in Live' PROVE r \in Live \cup {stamp + 1}
    <3>1. PICK h \in DOMAIN segments :
              \E i \in Slots : segments'[h][i] = [node |-> r, deleted |-> 0]
      BY <1>9, <2>1 DEF Live
    <3>2. PICK i \in Slots : segments'[h][i] = [node |-> r, deleted |-> 0]
      BY <3>1
    <3>3. CASE h = g /\ i = s
      BY <1>9, <3>2, <3>3
    <3>4. CASE ~(h = g /\ i = s)
      <4>1. segments[h][i] = [node |-> r, deleted |-> 0]
        BY <1>9, <3>2, <3>4
      <4>2. r \in 1 .. stamp + 1 /\ r <= stamp
        BY <1>1, <1>10, <2>1, <4>1 DEF Live
      <4>3. r \in 1 .. stamp
        BY <1>2, <4>2
      <4> QED
        BY <4>1, <4>3 DEF Live
    <3> QED
      BY <3>3, <3>4
  <2>2. stamp + 1 \in Live'
    <3>1. stamp + 1 \in 1 .. stamp'
      BY <1>1, <1>2
    <3> QED
      BY <1>6, <1>9, <3>1 DEF Live
  <2>3. ASSUME NEW r \in Live PROVE r \in Live'
    <3>1. PICK h \in DOMAIN segments :
              \E i \in Slots : segments[h][i] = [node |-> r, deleted |-> 0]
      BY <2>3 DEF Live
    <3>2. PICK i \in Slots : segments[h][i] = [node |-> r, deleted |-> 0]
      BY <3>1
    <3>3. r \in 1 .. stamp /\ r # NULL
      BY <1>2, <2>3 DEF Live
    <3>4. ~(h = g /\ i = s)
      BY <1>6, <3>2, <3>3
    <3>5. segments'[h][i] = [node |-> r, deleted |-> 0] /\ r \in 1 .. stamp'
      BY <1>1, <1>2, <1>9, <3>2, <3>3, <3>4
    <3> QED
      BY <1>9, <3>5 DEF Live
  <2> QED
    BY <2>1, <2>2, <2>3
<1>13. Grows
  <2>1. ASSUME NEW h \in DOMAIN segments, NEW i \in Slots
        PROVE  /\ segments[h][i].node # NULL => segments'[h][i].node = segments[h][i].node
               /\ segments'[h][i].node = segments[h][i].node \/ segments'[h][i].node > stamp
               /\ segments[h][i].deleted = 1 => segments'[h][i].deleted = 1
    <3>1. CASE h = g /\ i = s
      BY <1>2, <1>6, <1>8, <1>9, <3>1
    <3>2. CASE ~(h = g /\ i = s)
      BY <1>9, <3>2
    <3> QED
      BY <3>1, <3>2
  <2>2. Live' \cap (1 .. stamp) \subseteq Live
    BY <1>2, <1>12
  <2> QED
    BY <1>1, <1>2, <1>20, <2>1, <2>2 DEF Grows
<1>14. ThreadInv(t)'
  BY <1>3, <1>5, <1>11, IdleKeeps
<1> QED
  BY <1>1, <1>3, <1>5, <1>11, <1>12, <1>13, <1>14, GrowingStep

\* An item leaves its slot; only items of the same segment can be older.
LEMMA LeavesInv ==
    ASSUME SizeOK, TypeOK, Inv, NEW t \in Threads, DeqCAS(t), Undeleted(t)
    PROVE  /\ TypeOK' /\ Inv'
           /\ Slot(t).node \in Live /\ Live' = Live \ {Slot(t).node}
           /\ \A r \in Live : r < Slot(t).node =>
                 \E j \in Slots \ {local[t].slot} : r = segments[local[t].segment][j].node
<1> USE DEF NULL
<1> DEFINE g == local[t].segment
           s == local[t].slot
           x == segments[g][s].node
<1>1. /\ Return(t, "deq_cas") /\ UNCHANGED <<head, tail, stamp>> /\ ~NothingFound(t)
      /\ segments' = [segments EXCEPT ![local[t].segment][local[t].slot].deleted = 1]
  BY DEF DeqCAS, Return, Goto
<1>2. /\ Len(segments) \in Nat /\ head \in Nat /\ tail \in Nat /\ stamp \in Nat
      /\ DOMAIN segments = 1 .. Len(segments)
  BY DEF TypeOK
<1>3. /\ pc[t] = "deq_cas" /\ pc'[t] = "idle" /\ pc' \in [Threads -> PCs]
      /\ local' \in [Threads -> Local] /\ local'[t] = Reset
      /\ \A S : published \in [Threads -> SUBSET S] => published' \in [Threads -> SUBSET S]
      /\ Quiet(t)
  BY <1>1, Returns
<1>4. /\ segments' \in Seq([Slots -> Cell]) /\ Len(segments') = Len(segments)
      /\ \A h \in DOMAIN segments, i \in Slots :
            segments'[h][i] =
               IF h = local[t].segment /\ i = local[t].slot
               THEN [node |-> segments[h][i].node, deleted |-> 1] ELSE segments[h][i]
  BY <1>1, Deleted, Zenon
<1>5. TypeOK'
  BY <1>1, <1>2, <1>3, <1>4 DEF TypeOK
<1>6. /\ g \in DOMAIN segments /\ s \in Slots /\ g <= head /\ 1 <= g
      /\ segments[g][s] \in Cell /\ segments[g][s].deleted = 0 /\ x # NULL
  <2>1. g \in DOMAIN segments /\ s \in Slots /\ segments[g][s] \in Cell /\ Slot(t) \in Cell
    BY Place DEF Local
  <2>2. g <= head /\ 1 <= g /\ Slot(t).node # NULL
    BY <1>1, <1>3 DEF Inv, ThreadInv, DeleteInv, PopPCs
  <2> QED
    BY <2>1, <2>2 DEF Undeleted, Slot
<1>7. /\ segments'[g][s] = [node |-> x, deleted |-> 1]
      /\ \A h \in DOMAIN segments, i \in Slots :
            ~(h = g /\ i = s) => segments'[h][i] = segments[h][i]
  BY <1>4, <1>6
<1>8. Len(segments') = Len(segments) /\ DOMAIN segments' = DOMAIN segments
  <2>1. DOMAIN segments' = 1 .. Len(segments')
    BY <1>4
  <2> QED
    BY <1>2, <1>4, <2>1
<1>9. Slot(t).node = x
  BY DEF Slot
<1> HIDE DEF g, s, x
<1>10. \A h \in DOMAIN segments, i \in Slots :
           /\ segments'[h][i].node = segments[h][i].node
           /\ segments[h][i].deleted = 1 => segments'[h][i].deleted = 1
  <2> SUFFICES ASSUME NEW h \in DOMAIN segments, NEW i \in Slots
               PROVE  /\ segments'[h][i].node = segments[h][i].node
                      /\ segments[h][i].deleted = 1 => segments'[h][i].deleted = 1
    OBVIOUS
  <2>1. CASE h = g /\ i = s
    BY <1>7, <2>1 DEF x
  <2>2. CASE ~(h = g /\ i = s)
    BY <1>7, <2>2
  <2> QED
    BY <2>1, <2>2
<1>11. SegmentsInv'
  <2>1. Pointers'
    BY <1>1, <1>8 DEF Inv, SegmentsInv, Pointers
  <2>2. UsedUp'
    <3>1. \A h \in 1 .. head - 1 : h \in DOMAIN segments
      BY <1>2 DEF Inv, SegmentsInv, Pointers
    <3> QED
      BY <1>1, <1>10, <3>1 DEF Inv, SegmentsInv, UsedUp
  <2>3. Full'
    <3>1. \A h \in 1 .. Len(segments) - 1 : h \in DOMAIN segments
      BY <1>2
    <3> QED
      BY <1>8, <1>10, <3>1 DEF Inv, SegmentsInv, Full
  <2>4. Fresh'
    <3>1. \A h \in tail + 1 .. Len(segments) : h \in DOMAIN segments
      BY <1>2
    <3> QED
      BY <1>1, <1>8, <1>10, <3>1 DEF Inv, SegmentsInv, Fresh
  <2>5. Stamped'
    <3> SUFFICES ASSUME NEW h \in DOMAIN segments, NEW i \in Slots
                 PROVE  /\ segments'[h][i].node <= stamp
                        /\ segments'[h][i].deleted = 1 => segments'[h][i].node # NULL
      BY <1>1, <1>8 DEF Stamped
    <3>1. segments[h][i].node <= stamp
      BY DEF Inv, SegmentsInv, Stamped
    <3>2. CASE h = g /\ i = s
      BY <1>6, <1>7, <1>10, <3>1, <3>2
    <3>3. CASE ~(h = g /\ i = s)
      BY <1>7, <3>1, <3>3 DEF Inv, SegmentsInv, Stamped
    <3> QED
      BY <3>2, <3>3
  <2>6. Ordered' /\ Once'
    BY <1>8, <1>10 DEF Inv, SegmentsInv, Ordered, Once
  <2> QED
    BY <2>1, <2>2, <2>3, <2>4, <2>5, <2>6 DEF SegmentsInv
<1>12. x \in Live /\ Live' = Live \ {x}
  <2>1. x \in Live
    <3>1. x \in 1 .. stamp
      <4>1. x \in Nat /\ x <= stamp
        BY <1>6 DEF x, Cell, Inv, SegmentsInv, Stamped
      <4> QED
        BY <1>2, <1>6, <4>1
    <3>2. segments[g][s] = [node |-> x, deleted |-> 0]
      BY <1>6 DEF Cell, x
    <3> QED
      BY <1>6, <3>1, <3>2 DEF Live
  <2>2. ASSUME NEW r \in Live' PROVE r \in Live \ {x}
    <3>1. PICK h \in DOMAIN segments :
              \E i \in Slots : segments'[h][i] = [node |-> r, deleted |-> 0]
      BY <1>8, <2>2 DEF Live
    <3>2. PICK i \in Slots : segments'[h][i] = [node |-> r, deleted |-> 0]
      BY <3>1
    <3>3. ~(h = g /\ i = s)
      BY <1>7, <3>2
    <3>4. segments[h][i] = [node |-> r, deleted |-> 0] /\ r \in 1 .. stamp
      BY <1>1, <1>7, <2>2, <3>2, <3>3 DEF Live
    <3>5. r # x
      <4>1. segments[h][i].node = r /\ r # NULL
        BY <1>2, <3>4
      <4> QED
        BY <1>6, <3>3, <4>1 DEF Inv, SegmentsInv, Once, x
    <3> QED
      BY <3>4, <3>5 DEF Live
  <2>3. ASSUME NEW r \in Live, r # x PROVE r \in Live'
    <3>1. PICK h \in DOMAIN segments :
              \E i \in Slots : segments[h][i] = [node |-> r, deleted |-> 0]
      BY <2>3 DEF Live
    <3>2. PICK i \in Slots : segments[h][i] = [node |-> r, deleted |-> 0]
      BY <3>1
    <3>3. ~(h = g /\ i = s)
      BY <2>3, <3>2 DEF x
    <3>4. segments'[h][i] = [node |-> r, deleted |-> 0] /\ r \in 1 .. stamp'
      BY <1>1, <1>7, <2>3, <3>2, <3>3 DEF Live
    <3> QED
      BY <1>8, <3>4 DEF Live
  <2> QED
    BY <2>1, <2>2, <2>3
<1>13. ASSUME NEW r \in Live, r < x
       PROVE  \E j \in Slots \ {s} : r = segments[g][j].node
  <2>1. PICK h \in DOMAIN segments :
            \E i \in Slots : segments[h][i] = [node |-> r, deleted |-> 0]
    BY <1>13 DEF Live
  <2>2. PICK i \in Slots : segments[h][i] = [node |-> r, deleted |-> 0]
    BY <2>1
  <2>3. segments[h][i].node = r /\ segments[h][i].deleted = 0
    BY <2>2
  <2>4. r \in Nat /\ x \in Nat /\ r # NULL
    <3>1. x \in Nat
      BY <1>6 DEF x, Cell
    <3> QED
      BY <1>2, <1>13, <3>1 DEF Live
  <2>5. ~(h < g)
    <3>1. h < g => h \in 1 .. head - 1
      BY <1>2, <1>6
    <3> QED
      BY <2>3, <3>1 DEF Inv, SegmentsInv, UsedUp
  <2>6. ~(g < h)
    <3>1. g < h => x < r
      BY <1>6, <2>3, <2>4 DEF Inv, SegmentsInv, Ordered, x
    <3> QED
      BY <1>13, <2>4, <3>1
  <2>7. h = g
    BY <1>2, <1>6, <2>5, <2>6
  <2>8. i # s
    BY <1>13, <2>3, <2>4, <2>7 DEF x
  <2> QED
    BY <2>3, <2>7, <2>8
<1>14. Grows
  <2>1. Live' \cap (1 .. stamp) \subseteq Live
    BY <1>12
  <2> QED
    BY <1>1, <1>2, <1>8, <1>10, <2>1 DEF Grows
<1>15. ThreadInv(t)'
  BY <1>3, <1>5, <1>11, IdleKeeps
<1>16. Inv'
  BY <1>3, <1>5, <1>11, <1>14, <1>15, GrowingStep
<1> QED
  BY <1>5, <1>9, <1>12, <1>13, <1>16 DEF g, s

-----------------------------------------------------------------------------
LEMMA InitInv == ASSUME SizeOK, Init PROVE TypeOK /\ Inv
<1> USE DEF NULL
<1>1. Empty \in [Slots -> Cell] /\ Reset \in Local
  BY EmptyTyped
<1>2. segments = <<Empty>> /\ local = [t \in Threads |-> Reset]
  BY DEF Init, Empty, Reset
<1>3. segments \in Seq([Slots -> Cell]) /\ Len(segments) = 1 /\ DOMAIN segments = {1}
      /\ segments[1] = Empty
  <2> DEFINE T == [Slots -> Cell]
  <2>1. Empty \in T
    BY <1>1
  <2> HIDE DEF T
  <2>2. segments \in Seq(T) /\ Len(segments) = 1 /\ segments[1] = Empty
    BY <1>2, <2>1
  <2>3. DOMAIN segments = 1 .. 1
    BY <2>2
  <2> QED
    BY <2>2, <2>3 DEF T
<1>4. TypeOK
  BY <1>1, <1>2, <1>3 DEF Init, TypeOK, PCs
<1>5. \A i \in Slots : Empty[i].node = 0 /\ Empty[i].deleted = 0
  BY DEF Empty, Free
<1>6. SegmentsInv
  BY <1>3, <1>5 DEF Init, SegmentsInv, Pointers, UsedUp, Full, Fresh, Stamped, Ordered, Once
<1>7. \A t \in Threads : ThreadInv(t)
  <2> SUFFICES ASSUME NEW t \in Threads PROVE ThreadInv(t)
    OBVIOUS
  <2>1. pc[t] = "idle" /\ local[t] = Reset
    BY <1>2 DEF Init
  <2> QED
    BY <2>1 DEF ThreadInv, InsertInv, DeleteInv, PopPCs, Reset, Init
<1> QED
  BY <1>4, <1>6, <1>7 DEF Inv

LEMMA StepInv == ASSUME SizeOK, TypeOK, Inv, NEW t \in Threads, Step(t) PROVE TypeOK' /\ Inv'
<1>1. CASE InsertCall(t) \/ DeleteCall(t)
  BY <1>1, CallsInv
<1>2. CASE PushStart(t) \/ PopStart(t)
  BY <1>2, StartsInv
<1>3. CASE EnqCAE(t)
  <2>1. CASE Slot(t).node = NULL
    BY <1>3, <2>1, EntersInv
  <2>2. CASE Slot(t).node # NULL
    <3>1. UNCHANGED <<shared, published, local>> /\ pc' = [pc EXCEPT ![t] = "push_start"]
      BY <1>3, <2>2 DEF EnqCAE, Goto, shared
    <3> QED
      BY <3>1, FailsInv
  <2> QED
    BY <2>1, <2>2
<1>4. CASE DeqCAS(t)
  <2>1. CASE Undeleted(t)
    BY <1>4, <2>1, LeavesInv
  <2>2. CASE ~Undeleted(t)
    <3>1. UNCHANGED <<shared, published, local>> /\ pc' = [pc EXCEPT ![t] = "pop_start"]
      BY <1>4, <2>2 DEF DeqCAS, Goto, shared
    <3> QED
      BY <3>1, FailsInv
  <2> QED
    BY <2>1, <2>2
<1> QED
  BY <1>1, <1>2, <1>3, <1>4, PushReadInv, PushWalkInv, CreatedInv, CreateSegmentInv,
     SwingTailInv, PopTopInv, PassSegmentInv, PassedInv, PopReadInv, PopReadDeletedInv,
     PopWalkInv, ReturnEmptyInv
     DEF Step, Insert, Delete

LEMMA NextInv == ASSUME SizeOK, TypeOK, Inv, [Next]_vars PROVE TypeOK' /\ Inv'
<1>1. CASE \E t \in Threads : Step(t)
  BY <1>1, StepInv
<1>2. CASE UNCHANGED vars
  BY <1>2 DEF vars, TypeOK, Inv, SegmentsInv, Pointers, UsedUp, Full, Fresh, Stamped, Ordered,
     Once, ThreadInv, InsertInv, DeleteInv, Taken, Searched, Done, Behind, Slot, NothingFound, Live
<1> QED
  BY <1>1, <1>2 DEF Next, Step, Finished

LEMMA InvHolds == SizeOK => (Spec => [](TypeOK /\ Inv))
<1> SUFFICES ASSUME SizeOK PROVE Spec => [](TypeOK /\ Inv)
  OBVIOUS
<1>1. Init => TypeOK /\ Inv
  BY InitInv
<1>2. TypeOK /\ Inv /\ [Next]_vars => (TypeOK /\ Inv)'
  BY NextInv
<1> QED
  BY <1>1, <1>2, PTL DEF Spec

\* For every segment_size and every number of threads and operations: the
\* pointers stay on the list, a segment that head has passed holds nothing, and
\* one that has a successor has no slot left that an insert could take, although
\* both searches walk over slots that change behind them.
THEOREM SegmentsAreUsedUp == SizeOK => (Spec => []SegmentsUsedUp)
<1> SUFFICES ASSUME SizeOK PROVE Spec => []SegmentsUsedUp
  OBVIOUS
<1>1. TypeOK /\ Inv => SegmentsUsedUp
  BY DEF Inv, SegmentsInv, Pointers, UsedUp, Full, SegmentsUsedUp
<1>2. Spec => [](TypeOK /\ Inv)
  BY InvHolds
<1> QED
  BY <1>1, <1>2, PTL

\* A delete that reports empty is right, for every segment_size and every number
\* of threads: nothing that the queue held when the delete began is left,
\* although inserts filled slots behind the search.
THEOREM EmptyIsObserved ==
    SizeOK =>
        (Spec => [][\A t \in Threads : ReturnEmpty(t) => published[t] \cap Live = {}]_vars)
<1> SUFFICES ASSUME SizeOK
             PROVE  Spec =>
                     [][\A t \in Threads : ReturnEmpty(t) => published[t] \cap Live = {}]_vars
  OBVIOUS
<1>1. TypeOK /\ Inv /\ [Next]_vars
         => [\A t \in Threads : ReturnEmpty(t) => published[t] \cap Live = {}]_vars
  <2> SUFFICES ASSUME Inv, NEW t \in Threads, ReturnEmpty(t) PROVE published[t] \cap Live = {}
    OBVIOUS
  <2>1. pc[t] = "deq_cas" /\ NothingFound(t)
    BY DEF ReturnEmpty, Return, Goto
  <2> QED
    BY <2>1 DEF Inv, ThreadInv, DeleteInv
<1>2. Spec => [](TypeOK /\ Inv)
  BY InvHolds
<1> QED
  BY <1>1, <1>2, PTL DEF Spec

-----------------------------------------------------------------------------
(***************************************************************************)
(* The elements of a finite set of numbers in ascending order: the i-th is *)
(* the one with i - 1 smaller ones.                                        *)
(***************************************************************************)
Below(S, x) == {r \in S : r < x}
Rank(S, x) == Cardinality(Below(S, x))
Listing(S) == [i \in 1 .. Cardinality(S) |-> CHOOSE x \in S : Rank(S, x) = i - 1]

LEMMA RankRange ==
    ASSUME NEW S \in SUBSET Nat, IsFiniteSet(S), NEW x \in S
    PROVE  /\ IsFiniteSet(Below(S, x)) /\ Cardinality(S) \in Nat
           /\ Rank(S, x) \in Nat /\ Rank(S, x) < Cardinality(S)
<1>1. IsFiniteSet(S \ {x}) /\ Cardinality(S \ {x}) = Cardinality(S) - 1
  BY FS_RemoveElement
<1>2. Below(S, x) \in SUBSET (S \ {x})
  BY DEF Below
<1>3. IsFiniteSet(Below(S, x)) /\ Cardinality(Below(S, x)) <= Cardinality(S \ {x})
  BY <1>1, <1>2, FS_Subset
<1>4. Cardinality(S) \in Nat /\ Cardinality(Below(S, x)) \in Nat
  BY <1>3, FS_CardinalityType
<1> QED
  BY <1>1, <1>3, <1>4 DEF Rank

LEMMA RankUp ==
    ASSUME NEW S \in SUBSET Nat, IsFiniteSet(S), NEW x \in S, NEW y \in S, x < y
    PROVE  Rank(S, x) < Rank(S, y)
<1>1. /\ IsFiniteSet(Below(S, x)) /\ Rank(S, x) \in Nat
      /\ IsFiniteSet(Below(S, y)) /\ Rank(S, y) \in Nat
  BY RankRange
<1>2. x \notin Below(S, x)
  BY DEF Below
<1>3. Cardinality(Below(S, x) \cup {x}) = Cardinality(Below(S, x)) + 1
  BY <1>1, <1>2, FS_AddElement
<1>4. Below(S, x) \cup {x} \in SUBSET Below(S, y)
  <2>1. \A r \in S : r < x => r < y
    OBVIOUS
  <2> QED
    BY <2>1 DEF Below
<1>5. Cardinality(Below(S, x) \cup {x}) <= Cardinality(Below(S, y))
  BY <1>1, <1>4, FS_Subset
<1> QED
  BY <1>1, <1>3, <1>5 DEF Rank

\* Equal ranks, equal elements.
LEMMA RankOnce ==
    ASSUME NEW S \in SUBSET Nat, IsFiniteSet(S), NEW x \in S, NEW y \in S,
           Rank(S, x) = Rank(S, y)
    PROVE  x = y
<1>1. x \in Nat /\ y \in Nat /\ Rank(S, x) \in Nat /\ Rank(S, y) \in Nat
  BY RankRange
<1>2. x < y => Rank(S, x) < Rank(S, y)
  BY RankUp
<1>3. y < x => Rank(S, y) < Rank(S, x)
  BY RankUp
<1> QED
  BY <1>1, <1>2, <1>3

\* Every rank occurs.
LEMMA RankOnto ==
    ASSUME NEW S \in SUBSET Nat, IsFiniteSet(S)
    PROVE  \A i \in 1 .. Cardinality(S) : \E x \in S : Rank(S, x) = i - 1
<1> DEFINE n == Cardinality(S)
           f == [x \in S |-> Rank(S, x) + 1]
<1>1. n \in Nat
  BY FS_CardinalityType
<1>3. \A x \in S : Rank(S, x) \in Nat /\ Rank(S, x) + 1 \in 1 .. n
  <2> SUFFICES ASSUME NEW x \in S PROVE Rank(S, x) \in Nat /\ Rank(S, x) + 1 \in 1 .. n
    OBVIOUS
  <2>1. Rank(S, x) \in Nat /\ Rank(S, x) < n
    BY RankRange
  <2> QED
    BY <1>1, <2>1
<1>4. f \in Injection(S, 1 .. n)
  <2>1. f \in [S -> 1 .. n]
    BY <1>3
  <2>2. ASSUME NEW x \in S, NEW y \in S, f[x] = f[y] PROVE x = y
    <3>1. Rank(S, x) + 1 = Rank(S, y) + 1
      BY <2>2
    <3>2. Rank(S, x) = Rank(S, y)
      BY <1>3, <3>1
    <3> QED
      BY <3>2, RankOnce
  <2> HIDE DEF f
  <2> QED
    BY <2>1, <2>2 DEF Injection, IsInjective
<1>5. IsFiniteSet(1 .. n) /\ Cardinality(1 .. n) = n
  <2>1. 1 \in Int /\ n \in Int
    BY <1>1
  <2>2. IsFiniteSet(1 .. n) /\ Cardinality(1 .. n) = IF 1 > n THEN 0 ELSE n - 1 + 1
    BY <2>1, FS_Interval
  <2> QED
    BY <1>1, <2>2
<1>6. f \in Surjection(S, 1 .. n)
  BY <1>4, <1>5, FS_Injection
<1>7. \A i \in 1 .. n : \E x \in S : f[x] = i
  <2> HIDE DEF f
  <2> QED
    BY <1>6 DEF Surjection
<1>8. \A i \in 1 .. n : \E x \in S : Rank(S, x) = i - 1
  <2> SUFFICES ASSUME NEW i \in 1 .. n PROVE \E x \in S : Rank(S, x) = i - 1
    OBVIOUS
  <2>1. PICK x \in S : f[x] = i
    BY <1>7
  <2>2. Rank(S, x) \in Nat /\ Rank(S, x) + 1 = i
    BY <1>3, <2>1
  <2>3. Rank(S, x) = i - 1
    BY <2>2
  <2> QED
    BY <2>3
<1> QED
  BY <1>8

LEMMA ListingIs ==
    ASSUME NEW S \in SUBSET Nat, IsFiniteSet(S)
    PROVE  /\ Cardinality(S) \in Nat
           /\ Len(Listing(S)) = Cardinality(S) /\ DOMAIN Listing(S) = 1 .. Cardinality(S)
           /\ Listing(S) \in [1 .. Cardinality(S) -> S]
           /\ \A i \in 1 .. Cardinality(S) : Rank(S, Listing(S)[i]) = i - 1
           /\ \A i \in 1 .. Cardinality(S), x \in S : Rank(S, x) = i - 1 => Listing(S)[i] = x
<1>1. Cardinality(S) \in Nat
  BY FS_CardinalityType
<1>2. \A i \in 1 .. Cardinality(S) :
          /\ Listing(S)[i] = CHOOSE x \in S : Rank(S, x) = i - 1
          /\ \E x \in S : Rank(S, x) = i - 1
  BY RankOnto DEF Listing
<1>3. \A i \in 1 .. Cardinality(S) : Listing(S)[i] \in S /\ Rank(S, Listing(S)[i]) = i - 1
  BY <1>2
<1>4. Listing(S) \in [1 .. Cardinality(S) -> S]
  BY <1>3 DEF Listing
<1>5. \A i \in 1 .. Cardinality(S), x \in S : Rank(S, x) = i - 1 => Listing(S)[i] = x
  <2> SUFFICES ASSUME NEW i \in 1 .. Cardinality(S), NEW x \in S, Rank(S, x) = i - 1
               PROVE  Listing(S)[i] = x
    OBVIOUS
  <2>1. Listing(S)[i] \in S /\ Rank(S, Listing(S)[i]) = Rank(S, x)
    BY <1>3
  <2> QED
    BY <2>1, RankOnce
<1>6. Len(Listing(S)) = Cardinality(S) /\ DOMAIN Listing(S) = 1 .. Cardinality(S)
  BY <1>1, <1>4
<1> QED
  BY <1>1, <1>3, <1>4, <1>5, <1>6

\* A new largest element comes last.
LEMMA ListingPut ==
    ASSUME NEW S \in SUBSET Nat, IsFiniteSet(S), NEW x \in Nat, \A r \in S : r < x
    PROVE  /\ Len(Listing(S \cup {x})) = Len(Listing(S)) + 1
           /\ \A i \in DOMAIN Listing(S) :
                 /\ Listing(S \cup {x})[i] = Listing(S)[i]
                 /\ Listing(S \cup {x})[Len(Listing(S \cup {x}))] # Listing(S)[i]
<1> DEFINE U == S \cup {x}
           n == Cardinality(S)
<1>1. x \notin S
  OBVIOUS
<1>2. U \in SUBSET Nat /\ IsFiniteSet(U) /\ Cardinality(U) = n + 1
  BY <1>1, FS_AddElement
<1>3. /\ n \in Nat /\ Len(Listing(S)) = n /\ DOMAIN Listing(S) = 1 .. n
      /\ Listing(S) \in [1 .. n -> S] /\ \A i \in 1 .. n : Rank(S, Listing(S)[i]) = i - 1
  BY ListingIs
<1>4. /\ Len(Listing(U)) = n + 1
      /\ \A i \in 1 .. n + 1, y \in U : Rank(U, y) = i - 1 => Listing(U)[i] = y
  <2> HIDE DEF U
  <2>1. /\ Len(Listing(U)) = Cardinality(U)
        /\ \A i \in 1 .. Cardinality(U), y \in U : Rank(U, y) = i - 1 => Listing(U)[i] = y
    BY <1>2, ListingIs
  <2> QED
    BY <1>2, <2>1
<1>5. \A y \in S : Rank(U, y) = Rank(S, y)
  <2> SUFFICES ASSUME NEW y \in S PROVE Below(U, y) = Below(S, y)
    BY DEF Rank
  <2>1. y \in Nat /\ y < x
    OBVIOUS
  <2>2. ~(x < y)
    BY <2>1
  <2> QED
    BY <2>2 DEF Below
<1>6. Rank(U, x) = n
  <2>1. ~(x < x)
    OBVIOUS
  <2>2. Below(U, x) = S
    BY <2>1 DEF Below
  <2> QED
    BY <2>2 DEF Rank
<1>7. Listing(U)[n + 1] = x
  <2>1. n + 1 \in 1 .. n + 1 /\ x \in U /\ (n + 1) - 1 = n
    BY <1>3
  <2> QED
    BY <1>4, <1>6, <2>1
<1>8. ASSUME NEW i \in 1 .. n PROVE Listing(U)[i] = Listing(S)[i] /\ Listing(S)[i] # x
  <2>1. Listing(S)[i] \in S /\ Rank(S, Listing(S)[i]) = i - 1 /\ i \in 1 .. n + 1
    BY <1>3
  <2>2. Rank(U, Listing(S)[i]) = i - 1
    BY <1>5, <2>1
  <2> QED
    BY <1>1, <1>4, <2>1, <2>2
<1> HIDE DEF U, n
<1>9. /\ Len(Listing(U)) = Len(Listing(S)) + 1
      /\ \A i \in DOMAIN Listing(S) :
            Listing(U)[i] = Listing(S)[i] /\ Listing(U)[Len(Listing(U))] # Listing(S)[i]
  BY <1>3, <1>4, <1>7, <1>8
<1> QED
  BY <1>9 DEF U

\* Without an element the later ones move up.
LEMMA ListingTake ==
    ASSUME NEW S \in SUBSET Nat, IsFiniteSet(S), NEW x \in S
    PROVE  /\ Rank(S, x) + 1 \in DOMAIN Listing(S)
           /\ Listing(S \ {x}) =
                 [j \in 1 .. Len(Listing(S)) - 1 |->
                     Listing(S)[IF j < Rank(S, x) + 1 THEN j ELSE j + 1]]
<1> DEFINE U == S \ {x}
           n == Cardinality(S)
           p == Rank(S, x) + 1
           R == [j \in 1 .. n - 1 |-> Listing(S)[IF j < p THEN j ELSE j + 1]]
<1>1. /\ n \in Nat /\ Len(Listing(S)) = n /\ DOMAIN Listing(S) = 1 .. n
      /\ Listing(S) \in [1 .. n -> S] /\ \A i \in 1 .. n : Rank(S, Listing(S)[i]) = i - 1
  BY ListingIs
<1>2. Rank(S, x) \in Nat /\ Rank(S, x) < n
  BY RankRange
<1>3. p \in 1 .. n
  BY <1>1, <1>2
<1>4. U \in SUBSET Nat /\ IsFiniteSet(U) /\ Cardinality(U) = n - 1
  BY FS_RemoveElement
<1>5. /\ Listing(U) \in [1 .. n - 1 -> U]
      /\ \A i \in 1 .. n - 1, y \in U : Rank(U, y) = i - 1 => Listing(U)[i] = y
  <2> HIDE DEF U
  <2>1. /\ Listing(U) \in [1 .. Cardinality(U) -> U]
        /\ \A i \in 1 .. Cardinality(U), y \in U : Rank(U, y) = i - 1 => Listing(U)[i] = y
    BY <1>4, ListingIs
  <2> QED
    BY <1>4, <2>1
<1>6. ASSUME NEW j \in 1 .. n - 1 PROVE Listing(U)[j] = R[j]
  <2> DEFINE k == IF j < p THEN j ELSE j + 1
             y == Listing(S)[k]
  <2>1. k \in 1 .. n /\ k # p
    BY <1>1, <1>3
  <2>2. y \in S /\ Rank(S, y) = k - 1
    BY <1>1, <2>1
  <2>3. x \in Nat /\ y \in Nat
    BY <2>2
  <2>4. R[j] = y
    OBVIOUS
  <2>5. Rank(S, x) = p - 1 /\ p \in Int
    BY <1>2
  <2>6. IsFiniteSet(Below(S, y)) /\ Cardinality(Below(S, y)) = k - 1
    BY <2>2, RankRange DEF Rank
  <2> HIDE DEF k, y, p, R
  <2>7. y # x
    BY <1>3, <2>1, <2>2, <2>5
  <2>8. Rank(U, y) = j - 1
    <3>1. CASE j < p
      <4>1. k = j
        BY <3>1 DEF k
      <4>2. ~(x < y)
        <5>1. x < y => Rank(S, x) < Rank(S, y)
          BY <2>2, RankUp
        <5> QED
          BY <1>3, <2>1, <2>2, <2>5, <3>1, <4>1, <5>1
      <4>3. Below(U, y) = Below(S, y)
        BY <4>2 DEF Below
      <4> QED
        BY <2>6, <4>1, <4>3 DEF Rank
    <3>2. CASE ~(j < p)
      <4>1. k = j + 1
        BY <3>2 DEF k
      <4>2. x < y
        <5>1. y < x => Rank(S, y) < Rank(S, x)
          BY <2>2, RankUp
        <5>2. ~(y < x)
          BY <1>3, <2>1, <2>2, <2>5, <3>2, <4>1, <5>1
        <5> QED
          BY <2>3, <2>7, <5>2
      <4>3. Below(U, y) = Below(S, y) \ {x} /\ x \in Below(S, y)
        BY <4>2 DEF Below
      <4>4. Cardinality(Below(S, y) \ {x}) = Cardinality(Below(S, y)) - 1
        BY <2>6, <4>3, FS_RemoveElement
      <4>5. Rank(U, y) = k - 1 - 1
        BY <2>6, <4>3, <4>4 DEF Rank
      <4> QED
        BY <4>1, <4>5
    <3> QED
      BY <3>1, <3>2
  <2>9. y \in U
    BY <2>2, <2>7
  <2> QED
    BY <1>5, <2>4, <2>8, <2>9
<1>7. Listing(U) = R
  <2> HIDE DEF U, p
  <2> QED
    BY <1>5, <1>6
<1> QED
  BY <1>1, <1>3, <1>7

-----------------------------------------------------------------------------
KQueue == INSTANCE OutOfOrder
    WITH K <- SegmentSize - 1, Newest <- FALSE, content <- Content

LEMMA ContentIs ==
    ASSUME TypeOK
    PROVE  Content = Listing(Live) /\ Live \in SUBSET Nat /\ IsFiniteSet(Live)
<1>1. Live \in SUBSET (1 .. stamp)
  BY DEF Live
<1>2. stamp \in Int /\ 1 \in Int /\ 1 .. stamp \subseteq Nat
  BY DEF TypeOK
<1>3. IsFiniteSet(1 .. stamp)
  BY <1>2, FS_Interval
<1>4. IsFiniteSet(Live)
  BY <1>1, <1>3, FS_Subset
<1>5. \A x : Older(x) = Below(Live, x)
  BY DEF Older, Below
<1>6. \A x : Cardinality(Older(x)) = Rank(Live, x)
  BY <1>5 DEF Rank
<1>7. Content = Listing(Live)
  BY <1>6 DEF Content, Listing
<1> QED
  BY <1>1, <1>2, <1>4, <1>7

LEMMA ContentNext == Content' = Listing(Live')
<1>1. \A x : Older(x)' = Below(Live', x)
  BY DEF Older, Below
<1>2. \A x : Cardinality(Older(x)') = Rank(Live', x)
  BY <1>1 DEF Rank
<1> QED
  BY <1>2 DEF Content, Listing

\* An insert puts its item at the end.
LEMMA EntersPuts ==
    ASSUME SizeOK, TypeOK, Inv, NEW t \in Threads, EnqCAE(t), Slot(t).node = NULL
    PROVE  KQueue!Put
<1>1. TypeOK' /\ stamp' = stamp + 1 /\ Live' = Live \cup {stamp + 1}
  BY EntersInv
<1>2. Content = Listing(Live) /\ Live \in SUBSET Nat /\ IsFiniteSet(Live)
  BY ContentIs
<1>3. Content' = Listing(Live \cup {stamp + 1})
  BY <1>1, ContentNext
<1>4. stamp + 1 \in Nat /\ \A r \in Live : r < stamp + 1
  <2>1. stamp \in Nat /\ Live \subseteq 1 .. stamp
    BY DEF TypeOK, Live
  <2> QED
    BY <2>1
<1>5. PICK x \in Nat : x = stamp + 1
  BY <1>4
<1>6. /\ Len(Listing(Live \cup {x})) = Len(Listing(Live)) + 1
      /\ \A i \in DOMAIN Listing(Live) :
            /\ Listing(Live \cup {x})[i] = Listing(Live)[i]
            /\ Listing(Live \cup {x})[Len(Listing(Live \cup {x}))] # Listing(Live)[i]
  <2>1. \A r \in Live : r < x
    BY <1>4, <1>5
  <2> QED
    BY <1>2, <2>1, ListingPut
<1> QED
  BY <1>2, <1>3, <1>5, <1>6 DEF KQueue!Put

\* A delete takes one of the segment_size oldest items.
LEMMA LeavesTakes ==
    ASSUME SizeOK, TypeOK, Inv, NEW t \in Threads, DeqCAS(t), Undeleted(t)
    PROVE  KQueue!Take
<1>1. /\ TypeOK' /\ Slot(t).node \in Live /\ Live' = Live \ {Slot(t).node}
      /\ \A r \in Live : r < Slot(t).node =>
            \E j \in Slots \ {local[t].slot} : r = segments[local[t].segment][j].node
  BY LeavesInv
<1>2. Content = Listing(Live) /\ Live \in SUBSET Nat /\ IsFiniteSet(Live)
  BY ContentIs
<1>3. Content' = Listing(Live \ {Slot(t).node})
  BY <1>1, ContentNext
<1>4. PICK x \in Live : x = Slot(t).node
  BY <1>1
<1>5. /\ Rank(Live, x) + 1 \in DOMAIN Listing(Live)
      /\ Listing(Live \ {x}) =
            [j \in 1 .. Len(Listing(Live)) - 1 |->
                Listing(Live)[IF j < Rank(Live, x) + 1 THEN j ELSE j + 1]]
  BY <1>2, ListingTake
<1>6. Rank(Live, x) \in Nat /\ Rank(Live, x) <= SegmentSize - 1
  <2> DEFINE others == Slots \ {local[t].slot}
             f == [j \in others |-> segments[local[t].segment][j].node]
             T == {f[j] : j \in others}
  <2>1. IsFiniteSet(Slots) /\ Cardinality(Slots) = SegmentSize
    <3>1. 0 \in Int /\ SegmentSize - 1 \in Int
      BY DEF SizeOK
    <3>2. /\ IsFiniteSet(0 .. SegmentSize - 1)
          /\ Cardinality(0 .. SegmentSize - 1) =
                IF 0 > SegmentSize - 1 THEN 0 ELSE SegmentSize - 1 - 0 + 1
      BY <3>1, FS_Interval
    <3> QED
      BY <3>2 DEF Slots, SizeOK
  <2>2. local[t].slot \in Slots
    BY DEF TypeOK, Local
  <2>3. IsFiniteSet(others) /\ Cardinality(others) = SegmentSize - 1
    BY <2>1, <2>2, FS_RemoveElement
  <2>4. f \in Surjection(others, T)
    <3>1. f \in [others -> T]
      OBVIOUS
    <3>2. \A r \in T : \E j \in others : f[j] = r
      OBVIOUS
    <3> HIDE DEF f, T, others
    <3> QED
      BY <3>1, <3>2 DEF Surjection
  <2>5. IsFiniteSet(T) /\ Cardinality(T) <= SegmentSize - 1
    <3> HIDE DEF f, T, others
    <3> QED
      BY <2>3, <2>4, FS_Surjection
  <2>6. Below(Live, x) \in SUBSET T
    <3>1. ASSUME NEW r \in Live, r < x PROVE r \in T
      <4>1. PICK j \in others : r = segments[local[t].segment][j].node
        BY <1>1, <1>4, <3>1
      <4>2. f[j] = r
        BY <4>1
      <4> QED
        BY <4>2
    <3> QED
      BY <3>1 DEF Below
  <2>7. Cardinality(Below(Live, x)) <= Cardinality(T)
    BY <2>5, <2>6, FS_Subset
  <2>8. Rank(Live, x) \in Nat /\ Cardinality(T) \in Nat
    BY <1>2, <2>5, RankRange, FS_CardinalityType
  <2> HIDE DEF T
  <2> QED
    BY <2>5, <2>7, <2>8 DEF Rank, SizeOK
<1>7. PICK p : p = Rank(Live, x) + 1
  OBVIOUS
<1>8. p \in DOMAIN Content /\ p - 1 <= SegmentSize - 1
  BY <1>2, <1>5, <1>6, <1>7
<1>9. Content' = [j \in 1 .. Len(Content) - 1 |-> Content[IF j < p THEN j ELSE j + 1]]
  BY <1>2, <1>3, <1>4, <1>5, <1>7
<1> QED
  BY <1>8, <1>9 DEF KQueue!Take, KQueue!Skips, KQueue!Without

\* Every other step leaves the slots alone, or adds free ones.
LEMMA OtherStepsKeep ==
    ASSUME SizeOK, TypeOK, Inv, NEW t \in Threads, Step(t),
           ~(EnqCAE(t) /\ Slot(t).node = NULL), ~(DeqCAS(t) /\ Undeleted(t))
    PROVE  Live' = Live
<1>1. CASE UNCHANGED <<segments, stamp>>
  BY <1>1 DEF Live
<1>2. CASE segments' = Append(segments, Empty) /\ stamp' = stamp
  <2>1. Empty \in [Slots -> Cell]
    BY EmptyTyped
  <2> DEFINE T == [Slots -> Cell]
  <2>2. segments \in Seq(T) /\ Empty \in T
    BY <2>1 DEF TypeOK
  <2>3. /\ DOMAIN segments' = DOMAIN segments \cup {Len(segments) + 1}
        /\ \A g \in DOMAIN segments : segments'[g] = segments[g]
        /\ segments'[Len(segments) + 1] = Empty
    <3> HIDE DEF T
    <3>1. /\ DOMAIN segments' = 1 .. Len(segments) + 1 /\ Len(segments) \in Nat
          /\ DOMAIN segments = 1 .. Len(segments)
          /\ \A g \in DOMAIN segments : segments'[g] = segments[g]
          /\ segments'[Len(segments) + 1] = Empty
      BY <1>2, <2>2
    <3> QED
      BY <3>1
  <2>4. \A s \in 1 .. stamp, i \in Slots : Empty[i] # [node |-> s, deleted |-> 0]
    <3> SUFFICES ASSUME NEW s \in 1 .. stamp, NEW i \in Slots
                 PROVE  Empty[i].node # s
      OBVIOUS
    <3>1. Empty[i].node = 0
      BY DEF Empty, Free, NULL
    <3> QED
      BY <3>1
  <2>5. ASSUME NEW s \in 1 .. stamp
        PROVE  (\E g \in DOMAIN segments', i \in Slots :
                    segments'[g][i] = [node |-> s, deleted |-> 0])
               <=> (\E g \in DOMAIN segments, i \in Slots :
                    segments[g][i] = [node |-> s, deleted |-> 0])
    BY <2>3, <2>4
  <2> QED
    BY <1>2, <2>5 DEF Live
<1> QED
  BY <1>1, <1>2 DEF Step, Insert, Delete, InsertCall, PushStart, PushRead, PushWalk, CreateSegment,
     SwingTail, Created, EnqCAE, DeleteCall, PopStart, PopTop, PassSegment, Passed, PopRead,
     PopReadDeleted, PopWalk, ReturnEmpty, DeqCAS, Undeleted, Empty

\* For every segment_size and every number of threads and operations the
\* k-segment queue implements the abstract queue with K = segment_size - 1: an
\* insert appends its item, a delete takes one of the segment_size oldest, in
\* every interleaving, and no other step changes what the queue holds.
THEOREM SegmentQueueIsOutOfOrder == SizeOK => (Spec => KQueue!Spec)
<1> SUFFICES ASSUME SizeOK PROVE Spec => KQueue!Spec
  OBVIOUS
<1>1. Init => KQueue!Init
  <2> SUFFICES ASSUME Init PROVE Content = <<>>
    BY DEF KQueue!Init
  <2>1. Live = {}
    BY DEF Init, Live
  <2>2. Cardinality(Live) = 0
    BY <2>1, FS_EmptySet
  <2> QED
    BY <2>2 DEF Content
<1>2. TypeOK /\ Inv /\ [Next]_vars => [KQueue!Next]_Content
  <2> SUFFICES ASSUME TypeOK, Inv, [Next]_vars PROVE [KQueue!Next]_Content
    OBVIOUS
  <2>1. ASSUME Live' = Live PROVE Content' = Content
    BY <2>1 DEF Content, Older
  <2>2. CASE \E t \in Threads : Step(t)
    <3>1. PICK t \in Threads : Step(t)
      BY <2>2
    <3>2. CASE EnqCAE(t) /\ Slot(t).node = NULL
      BY <3>2, EntersPuts DEF KQueue!Next
    <3>3. CASE DeqCAS(t) /\ Undeleted(t)
      BY <3>3, LeavesTakes DEF KQueue!Next
    <3>4. CASE ~(EnqCAE(t) /\ Slot(t).node = NULL) /\ ~(DeqCAS(t) /\ Undeleted(t))
      BY <2>1, <3>1, <3>4, OtherStepsKeep
    <3> QED
      BY <3>2, <3>3, <3>4
  <2>3. CASE UNCHANGED vars
    <3>1. Live' = Live
      BY <2>3 DEF vars, Live
    <3> QED
      BY <2>1, <3>1
  <2> QED
    BY <2>2, <2>3 DEF Next, Step, Finished
<1>3. Spec => [](TypeOK /\ Inv)
  BY InvHolds
<1> QED
  BY <1>1, <1>2, <1>3, PTL DEF Spec, KQueue!Spec

=============================================================================
