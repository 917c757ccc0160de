--------------------------- MODULE QueueLaWProofs ---------------------------
(***************************************************************************)
(* The put side of the Lateral-as-Window queue, for every number of        *)
(* threads, operations and changes of the dimensions: no tail gets above   *)
(* the put window, and a window is left behind only when it is full.       *)
(***************************************************************************)
EXTENDS QueueLaW, TLAPS

\* The widths and depths that the drivers ask for: positive, within width_t and
\* with a largest one, max_width.
SizesOK ==
    /\ Widths \subseteq Nat \ {0} /\ Depths \subseteq Nat \ {0}
    /\ \A w \in Widths : w < UINT16
    /\ \E m \in Widths : \A w \in Widths : w <= m

\* No count has reached the range of uint64_t.
NoWrap == \A n \in 1 .. Len(lateral.nodes) : lateral.nodes[n].max + 1 < UINT64

PutPCs == {"put_enter", "put_read", "put_reread", "put_check", "put_shift", "put_swing",
           "put_resync", "put_return", "enq_next", "enq_cae", "enq_tail"}
GetPCs == {"get_enter", "get_read", "get_reread", "get_count", "get_check", "get_tail",
           "get_shift", "get_resync", "get_return", "deq_reread", "deq_next", "deq_help",
           "deq_cae"}

Window == [id : Nat, max : Nat, width : Widths, depth : Nat]
Descriptor == [node : Nat, count : Nat]
Local ==
    [pc : {"idle"} \cup PutPCs \cup GetPCs, pi : Index, gi : Index, pw : Window, gw : Window,
     ops : Nat, contention : {0, 1}, hops : Nat, random : Nat, notempty : {0, 1},
     des : Descriptor, enq : Descriptor, count : Nat, new : Window]

LaWTypeOK ==
    /\ lateral \in [nodes : Seq(Window), head : Nat, tail : Nat]
    /\ put_array \in [Index -> Descriptor] /\ get_array \in [Index -> Descriptor]
    /\ items \in [Index -> Nat]
    /\ set \in [width : Widths, depth : Depths, updates : Nat]
    /\ th \in [Threads -> Local]

\* The lateral: windows one above the other; the get window is not above the put
\* window, and at most one window waits to become the put window.
LateralPointers ==
    /\ 1 <= lateral.head /\ lateral.head < lateral.tail
    /\ lateral.tail <= Len(lateral.nodes) /\ Len(lateral.nodes) <= lateral.tail + 1

LateralStacked ==
    /\ \A n \in 1 .. Len(lateral.nodes) : lateral.nodes[n].id = n
    /\ \A n \in 2 .. Len(lateral.nodes) : lateral.nodes[n].depth <= lateral.nodes[n].max
    /\ \A n \in 2 .. Len(lateral.nodes) : lateral.nodes[n].depth > 0
    /\ \A m, n \in 1 .. Len(lateral.nodes) : m < n => lateral.nodes[m].max < lateral.nodes[n].max

LateralInv == LateralPointers /\ LateralStacked

\* A tail lags by at most one node, and only below the top of the put window.
TailsInv ==
    \A i \in Index :
        /\ put_array[i].node <= items[i] /\ items[i] <= put_array[i].node + 1
        /\ put_array[i].count <= PutWin.max
        /\ put_array[i].node < items[i] => put_array[i].count < PutWin.max

\* A window that was left behind is full over its whole width.
FullBehind ==
    \A n \in 2 .. lateral.tail - 1 : \A i \in 0 .. lateral.nodes[n].width - 1 :
        put_array[i].count >= lateral.nodes[n].max

\* A window that a thread holds is one of the lateral.
Held(win, last) == win.id \in 2 .. last /\ win = lateral.nodes[win.id]

\* The words of a descriptor were read apart, but both are old.
Old(des, i) == des.node <= put_array[i].node /\ des.count <= put_array[i].count

\* The indices that h linear hops ending at index i have left behind.
Visited(i, h, w) ==
    {j \in 0 .. w - 1 : (j < i /\ j >= i - h) \/ (j >= i /\ j >= w + i - h)}

Scanning == {"put_read", "put_reread", "put_check"}
Shifting == {"put_shift", "put_swing"}
HoldsTail == {"put_reread", "put_check", "put_return", "enq_next", "enq_cae", "enq_tail"}
Checked == {"put_return", "enq_next", "enq_cae", "enq_tail"}

\* put_window: the indices that the round has left behind are full.
RoundInv(me) ==
    /\ me.pc \in Scanning =>
          /\ me.pi < me.pw.width /\ me.hops <= me.pw.width
          /\ me.hops > 0 => ~(me.random < RandomHops)
          /\ \A j \in Visited(me.pi, me.hops, me.pw.width) : put_array[j].count >= me.pw.max
    /\ me.pc \in Shifting =>
          \A j \in 0 .. me.pw.width - 1 : put_array[j].count >= me.pw.max
    /\ me.pc = "put_swing" => me.pw.id < Len(lateral.nodes)

\* enqueue: past the double check the node held is below the window, and past the
\* link a node hangs behind it.
EnqueueInv(me) ==
    /\ me.pc \in HoldsTail => Old(me.des, me.pi)
    /\ me.pc \in Checked => me.des.count < me.pw.max
    /\ me.pc \in {"enq_next", "enq_cae"} =>
          (put_array[me.pi].node = me.des.node => put_array[me.pi].count < me.pw.max)
    /\ me.pc = "enq_tail" => me.des.node < items[me.pi]

\* dequeue: what it helps with is a lagging tail, and the count it writes is
\* inside the put window.
DequeueInv(me) ==
    /\ me.pc = "get_shift" => me.gw.id < lateral.tail
    /\ me.pc \in {"deq_reread", "deq_next", "deq_help"} => Old(me.enq, me.gi)
    /\ me.pc = "deq_next" => me.enq.node = me.des.node
    /\ me.pc = "deq_help" =>
          /\ me.enq.node < items[me.gi] /\ me.enq.count < me.count
          /\ me.count = me.enq.count + 1 \/ me.count <= PutWin.max

\* What a thread with these locals may rely on.
ThreadInv(me) ==
    /\ Held(me.pw, lateral.tail) /\ Held(me.gw, lateral.head + 1)
    /\ RoundInv(me) /\ EnqueueInv(me) /\ DequeueInv(me)

SharedInv == LateralInv /\ TailsInv /\ FullBehind
Inv == LaWTypeOK /\ SharedInv /\ \A t \in Threads : ThreadInv(th[t])

-----------------------------------------------------------------------------
\* Every index of a window is one of the arrays.
LEMMA WindowIndices ==
    ASSUME SizesOK
    PROVE  /\ Index \subseteq Nat
           /\ \A w \in Widths : w \in Nat /\ w > 0 /\ w < UINT16 /\ 0 .. w - 1 \subseteq Index
<1> DEFINE M == CHOOSE m \in Widths : \A w \in Widths : w <= m
<1>1. M \in Widths /\ \A w \in Widths : w <= M
  BY DEF SizesOK
<1>2. M \in Nat /\ Index = 0 .. M - 1
  BY <1>1 DEF SizesOK, Index
<1> HIDE DEF M
<1> QED
  BY <1>1, <1>2 DEF SizesOK

\* What the hops of a round have left behind.
LEMMA VisitedRound ==
    ASSUME NEW w \in Nat \ {0}, NEW i \in 0 .. w - 1, NEW h \in 0 .. w
    PROVE  /\ Visited(i, 0, w) = {}
           /\ h < w => Visited(IF i + 1 >= w THEN 0 ELSE i + 1, h + 1, w)
                           \subseteq Visited(i, h, w) \cup {i}
           /\ Visited(i, w, w) = 0 .. w - 1
<1> USE DEF Visited
<1>1. Visited(i, 0, w) = {}
  OBVIOUS
<1>2. ASSUME h < w, NEW j \in Visited(IF i + 1 >= w THEN 0 ELSE i + 1, h + 1, w)
      PROVE  j \in Visited(i, h, w) \cup {i}
  BY <1>2
<1>3. Visited(i, w, w) = 0 .. w - 1
  OBVIOUS
<1> QED
  BY <1>1, <1>2, <1>3

\* The count of the next item, as long as nothing wraps around.
LEMMA CountAboveRange ==
    ASSUME NEW count \in Nat, NEW max \in Nat, NEW bottom \in Nat,
           bottom < max, count < UINT64 - 1, max + 1 < UINT64
    PROVE  /\ CountAbove(count, bottom) \in Nat
           /\ count < CountAbove(count, bottom)
           /\ count < max => CountAbove(count, bottom) <= max
           /\ CountAbove(count, bottom) = count + 1 \/ CountAbove(count, bottom) <= max
  BY DEF CountAbove, UINT64

LEMMA CountAboveNat ==
    ASSUME NEW count \in Nat, NEW bottom \in Nat
    PROVE  CountAbove(count, bottom) \in Nat
  BY DEF CountAbove, UINT64

LEMMA BottomNat ==
    ASSUME NEW win \in Window
    PROVE  Bottom(win) \in Nat
  BY DEF Window, Bottom, UINT64

\* A window has at least one row.
LEMMA BottomBelow ==
    ASSUME NEW max \in Nat, NEW depth \in Nat, depth > 0, depth <= max, max + 1 < UINT64
    PROVE  (max - depth) % UINT64 \in Nat /\ (max - depth) % UINT64 < max
  BY DEF UINT64

\* Where the windows of the lateral begin.
LEMMA LateralWindows ==
    ASSUME LaWTypeOK, LateralInv, NoWrap
    PROVE  /\ Len(lateral.nodes) \in Nat /\ lateral.head \in Nat /\ lateral.tail \in Nat
           /\ \A n \in 1 .. Len(lateral.nodes) : lateral.nodes[n] \in Window
           /\ PutWin \in Window /\ GetWin \in Window
           /\ PutWin.id = lateral.tail /\ GetWin.id = lateral.head + 1
           /\ \A n \in 2 .. Len(lateral.nodes) :
                 /\ Bottom(lateral.nodes[n]) \in Nat
                 /\ Bottom(lateral.nodes[n]) < lateral.nodes[n].max
           /\ \A n \in 1 .. lateral.tail : lateral.nodes[n].max <= PutWin.max
<1>1. /\ Len(lateral.nodes) \in Nat /\ lateral.head \in Nat /\ lateral.tail \in Nat
      /\ lateral.nodes \in Seq(Window)
  BY DEF LaWTypeOK
<1>2. \A n \in 1 .. Len(lateral.nodes) : lateral.nodes[n] \in Window
  BY <1>1
<1>3. /\ lateral.tail \in 1 .. Len(lateral.nodes)
      /\ lateral.head + 1 \in 1 .. Len(lateral.nodes)
  BY <1>1 DEF LateralInv, LateralPointers
<1>4. /\ PutWin \in Window /\ GetWin \in Window
      /\ PutWin.id = lateral.tail /\ GetWin.id = lateral.head + 1
  BY <1>2, <1>3 DEF LateralInv, LateralStacked, PutWin, GetWin
<1>5. ASSUME NEW n \in 2 .. Len(lateral.nodes)
      PROVE  Bottom(lateral.nodes[n]) \in Nat /\ Bottom(lateral.nodes[n]) < lateral.nodes[n].max
  <2>1. n \in 1 .. Len(lateral.nodes)
    BY <1>1
  <2>2. /\ lateral.nodes[n].max \in Nat /\ lateral.nodes[n].depth \in Nat
        /\ lateral.nodes[n].depth > 0 /\ lateral.nodes[n].depth <= lateral.nodes[n].max
        /\ lateral.nodes[n].max + 1 < UINT64
    BY <2>1, <1>2 DEF Window, LateralInv, LateralStacked, NoWrap
  <2> QED
    BY <2>2, BottomBelow DEF Bottom
<1>6. ASSUME NEW n \in 1 .. lateral.tail
      PROVE  lateral.nodes[n].max <= PutWin.max
  <2>1. n \in 1 .. Len(lateral.nodes) /\ (n < lateral.tail \/ n = lateral.tail)
    BY <1>1, <1>3
  <2>2. lateral.nodes[n].max \in Nat /\ PutWin.max \in Nat
    BY <2>1, <1>2, <1>4 DEF Window
  <2> QED
    BY <2>1, <2>2, <1>3 DEF LateralInv, LateralStacked, PutWin
<1> QED
  BY <1>1, <1>2, <1>4, <1>5, <1>6

-----------------------------------------------------------------------------
\* What every step does to the shared state: windows are added, counts and nodes
\* grow together.
LateralGrows ==
    /\ lateral.tail <= lateral'.tail /\ lateral.head <= lateral'.head
    /\ Len(lateral.nodes) <= Len(lateral'.nodes)
    /\ \A n \in 1 .. Len(lateral.nodes) : lateral'.nodes[n] = lateral.nodes[n]

TailsGrow ==
    \A i \in Index :
        /\ put_array[i].node <= put_array'[i].node /\ put_array[i].count <= put_array'[i].count
        /\ put_array'[i].node = put_array[i].node => put_array'[i] = put_array[i]
        /\ items[i] <= items'[i]

\* The put window only rises.
LEMMA PutWindowRises ==
    ASSUME LaWTypeOK, LaWTypeOK', LateralInv, LateralInv', LateralGrows
    PROVE  PutWin.max \in Nat /\ PutWin'.max \in Nat /\ PutWin.max <= PutWin'.max
<1>1. /\ lateral.tail \in Nat /\ lateral'.tail \in Nat
      /\ lateral.head \in Nat /\ lateral'.head \in Nat
      /\ lateral.nodes \in Seq(Window) /\ lateral'.nodes \in Seq(Window)
      /\ Len(lateral.nodes) \in Nat /\ Len(lateral'.nodes) \in Nat
  BY DEF LaWTypeOK
<1>2. /\ lateral.tail \in 1 .. Len(lateral.nodes)
      /\ lateral.tail \in 1 .. Len(lateral'.nodes) /\ lateral'.tail \in 1 .. Len(lateral'.nodes)
      /\ lateral.tail < lateral'.tail \/ lateral.tail = lateral'.tail
      /\ lateral'.nodes[lateral.tail] = lateral.nodes[lateral.tail]
  <2>1. lateral.tail \in 1 .. Len(lateral.nodes) /\ lateral'.tail \in 1 .. Len(lateral'.nodes)
    BY <1>1 DEF LateralInv, LateralPointers
  <2> QED
    BY <2>1, <1>1 DEF LateralGrows
<1>3. lateral.nodes[lateral.tail] \in Window /\ lateral'.nodes[lateral'.tail] \in Window
  BY <1>1, <1>2
<1>4. lateral.nodes[lateral.tail].max <= lateral'.nodes[lateral'.tail].max
  <2>1. /\ lateral'.nodes[lateral.tail].max \in Nat
        /\ lateral'.nodes[lateral'.tail].max \in Nat
    BY <1>2, <1>3 DEF Window
  <2>2. \A m, n \in 1 .. Len(lateral'.nodes) :
           m < n => lateral'.nodes[m].max < lateral'.nodes[n].max
    BY DEF LateralInv, LateralStacked
  <2>3. CASE lateral.tail = lateral'.tail
    BY <2>1, <2>3, <1>2
  <2>4. CASE lateral.tail < lateral'.tail
    <3>1. lateral'.nodes[lateral.tail].max < lateral'.nodes[lateral'.tail].max
      BY <2>2, <2>4, <1>2
    <3> QED
      BY <2>1, <3>1, <1>2
  <2> QED
    BY <2>3, <2>4, <1>2
<1> QED
  BY <1>3, <1>4 DEF PutWin, Window

\* Locals that are not written stay right.
LEMMA LocalsKept ==
    ASSUME SizesOK, LaWTypeOK, LaWTypeOK', LateralInv, LateralInv', LateralGrows, TailsGrow,
           NEW me \in Local, ThreadInv(me)
    PROVE  ThreadInv(me)'
<1>1. LaWTypeOK /\ LateralInv /\ ThreadInv(me)
  OBVIOUS
<1>2. /\ me.pi \in Index /\ me.gi \in Index /\ me.pw \in Window /\ me.gw \in Window
      /\ me.des \in Descriptor /\ me.enq \in Descriptor /\ me.count \in Nat
      /\ me.pw.id \in Nat /\ me.gw.id \in Nat /\ me.pw.max \in Nat /\ me.pw.width \in Widths
      /\ me.des.node \in Nat /\ me.des.count \in Nat /\ me.enq.node \in Nat /\ me.enq.count \in Nat
  BY DEF Local, Window, Descriptor
<1>3. /\ Len(lateral.nodes) \in Nat /\ lateral.tail \in Nat /\ lateral.head \in Nat
      /\ Len(lateral'.nodes) \in Nat /\ lateral'.tail \in Nat /\ lateral'.head \in Nat
      /\ \A i \in Index : /\ put_array[i].node \in Nat /\ put_array[i].count \in Nat
                          /\ put_array'[i].node \in Nat /\ put_array'[i].count \in Nat
                          /\ items[i] \in Nat /\ items'[i] \in Nat
  <2>1. /\ Len(lateral.nodes) \in Nat /\ lateral.tail \in Nat /\ lateral.head \in Nat
        /\ Len(lateral'.nodes) \in Nat /\ lateral'.tail \in Nat /\ lateral'.head \in Nat
    BY <1>1 DEF LaWTypeOK
  <2>2. \A i \in Index : put_array[i].node \in Nat /\ put_array[i].count \in Nat
    BY <1>1 DEF LaWTypeOK, Descriptor
  <2>3. \A i \in Index : put_array'[i].node \in Nat /\ put_array'[i].count \in Nat
    BY DEF LaWTypeOK, Descriptor
  <2>4. \A i \in Index : items[i] \in Nat /\ items'[i] \in Nat
    BY <1>1 DEF LaWTypeOK
  <2> QED
    BY <2>1, <2>2, <2>3, <2>4
<1>4. /\ me.pw.id \in 2 .. lateral'.tail /\ me.pw = lateral'.nodes[me.pw.id]
      /\ me.gw.id \in 2 .. lateral'.head + 1 /\ me.gw = lateral'.nodes[me.gw.id]
  <2>1. Held(me.pw, lateral.tail) /\ Held(me.gw, lateral.head + 1)
    BY <1>1 DEF ThreadInv
  <2>2. lateral.tail <= Len(lateral.nodes) /\ lateral.head + 1 <= Len(lateral.nodes)
    BY <1>1, <1>3 DEF LateralInv, LateralPointers
  <2>3. \A n \in 1 .. Len(lateral.nodes) : lateral'.nodes[n] = lateral.nodes[n]
    BY DEF LateralGrows
  <2>4. lateral.tail <= lateral'.tail /\ lateral.head <= lateral'.head
    BY DEF LateralGrows
  <2>5. /\ me.pw.id \in 2 .. lateral.tail /\ me.pw = lateral.nodes[me.pw.id]
        /\ me.gw.id \in 2 .. lateral.head + 1 /\ me.gw = lateral.nodes[me.gw.id]
    BY <2>1 DEF Held
  <2>6. /\ lateral.tail \in Nat /\ lateral.head \in Nat /\ Len(lateral.nodes) \in Nat
        /\ lateral'.tail \in Nat /\ lateral'.head \in Nat
        /\ me.pw.id \in Nat /\ me.gw.id \in Nat
    BY <1>2, <1>3
  <2>7. me.pw.id \in 1 .. Len(lateral.nodes) /\ me.gw.id \in 1 .. Len(lateral.nodes)
    <3>1. me.pw.id \in 2 .. lateral.tail /\ me.gw.id \in 2 .. lateral.head + 1
      BY <2>5
    <3>2. me.pw.id \in 1 .. Len(lateral.nodes)
      BY <2>2, <2>6, <3>1
    <3>3. me.gw.id \in 1 .. Len(lateral.nodes)
      BY <2>2, <2>6, <3>1
    <3> QED
      BY <3>2, <3>3
  <2>8. me.pw.id \in 2 .. lateral'.tail /\ me.gw.id \in 2 .. lateral'.head + 1
    <3>1. me.pw.id \in 2 .. lateral.tail /\ me.gw.id \in 2 .. lateral.head + 1
      BY <2>5
    <3>2. me.pw.id \in 2 .. lateral'.tail
      BY <2>4, <2>6, <3>1
    <3>3. me.gw.id \in 2 .. lateral'.head + 1
      BY <2>4, <2>6, <3>1
    <3> QED
      BY <3>2, <3>3
  <2> QED
    BY <2>3, <2>5, <2>7, <2>8
<1>5. RoundInv(me)'
  <2>1. RoundInv(me)
    BY <1>1 DEF ThreadInv
  <2>2. /\ me.pw.width \in Nat /\ 0 .. me.pw.width - 1 \subseteq Index
        /\ Visited(me.pi, me.hops, me.pw.width) \subseteq Index
    BY <1>2, WindowIndices DEF Visited
  <2>3. ASSUME NEW j \in Index, put_array[j].count >= me.pw.max
        PROVE  put_array'[j].count >= me.pw.max
    <3>1. put_array[j].count <= put_array'[j].count
      BY DEF TailsGrow
    <3>2. put_array[j].count \in Nat /\ put_array'[j].count \in Nat /\ me.pw.max \in Nat
      BY <1>2, <1>3
    <3> QED
      BY <2>3, <3>1, <3>2
  <2>4. me.pw.id < Len(lateral.nodes) => me.pw.id < Len(lateral'.nodes)
    <3>1. Len(lateral.nodes) <= Len(lateral'.nodes)
      BY DEF LateralGrows
    <3>2. /\ Len(lateral.nodes) \in Nat /\ Len(lateral'.nodes) \in Nat /\ me.pw.id \in Nat
      BY <1>2, <1>3
    <3> QED
      BY <3>1, <3>2
  <2> QED
    BY <2>1, <2>2, <2>3, <2>4 DEF RoundInv
<1>6. EnqueueInv(me)'
  <2>1. EnqueueInv(me)
    BY <1>1 DEF ThreadInv
  <2>2. Old(me.des, me.pi) =>
           me.des.node <= put_array'[me.pi].node /\ me.des.count <= put_array'[me.pi].count
    <3>1. /\ put_array[me.pi].node <= put_array'[me.pi].node
          /\ put_array[me.pi].count <= put_array'[me.pi].count
          /\ put_array[me.pi].node \in Nat /\ put_array'[me.pi].node \in Nat
          /\ put_array[me.pi].count \in Nat /\ put_array'[me.pi].count \in Nat
      BY <1>2, <1>3 DEF TailsGrow
    <3>2. /\ me.des.node \in Nat /\ me.des.count \in Nat
      BY <1>2
    <3> QED
      BY <3>1, <3>2 DEF Old
  <2>3. ASSUME Old(me.des, me.pi),
               put_array[me.pi].node = me.des.node => put_array[me.pi].count < me.pw.max,
               put_array'[me.pi].node = me.des.node
        PROVE  put_array'[me.pi].count < me.pw.max
    <3>1. /\ put_array[me.pi].node <= put_array'[me.pi].node
          /\ put_array'[me.pi].node = put_array[me.pi].node => put_array'[me.pi] = put_array[me.pi]
          /\ put_array[me.pi].node \in Nat /\ me.des.node \in Nat
      BY <1>2, <1>3 DEF TailsGrow
    <3>2. put_array'[me.pi] = put_array[me.pi]
      BY <2>3, <3>1 DEF Old
    <3> QED
      BY <2>3, <3>2
  <2>4. me.des.node < items[me.pi] => me.des.node < items'[me.pi]
    <3>1. items[me.pi] <= items'[me.pi]
      BY <1>2 DEF TailsGrow
    <3>2. items[me.pi] \in Nat /\ items'[me.pi] \in Nat /\ me.des.node \in Nat
      BY <1>2, <1>3
    <3> QED
      BY <3>1, <3>2
  <2> QED
    BY <2>1, <2>2, <2>3, <2>4 DEF EnqueueInv, HoldsTail, Old
<1>7. DequeueInv(me)'
  <2>1. DequeueInv(me)
    BY <1>1 DEF ThreadInv
  <2>2. Old(me.enq, me.gi) =>
           me.enq.node <= put_array'[me.gi].node /\ me.enq.count <= put_array'[me.gi].count
    <3>1. /\ put_array[me.gi].node <= put_array'[me.gi].node
          /\ put_array[me.gi].count <= put_array'[me.gi].count
          /\ put_array[me.gi].node \in Nat /\ put_array'[me.gi].node \in Nat
          /\ put_array[me.gi].count \in Nat /\ put_array'[me.gi].count \in Nat
      BY <1>2, <1>3 DEF TailsGrow
    <3>2. /\ me.enq.node \in Nat /\ me.enq.count \in Nat
      BY <1>2
    <3> QED
      BY <3>1, <3>2 DEF Old
  <2>3. me.enq.node < items[me.gi] => me.enq.node < items'[me.gi]
    <3>1. items[me.gi] <= items'[me.gi]
      BY <1>2 DEF TailsGrow
    <3>2. items[me.gi] \in Nat /\ items'[me.gi] \in Nat /\ me.enq.node \in Nat
      BY <1>2, <1>3
    <3> QED
      BY <3>1, <3>2
  <2>4. PutWin.max \in Nat /\ PutWin'.max \in Nat /\ PutWin.max <= PutWin'.max
    BY <1>1, PutWindowRises
  <2>5. me.gw.id < lateral.tail => me.gw.id < lateral'.tail
    <3>1. lateral.tail <= lateral'.tail
      BY DEF LateralGrows
    <3>2. lateral.tail \in Nat /\ lateral'.tail \in Nat /\ me.gw.id \in Nat
      BY <1>2, <1>3
    <3> QED
      BY <3>1, <3>2
  <2> QED
    BY <2>1, <2>2, <2>3, <2>4, <2>5, <1>2 DEF DequeueInv, Old
<1> QED
  BY <1>4, <1>5, <1>6, <1>7 DEF ThreadInv, Held

\* Locals stay right when nothing they are about changes.
LEMMA QuietLocals ==
    ASSUME NEW me, ThreadInv(me), UNCHANGED <<lateral, put_array, items>>
    PROVE  ThreadInv(me)'
<1>1. Held(me.pw, lateral.tail)' /\ Held(me.gw, lateral.head + 1)'
  BY DEF ThreadInv, Held
<1>2. RoundInv(me)'
  BY DEF ThreadInv, RoundInv
<1>3. EnqueueInv(me)'
  BY DEF ThreadInv, EnqueueInv, Old
<1>4. DequeueInv(me)'
  <2>1. PutWin' = PutWin
    BY DEF PutWin
  <2> QED
    BY <2>1 DEF ThreadInv, DequeueInv, Old
<1> QED
  BY <1>1, <1>2, <1>3, <1>4 DEF ThreadInv

\* A step of t that leaves the shared state as it was.
LEMMA LocalStep ==
    ASSUME SizesOK, Inv, UNCHANGED <<lateral, shared>>, NEW t \in Threads, NEW r \in Local,
           th' = [th EXCEPT ![t] = r], ThreadInv(r)
    PROVE  Inv'
<1>1. /\ LaWTypeOK /\ SharedInv /\ \A u \in Threads : ThreadInv(th[u])
  BY DEF Inv
<1>2. /\ lateral' = lateral /\ put_array' = put_array /\ get_array' = get_array
      /\ items' = items /\ set' = set
  BY DEF shared
<1>3. LaWTypeOK'
  BY <1>1, <1>2 DEF LaWTypeOK
<1>4. SharedInv'
  BY <1>1, <1>2 DEF SharedInv, LateralInv, LateralPointers, LateralStacked, TailsInv, FullBehind,
     PutWin
<1>5. ASSUME NEW u \in Threads
      PROVE  ThreadInv(th[u])'
  <2>1. PICK me \in Local : me = th'[u] /\ ThreadInv(me)
    BY <1>1 DEF LaWTypeOK
  <2>2. ThreadInv(me)'
    BY <2>1, <1>2, QuietLocals
  <2> QED
    BY <2>1, <2>2
<1> QED
  BY <1>3, <1>4, <1>5 DEF Inv

\* The locals of a thread and what they are.
LEMMA LocalNumbers ==
    ASSUME NEW me \in Local
    PROVE  /\ me.pi \in Index /\ me.gi \in Index /\ me.pw \in Window /\ me.gw \in Window
           /\ me.des \in Descriptor /\ me.enq \in Descriptor /\ me.count \in Nat
           /\ me.hops \in Nat /\ me.random \in Nat /\ me.ops \in Nat
           /\ me.pw.id \in Nat /\ me.pw.max \in Nat /\ me.pw.width \in Widths
           /\ me.gw.id \in Nat /\ me.gw.max \in Nat /\ me.gw.width \in Widths
           /\ me.des.node \in Nat /\ me.des.count \in Nat
           /\ me.enq.node \in Nat /\ me.enq.count \in Nat
  BY DEF Local, Window, Descriptor

\* The windows that a step takes over from the lateral, or keeps.
LEMMA WindowsHeld ==
    ASSUME LaWTypeOK, LateralInv, NoWrap
    PROVE  Held(PutWin, lateral.tail) /\ Held(GetWin, lateral.head + 1)
<1>1. /\ lateral.head \in Nat /\ lateral.tail \in Nat
      /\ PutWin.id = lateral.tail /\ GetWin.id = lateral.head + 1
  BY LateralWindows
<1>2. lateral.tail \in 2 .. lateral.tail /\ lateral.head + 1 \in 2 .. lateral.head + 1
  BY <1>1 DEF LateralInv, LateralPointers
<1> QED
  BY <1>1, <1>2 DEF Held, PutWin, GetWin

\* Where a thread relies on its windows alone.
Unbound == {"idle", "put_enter", "put_resync", "get_enter", "get_read", "get_reread", "get_count",
            "get_check", "get_tail", "get_resync", "get_return", "deq_cae"}

LEMMA UnboundInv ==
    ASSUME NEW r \in Local, r.pc \in Unbound,
           Held(r.pw, lateral.tail), Held(r.gw, lateral.head + 1)
    PROVE  ThreadInv(r)
  BY DEF Unbound, ThreadInv, RoundInv, EnqueueInv, DequeueInv, Scanning, Shifting,
     HoldsTail, Checked

LEMMA UnboundStep ==
    ASSUME SizesOK, Inv, NoWrap, UNCHANGED <<lateral, shared>>, NEW t \in Threads,
           NEW r \in Local, th' = [th EXCEPT ![t] = r], r.pc \in Unbound,
           r.pw \in {th[t].pw, PutWin}, r.gw \in {th[t].gw, GetWin}
    PROVE  Inv'
<1>1. Held(th[t].pw, lateral.tail) /\ Held(th[t].gw, lateral.head + 1)
  BY DEF Inv, ThreadInv
<1>2. Held(PutWin, lateral.tail) /\ Held(GetWin, lateral.head + 1)
  BY WindowsHeld DEF Inv, SharedInv
<1>3. Held(r.pw, lateral.tail) /\ Held(r.gw, lateral.head + 1)
  BY <1>1, <1>2
<1> QED
  BY <1>3, UnboundInv, LocalStep

\* A thread at the start of a round of put_window.
LEMMA NewRound ==
    ASSUME SizesOK, Inv, NoWrap, UNCHANGED <<lateral, shared>>, NEW t \in Threads,
           NEW r \in Local, th' = [th EXCEPT ![t] = r], r.pc = "put_read",
           r.pw = PutWin, r.gw = th[t].gw, r.hops = 0, r.pi \in 0 .. PutWin.width - 1
    PROVE  Inv'
<1>1. Held(r.pw, lateral.tail) /\ Held(r.gw, lateral.head + 1)
  BY WindowsHeld DEF Inv, SharedInv, ThreadInv
<1>2. r.pw.width \in Nat \ {0} /\ r.pi \in Nat
  BY WindowIndices, LocalNumbers
<1>3. RoundInv(r)
  BY <1>2, VisitedRound DEF RoundInv, Scanning, Shifting
<1>4. EnqueueInv(r) /\ DequeueInv(r)
  BY DEF EnqueueInv, DequeueInv, HoldsTail, Checked
<1>5. ThreadInv(r)
  BY <1>1, <1>3, <1>4 DEF ThreadInv
<1> QED
  BY <1>5, LocalStep

LEMMA PutEnterInv ==
    ASSUME SizesOK, Inv, NoWrap, NEW t \in Threads, PutEnter(t)
    PROVE  Inv'
<1>1. LaWTypeOK /\ LateralInv /\ th[t] \in Local
  BY DEF Inv, SharedInv, LaWTypeOK
<1>2. PICK i \in 0 .. PutWin.width - 1 :
         th' = [th EXCEPT ![t].pc = "put_read", ![t].pw = PutWin, ![t].pi = i,
                          ![t].hops = 0, ![t].random = 0]
  BY DEF PutEnter
<1> DEFINE r == [th[t] EXCEPT !.pc = "put_read", !.pw = PutWin, !.pi = i,
                              !.hops = 0, !.random = 0]
<1>3. PutWin \in Window /\ i \in Index
  BY <1>1, LateralWindows, WindowIndices DEF Window
<1>4. r \in Local /\ th' = [th EXCEPT ![t] = r]
  BY <1>1, <1>2, <1>3 DEF LaWTypeOK, Local, PutPCs
<1>5. r.pc = "put_read" /\ r.pw = PutWin /\ r.gw = th[t].gw /\ r.hops = 0 /\ r.pi = i
  BY <1>1 DEF Local
<1> HIDE DEF r
<1> QED
  BY <1>4, <1>5, NewRound DEF PutEnter

\* put_window takes over the put window.
LEMMA AdoptTailInv ==
    ASSUME SizesOK, Inv, NoWrap, NEW t \in Threads, AdoptTail(t), UNCHANGED <<lateral, shared>>
    PROVE  Inv'
<1>1. LaWTypeOK /\ LateralInv /\ th[t] \in Local
  BY DEF Inv, SharedInv, LaWTypeOK
<1> DEFINE i == Clamp(th[t].pi, PutWin)
           r == [th[t] EXCEPT !.pc = "put_read", !.pw = PutWin, !.hops = 0, !.pi = i]
<1>2. /\ PutWin \in Window /\ th[t].pi \in Nat /\ PutWin.width \in Nat \ {0}
      /\ 0 .. PutWin.width - 1 \subseteq Index
  <2>1. PutWin \in Window /\ PutWin.width \in Widths /\ th[t].pi \in Index
    BY <1>1, LateralWindows, LocalNumbers DEF Window
  <2> QED
    BY <2>1, WindowIndices
<1>3. i \in 0 .. PutWin.width - 1 /\ i \in Index
  BY <1>2 DEF Clamp
<1>4. r \in Local /\ th' = [th EXCEPT ![t] = r]
  <2> HIDE DEF i
  <2>1. r \in Local
    BY <1>1, <1>2, <1>3 DEF Local, PutPCs
  <2>2. th' = [th EXCEPT ![t] = r]
    BY <1>1 DEF LaWTypeOK, Local, AdoptTail, i
  <2> QED
    BY <2>1, <2>2
<1>5. r.pc = "put_read" /\ r.pw = PutWin /\ r.gw = th[t].gw /\ r.hops = 0 /\ r.pi = i
  BY <1>1 DEF Local
<1> HIDE DEF r, i
<1> QED
  BY <1>3, <1>4, <1>5, NewRound

\* put_window returns: the descriptor is below the window.
LEMMA PutReturnInv ==
    ASSUME SizesOK, Inv, NoWrap, NEW t \in Threads, At(t, "put_check"), PutReturn(t),
           th[t].des.count < th[t].pw.max, UNCHANGED <<lateral, shared>>
    PROVE  Inv'
<1>1. LaWTypeOK /\ th[t] \in Local /\ ThreadInv(th[t])
  BY DEF Inv, LaWTypeOK
<1> DEFINE g == IF SharedWidth(th[t]) THEN th[t].pi ELSE th[t].gi
           r == [th[t] EXCEPT !.pc = "put_return", !.gi = g]
<1>2. g \in Index
  BY <1>1, LocalNumbers
<1>3. r \in Local /\ th' = [th EXCEPT ![t] = r]
  BY <1>1, <1>2 DEF LaWTypeOK, Local, PutPCs, PutReturn
<1>4. /\ r.pc = "put_return" /\ r.pw = th[t].pw /\ r.gw = th[t].gw /\ r.pi = th[t].pi
      /\ r.des = th[t].des
  BY <1>1 DEF Local
<1> HIDE DEF r, g
<1>5. ThreadInv(r)
  BY <1>1, <1>4 DEF At, ThreadInv, RoundInv, EnqueueInv, DequeueInv, Scanning, Shifting,
     HoldsTail, Checked
<1> QED
  BY <1>3, <1>5, LocalStep

\* One more hop: the index left behind is full.
LEMMA PutHopInv ==
    ASSUME SizesOK, Inv, NoWrap, NEW t \in Threads, At(t, "put_check"), PutHop(t),
           th[t].des.count >= th[t].pw.max, th[t].hops < th[t].pw.width,
           UNCHANGED <<lateral, shared>>
    PROVE  Inv'
<1>1. LaWTypeOK /\ th[t] \in Local /\ ThreadInv(th[t])
  BY DEF Inv, LaWTypeOK
<1>2. PICK h \in Hop(th[t], th[t].pi, th[t].pw) :
         th' = [th EXCEPT ![t].pc = "put_read", ![t].random = h.random,
                          ![t].hops = h.hops, ![t].pi = h.index]
  BY DEF PutHop
<1> DEFINE me == th[t]
           w == th[t].pw.width
           r == [th[t] EXCEPT !.pc = "put_read", !.random = h.random, !.hops = h.hops,
                              !.pi = h.index]
<1>3. /\ w \in Nat \ {0} /\ w < UINT16 /\ 0 .. w - 1 \subseteq Index
      /\ me.pi \in Nat /\ me.hops \in Nat /\ me.random \in Nat
      /\ me.pw.max \in Nat /\ me.des.count \in Nat
      /\ me.pi \in Index
  BY <1>1, LocalNumbers, WindowIndices
<1>4. /\ me.pi < w /\ me.hops <= w
      /\ me.hops > 0 => ~(me.random < RandomHops)
      /\ \A j \in Visited(me.pi, me.hops, w) : put_array[j].count >= me.pw.max
      /\ Old(me.des, me.pi)
  BY <1>1 DEF At, ThreadInv, RoundInv, EnqueueInv, Scanning, HoldsTail
<1>5. /\ h.random \in Nat /\ h.hops \in 0 .. w /\ h.index \in 0 .. w - 1
      /\ h.hops > 0 => ~(h.random < RandomHops)
      /\ \A j \in Visited(h.index, h.hops, w) : put_array[j].count >= me.pw.max
  <2>1. CASE me.random < RandomHops
    <3>1. PICK i \in 0 .. w - 1 : h = [random |-> me.random + 1, hops |-> me.hops, index |-> i]
      BY <2>1 DEF Hop
    <3>2. h.random = me.random + 1 /\ h.hops = 0 /\ h.index = i
      BY <3>1, <2>1, <1>3, <1>4
    <3> QED
      BY <3>2, <1>3, VisitedRound
  <2>2. CASE ~(me.random < RandomHops)
    <3>1. h = [random |-> me.random, hops |-> (me.hops + 1) % UINT16,
               index |-> Clamp(me.pi + 1, me.pw)]
      BY <2>2 DEF Hop
    <3>2. /\ h.random = me.random /\ h.hops = me.hops + 1
          /\ h.index = IF me.pi + 1 >= w THEN 0 ELSE me.pi + 1
      BY <3>1, <1>3 DEF Clamp, UINT16
    <3>3. h.hops \in 0 .. w /\ h.index \in 0 .. w - 1
      BY <3>2, <1>3
    <3>4. put_array[me.pi].count >= me.pw.max
      <4>1. put_array[me.pi].count \in Nat
        BY <1>1, <1>3 DEF LaWTypeOK, Descriptor
      <4> QED
        BY <4>1, <1>3, <1>4 DEF Old
    <3>5. Visited(h.index, h.hops, w) \subseteq Visited(me.pi, me.hops, w) \cup {me.pi}
      <4>1. me.pi \in 0 .. w - 1 /\ me.hops \in 0 .. w /\ me.hops < w
        BY <1>3, <1>4
      <4>2. w \in Nat \ {0}
        BY <1>3
      <4>3. Visited(IF me.pi + 1 >= w THEN 0 ELSE me.pi + 1, me.hops + 1, w)
               \subseteq Visited(me.pi, me.hops, w) \cup {me.pi}
        BY <4>1, <4>2, VisitedRound
      <4> QED
        BY <4>3, <3>2
    <3> QED
      BY <3>2, <3>3, <3>4, <3>5, <2>2, <1>3, <1>4
  <2> QED
    BY <2>1, <2>2
<1>6. r \in Local /\ th' = [th EXCEPT ![t] = r]
  <2>1. h.random \in Nat /\ h.hops \in Nat /\ h.index \in Index
    BY <1>3, <1>5
  <2>2. r \in Local
    BY <1>1, <2>1 DEF Local, PutPCs
  <2> QED
    BY <1>1, <1>2, <2>2 DEF LaWTypeOK, Local
<1>7. /\ r.pc = "put_read" /\ r.pw = me.pw /\ r.gw = me.gw /\ r.pi = h.index
      /\ r.hops = h.hops /\ r.random = h.random
  BY <1>1 DEF Local
<1> HIDE DEF r
<1>8. RoundInv(r)
  BY <1>3, <1>5, <1>7 DEF RoundInv, Scanning, Shifting
<1>9. ThreadInv(r)
  BY <1>1, <1>7, <1>8 DEF ThreadInv, EnqueueInv, DequeueInv, HoldsTail, Checked
<1> QED
  BY <1>6, <1>9, LocalStep

\* A whole round of full sub-queues.
LEMMA PutExhaustedInv ==
    ASSUME SizesOK, Inv, NoWrap, NEW t \in Threads, At(t, "put_check"),
           th[t].des.count >= th[t].pw.max, th[t].hops >= th[t].pw.width,
           th' = [th EXCEPT ![t].pc = "put_shift"], UNCHANGED <<lateral, shared>>
    PROVE  Inv'
<1>1. LaWTypeOK /\ th[t] \in Local /\ ThreadInv(th[t])
  BY DEF Inv, LaWTypeOK
<1> DEFINE me == th[t]
           r == [th[t] EXCEPT !.pc = "put_shift"]
<1>2. /\ me.pw.width \in Nat \ {0} /\ me.hops \in Nat /\ me.pi \in Nat
  BY <1>1, LocalNumbers, WindowIndices
<1>3. /\ me.pi < me.pw.width /\ me.hops <= me.pw.width
      /\ \A j \in Visited(me.pi, me.hops, me.pw.width) : put_array[j].count >= me.pw.max
  BY <1>1 DEF At, ThreadInv, RoundInv, Scanning
<1>4. me.hops = me.pw.width /\ me.pi \in 0 .. me.pw.width - 1
  BY <1>2, <1>3
<1>5. Visited(me.pi, me.hops, me.pw.width) = 0 .. me.pw.width - 1
  BY <1>2, <1>4, VisitedRound
<1>6. \A j \in 0 .. me.pw.width - 1 : put_array[j].count >= me.pw.max
  BY <1>3, <1>5
<1>7. r \in Local /\ th' = [th EXCEPT ![t] = r]
  BY <1>1 DEF LaWTypeOK, Local, PutPCs
<1>8. r.pc = "put_shift" /\ r.pw = me.pw /\ r.gw = me.gw
  BY <1>1 DEF Local
<1> HIDE DEF r
<1>9. ThreadInv(r)
  BY <1>1, <1>6, <1>8 DEF ThreadInv, RoundInv, EnqueueInv, DequeueInv, Scanning, Shifting,
     HoldsTail, Checked
<1> QED
  BY <1>7, <1>9, LocalStep

LEMMA PutCheckInv ==
    ASSUME SizesOK, Inv, NoWrap, NEW t \in Threads, PutCheck(t)
    PROVE  Inv'
<1>1. At(t, "put_check") /\ UNCHANGED <<lateral, shared>>
  BY DEF PutCheck
<1>2. \/ AdoptTail(t)
      \/ th[t].des.count < th[t].pw.max /\ PutReturn(t)
      \/ /\ th[t].des.count >= th[t].pw.max /\ th[t].hops < th[t].pw.width
         /\ PutHop(t)
      \/ /\ th[t].des.count >= th[t].pw.max /\ th[t].hops >= th[t].pw.width
         /\ th' = [th EXCEPT ![t].pc = "put_shift"]
  BY DEF PutCheck
<1> QED
  BY <1>1, <1>2, AdoptTailInv, PutReturnInv, PutHopInv, PutExhaustedInv

-----------------------------------------------------------------------------
\* The two loads of a tail descriptor in put_window.
LEMMA PutReadInv ==
    ASSUME SizesOK, Inv, NoWrap, NEW t \in Threads, At(t, "put_read"),
           th' = [th EXCEPT ![t].pc = "put_reread", ![t].des = put_array[th[t].pi]],
           UNCHANGED <<lateral, shared>>
    PROVE  Inv'
<1>1. LaWTypeOK /\ th[t] \in Local /\ ThreadInv(th[t])
  BY DEF Inv, LaWTypeOK
<1> DEFINE d == put_array[th[t].pi]
           r == [th[t] EXCEPT !.pc = "put_reread", !.des = d]
<1>2. d \in Descriptor /\ d.node \in Nat /\ d.count \in Nat
  BY <1>1, LocalNumbers DEF LaWTypeOK, Descriptor
<1>3. r \in Local /\ th' = [th EXCEPT ![t] = r]
  <2> HIDE DEF d
  <2>1. r \in Local
    BY <1>1, <1>2 DEF Local, PutPCs
  <2>2. th' = [th EXCEPT ![t] = r]
    BY <1>1 DEF LaWTypeOK, Local, d
  <2> QED
    BY <2>1, <2>2
<1>4. /\ r.pc = "put_reread" /\ r.pw = th[t].pw /\ r.gw = th[t].gw /\ r.pi = th[t].pi
      /\ r.hops = th[t].hops /\ r.random = th[t].random /\ r.des = d
  BY <1>1 DEF Local
<1> HIDE DEF r
<1>5. RoundInv(r)
  BY <1>1, <1>4 DEF At, ThreadInv, RoundInv, Scanning, Shifting
<1>6. EnqueueInv(r)
  BY <1>2, <1>4 DEF EnqueueInv, HoldsTail, Checked, Old
<1>7. ThreadInv(r)
  BY <1>1, <1>4, <1>5, <1>6 DEF ThreadInv, DequeueInv
<1> QED
  BY <1>3, <1>7, LocalStep

\* Whatever the second load brings, each word is not ahead of the array.
LEMMA SecondLoadOld ==
    ASSUME NEW old \in Descriptor, NEW new \in Descriptor, NEW d \in SecondLoad(old, new),
           old.node <= new.node, old.count <= new.count
    PROVE  /\ d \in Descriptor /\ d.node \in Nat /\ d.count \in Nat
           /\ d.node <= new.node /\ d.count <= new.count
  BY DEF SecondLoad, Descriptor

LEMMA PutRereadInv ==
    ASSUME SizesOK, Inv, NoWrap, NEW t \in Threads, At(t, "put_reread"),
           NEW d \in SecondLoad(th[t].des, put_array[th[t].pi]),
           th' = [th EXCEPT ![t].pc = "put_check", ![t].des = d],
           UNCHANGED <<lateral, shared>>
    PROVE  Inv'
<1>1. LaWTypeOK /\ th[t] \in Local /\ ThreadInv(th[t])
  BY DEF Inv, LaWTypeOK
<1> DEFINE r == [th[t] EXCEPT !.pc = "put_check", !.des = d]
<1>2. Old(th[t].des, th[t].pi) /\ put_array[th[t].pi] \in Descriptor /\ th[t].des \in Descriptor
  BY <1>1, LocalNumbers DEF At, ThreadInv, EnqueueInv, HoldsTail, LaWTypeOK
<1>3. d \in Descriptor /\ Old(d, th[t].pi)
  BY <1>2, SecondLoadOld DEF Old
<1>4. r \in Local /\ th' = [th EXCEPT ![t] = r]
  BY <1>1, <1>3 DEF LaWTypeOK, Local, PutPCs
<1>5. /\ r.pc = "put_check" /\ r.pw = th[t].pw /\ r.gw = th[t].gw /\ r.pi = th[t].pi
      /\ r.hops = th[t].hops /\ r.random = th[t].random /\ r.des = d
  BY <1>1 DEF Local
<1> HIDE DEF r
<1>6. RoundInv(r)
  BY <1>1, <1>5 DEF At, ThreadInv, RoundInv, Scanning, Shifting
<1>7. EnqueueInv(r)
  BY <1>3, <1>5 DEF EnqueueInv, HoldsTail, Checked
<1>8. ThreadInv(r)
  BY <1>1, <1>5, <1>6, <1>7 DEF ThreadInv, DequeueInv
<1> QED
  BY <1>4, <1>8, LocalStep

\* The two loads of a head descriptor in get_window.
LEMMA GetReadInv ==
    ASSUME SizesOK, Inv, NoWrap, NEW t \in Threads, NEW d \in Descriptor,
           NEW pc \in {"get_reread", "get_count"},
           th' = [th EXCEPT ![t].pc = pc, ![t].des = d], UNCHANGED <<lateral, shared>>
    PROVE  Inv'
<1>1. LaWTypeOK /\ th[t] \in Local
  BY DEF Inv, LaWTypeOK
<1> DEFINE r == [th[t] EXCEPT !.pc = pc, !.des = d]
<1>2. r \in Local /\ th' = [th EXCEPT ![t] = r]
  BY <1>1 DEF LaWTypeOK, Local, GetPCs
<1>3. r.pc \in Unbound /\ r.pw = th[t].pw /\ r.gw = th[t].gw
  BY <1>1 DEF Local, Unbound
<1> HIDE DEF r
<1> QED
  BY <1>2, <1>3, UnboundStep

LEMMA ReadDescriptorsInv ==
    ASSUME SizesOK, Inv, NoWrap, NEW t \in Threads, ReadDescriptors(t), UNCHANGED lateral
    PROVE  Inv'
<1>1. LaWTypeOK /\ th[t] \in Local /\ UNCHANGED <<lateral, shared>>
  BY DEF Inv, LaWTypeOK, ReadDescriptors
<1>2. get_array[th[t].gi] \in Descriptor /\ th[t].des \in Descriptor
  BY <1>1, LocalNumbers DEF LaWTypeOK
<1>3. CASE At(t, "put_read")
          /\ th' = [th EXCEPT ![t].pc = "put_reread", ![t].des = put_array[th[t].pi]]
  BY <1>1, <1>3, PutReadInv
<1>4. CASE At(t, "put_reread")
          /\ \E d \in SecondLoad(th[t].des, put_array[th[t].pi]) :
                th' = [th EXCEPT ![t].pc = "put_check", ![t].des = d]
  BY <1>1, <1>4, PutRereadInv
<1>5. CASE At(t, "get_read")
          /\ th' = [th EXCEPT ![t].pc = "get_reread", ![t].des = get_array[th[t].gi]]
  BY <1>1, <1>2, <1>5, GetReadInv
<1>6. CASE At(t, "get_reread")
          /\ \E d \in SecondLoad(th[t].des, get_array[th[t].gi]) :
                th' = [th EXCEPT ![t].pc = "get_count", ![t].des = d]
  <2>1. PICK d \in SecondLoad(th[t].des, get_array[th[t].gi]) :
           th' = [th EXCEPT ![t].pc = "get_count", ![t].des = d]
    BY <1>6
  <2>2. d \in Descriptor
    BY <1>2 DEF SecondLoad, Descriptor
  <2> QED
    BY <1>1, <2>1, <2>2, GetReadInv
<1> QED
  BY <1>3, <1>4, <1>5, <1>6 DEF ReadDescriptors

-----------------------------------------------------------------------------
\* The calls, and the double check of enqueue.
LEMMA CallsInv ==
    ASSUME SizesOK, Inv, NoWrap, NEW t \in Threads,
           (EnqueueCall(t) /\ UNCHANGED lateral) \/ DequeueCall(t)
    PROVE  Inv'
<1>1. LaWTypeOK /\ th[t] \in Local /\ UNCHANGED <<lateral, shared>>
  BY DEF Inv, LaWTypeOK, EnqueueCall, DequeueCall
<1>2. PutWin \in Window
  BY LateralWindows DEF Inv, SharedInv
<1>3. CASE EnqueueCall(t)
  <2> DEFINE n == th[t].ops + 1
             r == [th[t] EXCEPT !.pc = "put_enter", !.ops = n]
  <2>1. r \in Local /\ th' = [th EXCEPT ![t] = r]
    <3>1. n \in Nat
      BY <1>1, LocalNumbers
    <3>2. th' = [th EXCEPT ![t] = r]
      BY <1>1, <1>3 DEF EnqueueCall, LaWTypeOK, Local
    <3> HIDE DEF n
    <3>3. r \in Local
      BY <1>1, <3>1 DEF Local, PutPCs
    <3> QED
      BY <3>2, <3>3
  <2>2. r.pc \in Unbound /\ r.pw = th[t].pw /\ r.gw = th[t].gw
    BY <1>1 DEF Local, Unbound
  <2> HIDE DEF r
  <2> QED
    BY <1>1, <2>1, <2>2, UnboundStep
<1>4. CASE DequeueCall(t)
  <2> DEFINE r == [th[t] EXCEPT !.pc = "get_enter", !.ops = @ + 1, !.pw = PutWin]
  <2>1. r \in Local /\ th' = [th EXCEPT ![t] = r]
    BY <1>1, <1>2, <1>4 DEF DequeueCall, LaWTypeOK, Local, GetPCs
  <2>2. r.pc \in Unbound /\ r.pw = PutWin /\ r.gw = th[t].gw
    BY <1>1 DEF Local, Unbound
  <2> HIDE DEF r
  <2> QED
    BY <1>1, <2>1, <2>2, UnboundStep
<1> QED
  BY <1>3, <1>4

LEMMA EnqRecheckInv ==
    ASSUME SizesOK, Inv, NoWrap, NEW t \in Threads, EnqRecheck(t), UNCHANGED lateral
    PROVE  Inv'
<1>1. /\ LaWTypeOK /\ th[t] \in Local /\ ThreadInv(th[t]) /\ UNCHANGED <<lateral, shared>>
  BY DEF Inv, LaWTypeOK, EnqRecheck
<1> DEFINE full == put_array[th[t].pi].count >= th[t].pw.max
           r == [th[t] EXCEPT !.pc = IF full THEN "put_enter" ELSE "enq_next"]
<1>2. r \in Local /\ th' = [th EXCEPT ![t] = r]
  BY <1>1 DEF EnqRecheck, LaWTypeOK, Local, PutPCs
<1>3. /\ r.pc = IF full THEN "put_enter" ELSE "enq_next"
      /\ r.pw = th[t].pw /\ r.gw = th[t].gw /\ r.pi = th[t].pi /\ r.des = th[t].des
  BY <1>1 DEF Local
<1>4. put_array[th[t].pi].count \in Nat /\ th[t].pw.max \in Nat
  BY <1>1, LocalNumbers DEF LaWTypeOK, Descriptor
<1> HIDE DEF r
<1>5. ThreadInv(r)
  <2>1. At(t, "put_return")
    BY DEF EnqRecheck
  <2>2. Held(r.pw, lateral.tail) /\ Held(r.gw, lateral.head + 1)
    BY <1>1, <1>3 DEF ThreadInv
  <2>3. RoundInv(r) /\ DequeueInv(r)
    BY <1>3 DEF RoundInv, DequeueInv, Scanning, Shifting
  <2>4. EnqueueInv(r)
    BY <1>1, <1>3, <1>4, <2>1 DEF At, ThreadInv, EnqueueInv, HoldsTail, Checked
  <2> QED
    BY <2>2, <2>3, <2>4 DEF ThreadInv
<1> QED
  BY <1>1, <1>2, <1>5, LocalStep

-----------------------------------------------------------------------------
\* get_window takes over the get window.
LEMMA AdoptHeadInv ==
    ASSUME SizesOK, Inv, NoWrap, NEW t \in Threads, NEW hops \in Nat, AdoptHead(t, hops),
           UNCHANGED <<lateral, shared>>
    PROVE  Inv'
<1>1. LaWTypeOK /\ LateralInv /\ th[t] \in Local
  BY DEF Inv, SharedInv, LaWTypeOK
<1> DEFINE i == Clamp(th[t].gi, GetWin)
           r == [th[t] EXCEPT !.pc = "get_read", !.gw = GetWin, !.gi = i, !.hops = hops]
<1>2. GetWin \in Window /\ i \in Index
  <2>1. GetWin \in Window /\ GetWin.width \in Widths /\ th[t].gi \in Index
    BY <1>1, LateralWindows, LocalNumbers DEF Window
  <2> QED
    BY <2>1, WindowIndices DEF Clamp
<1>3. r \in Local /\ th' = [th EXCEPT ![t] = r]
  <2> HIDE DEF i
  <2>1. r \in Local
    BY <1>1, <1>2 DEF Local, GetPCs
  <2>2. th' = [th EXCEPT ![t] = r]
    BY <1>1 DEF LaWTypeOK, Local, AdoptHead, i
  <2> QED
    BY <2>1, <2>2
<1>4. r.pc \in Unbound /\ r.pw = th[t].pw /\ r.gw = GetWin
  BY <1>1 DEF Local, Unbound
<1> HIDE DEF r, i
<1> QED
  BY <1>3, <1>4, UnboundStep

LEMMA GetEnterInv ==
    ASSUME SizesOK, Inv, NoWrap, NEW t \in Threads, GetEnter(t)
    PROVE  Inv'
<1>1. LaWTypeOK /\ LateralInv /\ th[t] \in Local /\ UNCHANGED <<lateral, shared>>
  BY DEF Inv, SharedInv, LaWTypeOK, GetEnter
<1> DEFINE moved == lateral.head + 1 # th[t].gw.id /\ HeadHasNode
<1>2. PICK i \in 0 .. th[t].gw.width - 1 :
         th' = [th EXCEPT ![t].pc = "get_read", ![t].hops = 0, ![t].random = 0,
                          ![t].gi = IF moved THEN Clamp(i, GetWin) ELSE i,
                          ![t].gw = IF moved THEN GetWin ELSE @]
  BY DEF GetEnter
<1> HIDE DEF moved
<1> DEFINE g == IF moved THEN Clamp(i, GetWin) ELSE i
           w == IF moved THEN GetWin ELSE th[t].gw
           r == [th[t] EXCEPT !.pc = "get_read", !.hops = 0, !.random = 0, !.gi = g, !.gw = w]
<1>3. g \in Index /\ w \in Window
  <2>1. /\ GetWin \in Window /\ GetWin.width \in Widths
        /\ th[t].gw \in Window /\ th[t].gw.width \in Widths
    BY <1>1, LateralWindows, LocalNumbers DEF Window
  <2> QED
    BY <2>1, WindowIndices DEF Clamp
<1>4. r \in Local /\ th' = [th EXCEPT ![t] = r]
  <2> HIDE DEF g, w
  <2>1. r \in Local
    BY <1>1, <1>3 DEF Local, GetPCs
  <2>2. th' = [th EXCEPT ![t] = r]
    BY <1>1, <1>2 DEF LaWTypeOK, Local, g, w
  <2> QED
    BY <2>1, <2>2
<1>5. r.pc \in Unbound /\ r.pw = th[t].pw /\ r.gw \in {th[t].gw, GetWin}
  BY <1>1 DEF Local, Unbound
<1> HIDE DEF r, g, w
<1> QED
  BY <1>1, <1>4, <1>5, UnboundStep

LEMMA GetCountInv ==
    ASSUME SizesOK, Inv, NoWrap, NEW t \in Threads, GetCount(t)
    PROVE  Inv'
<1>1. LaWTypeOK /\ th[t] \in Local /\ UNCHANGED <<lateral, shared>>
  BY DEF Inv, LaWTypeOK, GetCount
<1> DEFINE c == IF PutAbove(t) THEN Bottom(th[t].pw) ELSE put_array[th[t].gi].count
           r == [th[t] EXCEPT !.pc = "get_check", !.count = c]
<1>2. c \in Nat
  BY <1>1, LocalNumbers, BottomNat DEF LaWTypeOK, Descriptor
<1>3. r \in Local /\ th' = [th EXCEPT ![t] = r]
  <2> HIDE DEF c
  <2>1. r \in Local
    BY <1>1, <1>2 DEF Local, GetPCs
  <2>2. th' = [th EXCEPT ![t] = r]
    BY <1>1 DEF GetCount, LaWTypeOK, Local, c
  <2> QED
    BY <2>1, <2>2
<1>4. r.pc \in Unbound /\ r.pw = th[t].pw /\ r.gw = th[t].gw
  BY <1>1 DEF Local, Unbound
<1> HIDE DEF r, c
<1> QED
  BY <1>1, <1>3, <1>4, UnboundStep

\* get_window returns, with what it found or without.
LEMMA GetReturnInv ==
    ASSUME SizesOK, Inv, NoWrap, NEW t \in Threads, GetReturn(t), UNCHANGED <<lateral, shared>>
    PROVE  Inv'
<1>1. LaWTypeOK /\ th[t] \in Local
  BY DEF Inv, LaWTypeOK
<1> DEFINE p == IF SharedWidth(th[t]) THEN th[t].gi ELSE th[t].pi
           r == [th[t] EXCEPT !.pc = "get_return", !.pi = p]
<1>2. p \in Index
  BY <1>1, LocalNumbers
<1>3. r \in Local /\ th' = [th EXCEPT ![t] = r]
  BY <1>1, <1>2 DEF LaWTypeOK, Local, GetPCs, GetReturn
<1>4. r.pc \in Unbound /\ r.pw = th[t].pw /\ r.gw = th[t].gw
  BY <1>1 DEF Local, Unbound
<1> HIDE DEF r, p
<1> QED
  BY <1>3, <1>4, UnboundStep

LEMMA GetHopInv ==
    ASSUME SizesOK, Inv, NoWrap, NEW t \in Threads, GetHop(t, 0), UNCHANGED <<lateral, shared>>
    PROVE  Inv'
<1>1. LaWTypeOK /\ th[t] \in Local
  BY DEF Inv, LaWTypeOK
<1>2. PICK h \in Hop(th[t], th[t].gi, th[t].gw) :
         th' = [th EXCEPT ![t].pc = "get_read", ![t].random = h.random, ![t].hops = h.hops,
                          ![t].gi = h.index, ![t].notempty = 0]
  BY DEF GetHop
<1> DEFINE r == [th[t] EXCEPT !.pc = "get_read", !.random = h.random, !.hops = h.hops,
                              !.gi = h.index, !.notempty = 0]
<1>3. /\ th[t].gw.width \in Nat \ {0} /\ 0 .. th[t].gw.width - 1 \subseteq Index
      /\ th[t].gi \in Nat /\ th[t].hops \in Nat /\ th[t].random \in Nat
  BY <1>1, LocalNumbers, WindowIndices
<1>4. h.random \in Nat /\ h.hops \in Nat /\ h.index \in 0 .. th[t].gw.width - 1
  BY <1>3 DEF Hop, Clamp, UINT16
<1>5. r \in Local /\ th' = [th EXCEPT ![t] = r]
  <2>1. h.random \in Nat /\ h.hops \in Nat /\ h.index \in Index
    BY <1>3, <1>4
  <2>2. r \in Local
    BY <1>1, <2>1 DEF Local, GetPCs
  <2> QED
    BY <1>1, <1>2, <2>2 DEF LaWTypeOK, Local
<1>6. r.pc \in Unbound /\ r.pw = th[t].pw /\ r.gw = th[t].gw
  BY <1>1 DEF Local, Unbound
<1> HIDE DEF r
<1> QED
  BY <1>5, <1>6, UnboundStep

\* A step that only goes on.
LEMMA GotoInv ==
    ASSUME SizesOK, Inv, NoWrap, NEW t \in Threads, NEW pc \in {"get_tail", "deq_cae"},
           th' = [th EXCEPT ![t].pc = pc], UNCHANGED <<lateral, shared>>
    PROVE  Inv'
<1>1. LaWTypeOK /\ th[t] \in Local
  BY DEF Inv, LaWTypeOK
<1> DEFINE r == [th[t] EXCEPT !.pc = pc]
<1>2. r \in Local /\ th' = [th EXCEPT ![t] = r]
  BY <1>1 DEF LaWTypeOK, Local, GetPCs
<1>3. r.pc \in Unbound /\ r.pw = th[t].pw /\ r.gw = th[t].gw
  BY <1>1 DEF Local, Unbound
<1> HIDE DEF r
<1> QED
  BY <1>2, <1>3, UnboundStep

LEMMA GetCheckInv ==
    ASSUME SizesOK, Inv, NoWrap, NEW t \in Threads, GetCheck(t)
    PROVE  Inv'
<1>1. th[t].hops \in Nat /\ UNCHANGED <<lateral, shared>>
  BY LocalNumbers DEF Inv, LaWTypeOK, GetCheck
<1>2. \/ GetReturn(t) \/ AdoptHead(t, th[t].hops) \/ GetHop(t, 0)
      \/ th' = [th EXCEPT ![t].pc = "get_tail"]
  BY DEF GetCheck
<1> QED
  BY <1>1, <1>2, GetReturnInv, AdoptHeadInv, GetHopInv, GotoInv

LEMMA GetTailInv ==
    ASSUME SizesOK, Inv, NoWrap, NEW t \in Threads, GetTail(t)
    PROVE  Inv'
<1>1. /\ LaWTypeOK /\ LateralInv /\ th[t] \in Local /\ ThreadInv(th[t])
      /\ UNCHANGED <<lateral, shared>>
  BY DEF Inv, SharedInv, LaWTypeOK, GetTail
<1>2. CASE GetReturn(t)
  BY <1>1, <1>2, GetReturnInv
<1>3. CASE th[t].gw.id # lateral.tail /\ th' = [th EXCEPT ![t].pc = "get_shift"]
  <2> DEFINE r == [th[t] EXCEPT !.pc = "get_shift"]
  <2>1. r \in Local /\ th' = [th EXCEPT ![t] = r]
    BY <1>1, <1>3 DEF LaWTypeOK, Local, GetPCs
  <2>2. r.pc = "get_shift" /\ r.pw = th[t].pw /\ r.gw = th[t].gw
    BY <1>1 DEF Local
  <2> HIDE DEF r
  <2>3. th[t].gw.id < lateral.tail
    <3>1. /\ lateral.head \in Nat /\ lateral.tail \in Nat /\ lateral.head < lateral.tail
          /\ th[t].gw.id \in 2 .. lateral.head + 1
      BY <1>1 DEF LaWTypeOK, LateralInv, LateralPointers, ThreadInv, Held
    <3> QED
      BY <3>1, <1>3
  <2>4. ThreadInv(r)
    BY <1>1, <2>2, <2>3 DEF ThreadInv, RoundInv, EnqueueInv, DequeueInv, Scanning, Shifting,
       HoldsTail, Checked
  <2> QED
    BY <1>1, <2>1, <2>4, LocalStep
<1> QED
  BY <1>2, <1>3 DEF GetTail

-----------------------------------------------------------------------------
\* The loads of the tail in dequeue.
LEMMA DeqReadTailInv ==
    ASSUME SizesOK, Inv, NoWrap, NEW t \in Threads, DeqReadTail(t, PutAbove(t)), UNCHANGED lateral
    PROVE  Inv'
<1>1. LaWTypeOK /\ th[t] \in Local /\ ThreadInv(th[t]) /\ UNCHANGED <<lateral, shared>>
  BY DEF Inv, LaWTypeOK, DeqReadTail
<1>2. CASE th' = [th EXCEPT ![t].pc = "deq_cae"]
  BY <1>1, <1>2, GotoInv
<1>3. CASE th' = [th EXCEPT ![t].pc = "deq_reread", ![t].enq = put_array[th[t].gi]]
  <2> DEFINE d == put_array[th[t].gi]
             r == [th[t] EXCEPT !.pc = "deq_reread", !.enq = d]
  <2>1. d \in Descriptor /\ d.node \in Nat /\ d.count \in Nat
    BY <1>1, LocalNumbers DEF LaWTypeOK, Descriptor
  <2>2. r \in Local /\ th' = [th EXCEPT ![t] = r]
    <3> HIDE DEF d
    <3>1. r \in Local
      BY <1>1, <2>1 DEF Local, GetPCs
    <3>2. th' = [th EXCEPT ![t] = r]
      BY <1>1, <1>3 DEF LaWTypeOK, Local, d
    <3> QED
      BY <3>1, <3>2
  <2>3. /\ r.pc = "deq_reread" /\ r.pw = th[t].pw /\ r.gw = th[t].gw /\ r.gi = th[t].gi
        /\ r.enq = d
    BY <1>1 DEF Local
  <2> HIDE DEF r
  <2>4. ThreadInv(r)
    BY <1>1, <2>1, <2>3 DEF ThreadInv, RoundInv, EnqueueInv, DequeueInv, Scanning, Shifting,
       HoldsTail, Checked, Old
  <2> QED
    BY <1>1, <2>2, <2>4, LocalStep
<1> QED
  BY <1>2, <1>3 DEF DeqReadTail

LEMMA DeqRereadTailInv ==
    ASSUME SizesOK, Inv, NoWrap, NEW t \in Threads, DeqRereadTail(t), UNCHANGED lateral
    PROVE  Inv'
<1>1. /\ LaWTypeOK /\ th[t] \in Local /\ ThreadInv(th[t]) /\ UNCHANGED <<lateral, shared>>
      /\ At(t, "deq_reread")
  BY DEF Inv, LaWTypeOK, DeqRereadTail
<1>2. PICK d \in SecondLoad(th[t].enq, put_array[th[t].gi]) :
         th' = [th EXCEPT ![t].enq = d,
                          ![t].pc = IF d.node = th[t].des.node THEN "deq_next" ELSE "deq_cae"]
  BY DEF DeqRereadTail
<1>3. d \in Descriptor /\ Old(d, th[t].gi)
  <2>1. /\ Old(th[t].enq, th[t].gi) /\ put_array[th[t].gi] \in Descriptor
        /\ th[t].enq \in Descriptor
    BY <1>1, LocalNumbers DEF At, ThreadInv, DequeueInv, LaWTypeOK
  <2> QED
    BY <2>1, SecondLoadOld DEF Old
<1> DEFINE same == d.node = th[t].des.node
           r == [th[t] EXCEPT !.enq = d, !.pc = IF same THEN "deq_next" ELSE "deq_cae"]
<1>4. r \in Local /\ th' = [th EXCEPT ![t] = r]
  BY <1>1, <1>2, <1>3 DEF LaWTypeOK, Local, GetPCs
<1>5. /\ r.pc = IF same THEN "deq_next" ELSE "deq_cae"
      /\ r.pw = th[t].pw /\ r.gw = th[t].gw /\ r.gi = th[t].gi /\ r.enq = d /\ r.des = th[t].des
  BY <1>1 DEF Local
<1> HIDE DEF r
<1>6. ThreadInv(r)
  BY <1>1, <1>3, <1>5 DEF ThreadInv, RoundInv, EnqueueInv, DequeueInv, Scanning, Shifting,
     HoldsTail, Checked
<1> QED
  BY <1>1, <1>4, <1>6, LocalStep

\* An operation returns.
LEMMA ReturnLocals ==
    ASSUME LaWTypeOK, NEW t \in Threads, Return(t)
    PROVE  \E r \in Local : /\ th' = [th EXCEPT ![t] = r] /\ r.pc = "idle"
                            /\ r.pw = th[t].pw /\ r.gw = th[t].gw
<1>1. th[t] \in Local
  BY DEF LaWTypeOK
<1> DEFINE r == Locals(th[t].pi, th[t].gi, th[t].pw, th[t].gw, th[t].ops)
<1>2. r \in Local /\ r.pc = "idle" /\ r.pw = th[t].pw /\ r.gw = th[t].gw
  BY <1>1 DEF Locals, Local, Dummy, Descriptor
<1>3. th' = [th EXCEPT ![t] = r]
  BY DEF Return
<1> QED
  BY <1>2, <1>3

LEMMA DeqNextInv ==
    ASSUME SizesOK, Inv, NoWrap, NEW t \in Threads, DeqNext(t, Bottom(PutWin)), UNCHANGED lateral
    PROVE  Inv'
<1>1. /\ LaWTypeOK /\ LateralInv /\ TailsInv /\ th[t] \in Local /\ ThreadInv(th[t])
      /\ UNCHANGED <<lateral, shared>> /\ At(t, "deq_next")
  BY DEF Inv, SharedInv, LaWTypeOK, DeqNext
<1>2. CASE Return(t)
  <2>1. PICK r \in Local : /\ th' = [th EXCEPT ![t] = r] /\ r.pc = "idle"
                           /\ r.pw = th[t].pw /\ r.gw = th[t].gw
    BY <1>1, <1>2, ReturnLocals
  <2> QED
    BY <1>1, <2>1, UnboundStep DEF Unbound
<1>3. CASE ~NextIsNull(th[t].gi, th[t].des.node)
           /\ th' = [th EXCEPT ![t].pc = "deq_help",
                               ![t].count = CountAbove(th[t].enq.count, Bottom(PutWin))]
  <2> DEFINE c == CountAbove(th[t].enq.count, Bottom(PutWin))
             r == [th[t] EXCEPT !.pc = "deq_help", !.count = c]
  <2>1. /\ Old(th[t].enq, th[t].gi) /\ th[t].enq.node = th[t].des.node
        /\ th[t].enq.node \in Nat /\ th[t].enq.count \in Nat /\ th[t].gi \in Index
    BY <1>1, LocalNumbers DEF At, ThreadInv, DequeueInv
  <2>2. /\ put_array[th[t].gi].count \in Nat /\ items[th[t].gi] \in Nat
        /\ put_array[th[t].gi].count <= PutWin.max
    BY <1>1, <2>1 DEF LaWTypeOK, Descriptor, TailsInv
  <2>3. /\ PutWin.max \in Nat /\ PutWin.max + 1 < UINT64
        /\ Bottom(PutWin) \in Nat /\ Bottom(PutWin) < PutWin.max
    <3>1. lateral.tail \in 2 .. Len(lateral.nodes) /\ lateral.tail \in 1 .. Len(lateral.nodes)
      BY <1>1 DEF LaWTypeOK, LateralInv, LateralPointers
    <3> QED
      BY <1>1, <3>1, LateralWindows DEF PutWin, Window, NoWrap
  <2>4. /\ c \in Nat /\ th[t].enq.count < c
        /\ c = th[t].enq.count + 1 \/ c <= PutWin.max
    <3>1. th[t].enq.count < UINT64 - 1
      BY <2>1, <2>2, <2>3 DEF Old, UINT64
    <3> QED
      BY <3>1, <2>1, <2>3, CountAboveRange
  <2>5. th[t].enq.node < items[th[t].gi]
    BY <1>3, <2>1, <2>2 DEF NextIsNull
  <2>6. r \in Local /\ th' = [th EXCEPT ![t] = r]
    <3> HIDE DEF c
    <3>1. r \in Local
      BY <1>1, <2>4 DEF Local, GetPCs
    <3>2. th' = [th EXCEPT ![t] = r]
      BY <1>1, <1>3 DEF LaWTypeOK, Local, c
    <3> QED
      BY <3>1, <3>2
  <2>7. /\ r.pc = "deq_help" /\ r.pw = th[t].pw /\ r.gw = th[t].gw /\ r.gi = th[t].gi
        /\ r.enq = th[t].enq /\ r.count = c
    BY <1>1 DEF Local
  <2> HIDE DEF r, c
  <2>8. ThreadInv(r)
    BY <1>1, <2>1, <2>4, <2>5, <2>7 DEF ThreadInv, RoundInv, EnqueueInv, DequeueInv, Scanning,
       Shifting, HoldsTail, Checked
  <2> QED
    BY <1>1, <2>6, <2>8, LocalStep
<1> QED
  BY <1>2, <1>3 DEF DeqNext

-----------------------------------------------------------------------------
\* A step of t that changes the shared state: the other threads keep what they
\* rely on.
LEMMA SharedStep ==
    ASSUME SizesOK, Inv, LaWTypeOK', SharedInv', LateralGrows, TailsGrow,
           NEW t \in Threads, NEW r \in Local, th' = [th EXCEPT ![t] = r], ThreadInv(r)'
    PROVE  Inv'
<1>1. /\ LaWTypeOK /\ LateralInv /\ LateralInv' /\ \A u \in Threads : ThreadInv(th[u])
  BY DEF Inv, SharedInv
<1>2. ASSUME NEW u \in Threads
      PROVE  ThreadInv(th[u])'
  <2>1. CASE u = t
    <3>1. th'[u] = r
      BY <1>1, <2>1 DEF LaWTypeOK
    <3> QED
      BY <3>1
  <2>2. CASE u # t
    <3>1. PICK me \in Local : me = th[u] /\ me = th'[u] /\ ThreadInv(me)
      BY <1>1, <2>2 DEF LaWTypeOK
    <3>2. ThreadInv(me)'
      BY <1>1, <3>1, LocalsKept
    <3> QED
      BY <3>1, <3>2
  <2> QED
    BY <2>1, <2>2
<1> QED
  BY <1>2 DEF Inv

\* The same when t goes where it relies on its windows alone.
LEMMA UnboundSharedStep ==
    ASSUME SizesOK, Inv, LaWTypeOK', SharedInv', LateralGrows, TailsGrow,
           NEW t \in Threads, NEW r \in Local, th' = [th EXCEPT ![t] = r],
           r.pc \in Unbound, r.pw = th[t].pw, r.gw = th[t].gw
    PROVE  Inv'
<1>1. LaWTypeOK /\ LateralInv /\ LateralInv' /\ ThreadInv(th[t])
  BY DEF Inv, SharedInv
<1>2. Held(r.pw, lateral.tail) /\ Held(r.gw, lateral.head + 1)
  BY <1>1 DEF ThreadInv
<1>3. ThreadInv(r)
  BY <1>2, UnboundInv
<1>4. ThreadInv(r)'
  BY <1>1, <1>3, LocalsKept
<1> QED
  BY <1>4, SharedStep

\* What a step that leaves the lateral and the nodes alone does not change.
LEMMA LateralAlone ==
    ASSUME LaWTypeOK, UNCHANGED lateral
    PROVE  /\ LateralGrows
           /\ LateralInv => LateralInv'
           /\ PutWin' = PutWin
  <1>1. lateral.head \in Nat /\ lateral.tail \in Nat /\ Len(lateral.nodes) \in Nat
    BY DEF LaWTypeOK
  <1> QED
    BY <1>1 DEF LateralGrows, LateralInv, LateralPointers, LateralStacked, PutWin

\* Tails that only grow leave the windows below as full as they were.
LEMMA StaysFull ==
    ASSUME SizesOK, LaWTypeOK, LaWTypeOK', LateralInv, FullBehind, UNCHANGED lateral, TailsGrow
    PROVE  FullBehind'
<1> SUFFICES ASSUME NEW n \in 2 .. lateral.tail - 1, NEW i \in 0 .. lateral.nodes[n].width - 1
             PROVE  put_array'[i].count >= lateral.nodes[n].max
  BY DEF FullBehind
<1>1. n \in 1 .. Len(lateral.nodes) /\ lateral.nodes \in Seq(Window)
  BY DEF LaWTypeOK, LateralInv, LateralPointers
<1>2. lateral.nodes[n] \in Window
  BY <1>1
<1>3. lateral.nodes[n].max \in Nat /\ lateral.nodes[n].width \in Widths
  BY <1>2 DEF Window
<1>4. i \in Index
  BY <1>3, WindowIndices
<1>5. put_array[i].count \in Nat /\ put_array'[i].count \in Nat
  BY <1>4 DEF LaWTypeOK, Descriptor
<1> QED
  BY <1>3, <1>4, <1>5 DEF FullBehind, TailsGrow

\* The CAE that makes the node behind the tail the tail.
LEMMA TailSwing ==
    ASSUME SizesOK, Inv, NoWrap, NEW t \in Threads, NEW r \in Local, th' = [th EXCEPT ![t] = r],
           r.pc \in Unbound, r.pw = th[t].pw, r.gw = th[t].gw,
           NEW i \in Index, NEW c \in Nat,
           put_array[i].node < items[i], put_array[i].count < c, c <= PutWin.max,
           put_array' = [put_array EXCEPT ![i] = [node |-> put_array[i].node + 1, count |-> c]],
           UNCHANGED <<lateral, get_array, items, set>>
    PROVE  Inv'
<1>1. LaWTypeOK /\ LateralInv /\ TailsInv /\ FullBehind
  BY DEF Inv, SharedInv
<1>2. /\ put_array \in [Index -> Descriptor] /\ items \in [Index -> Nat]
      /\ \A j \in Index : put_array[j].node \in Nat /\ put_array[j].count \in Nat
      /\ PutWin.max \in Nat
  BY <1>1, LateralWindows DEF LaWTypeOK, Descriptor, Window
<1> DEFINE d == [node |-> put_array[i].node + 1, count |-> c]
<1>3. d \in Descriptor /\ d.node = put_array[i].node + 1 /\ d.count = c
  BY <1>2 DEF Descriptor
<1>4. put_array' = [put_array EXCEPT ![i] = d]
  OBVIOUS
<1> HIDE DEF d
<1>5. /\ put_array' \in [Index -> Descriptor] /\ put_array'[i] = d
      /\ \A j \in Index : j # i => put_array'[j] = put_array[j]
  BY <1>2, <1>3, <1>4
<1>6. LaWTypeOK'
  BY <1>1, <1>5 DEF LaWTypeOK
<1>7. LateralGrows /\ LateralInv' /\ PutWin' = PutWin
  BY <1>1, LateralAlone
<1>8. TailsGrow
  BY <1>2, <1>3, <1>5 DEF TailsGrow
<1>9. TailsInv'
  <2> SUFFICES ASSUME NEW j \in Index
               PROVE  /\ put_array'[j].node <= items[j] /\ items[j] <= put_array'[j].node + 1
                      /\ put_array'[j].count <= PutWin.max
                      /\ put_array'[j].node < items[j] => put_array'[j].count < PutWin.max
    BY <1>7 DEF TailsInv
  <2>1. /\ put_array[j].node <= items[j] /\ items[j] <= put_array[j].node + 1
        /\ put_array[j].count <= PutWin.max
        /\ put_array[j].node < items[j] => put_array[j].count < PutWin.max
        /\ put_array[j].node \in Nat /\ items[j] \in Nat
    BY <1>1, <1>2 DEF TailsInv
  <2>2. CASE j = i
    BY <1>3, <1>5, <2>1, <2>2
  <2>3. CASE j # i
    BY <1>5, <2>1, <2>3
  <2> QED
    BY <2>2, <2>3
<1>10. FullBehind'
  BY <1>1, <1>6, <1>8, StaysFull
<1> QED
  BY <1>6, <1>7, <1>8, <1>9, <1>10, UnboundSharedStep DEF SharedInv

\* A failed CAE of a tail.
LEMMA TailKept ==
    ASSUME SizesOK, Inv, NoWrap, NEW t \in Threads, NEW r \in Local, th' = [th EXCEPT ![t] = r],
           r.pc \in Unbound, r.pw = th[t].pw, r.gw = th[t].gw,
           put_array' = put_array, UNCHANGED <<lateral, get_array, items, set>>
    PROVE  Inv'
<1>1. UNCHANGED <<lateral, shared>>
  BY DEF shared
<1> QED
  BY <1>1, UnboundStep

-----------------------------------------------------------------------------
\* The count that an enqueue in its window writes is not above the put window.
LEMMA NewCount ==
    ASSUME SizesOK, Inv, NoWrap, NEW t \in Threads, th[t].des.count < th[t].pw.max
    PROVE  /\ NewDescriptor(t).count \in Nat /\ th[t].des.count < NewDescriptor(t).count
           /\ NewDescriptor(t).count <= PutWin.max
           /\ NewDescriptor(t).node = th[t].des.node + 1
<1>1. LaWTypeOK /\ LateralInv /\ th[t] \in Local /\ ThreadInv(th[t])
  BY DEF Inv, SharedInv, LaWTypeOK
<1>2. /\ th[t].pw.id \in 2 .. lateral.tail /\ th[t].pw = lateral.nodes[th[t].pw.id]
      /\ lateral.tail \in Nat /\ lateral.tail <= Len(lateral.nodes) /\ Len(lateral.nodes) \in Nat
  BY <1>1, LateralWindows DEF ThreadInv, Held, LateralInv, LateralPointers
<1>3. /\ th[t].pw.id \in 2 .. Len(lateral.nodes) /\ th[t].pw.id \in 1 .. Len(lateral.nodes)
      /\ th[t].pw.id \in 1 .. lateral.tail
  BY <1>2
<1>4. /\ Bottom(th[t].pw) \in Nat /\ Bottom(th[t].pw) < th[t].pw.max
      /\ th[t].pw.max <= PutWin.max /\ PutWin.max \in Nat /\ th[t].pw.max + 1 < UINT64
  BY <1>1, <1>2, <1>3, LateralWindows DEF NoWrap, Window
<1>5. /\ th[t].des.count \in Nat /\ th[t].pw.max \in Nat
  BY <1>1, LocalNumbers
<1>6. th[t].des.count < UINT64 - 1
  BY <1>4, <1>5 DEF UINT64
<1> DEFINE c == CountAbove(th[t].des.count, Bottom(th[t].pw))
<1>7. c \in Nat /\ th[t].des.count < c /\ c <= th[t].pw.max
  BY <1>4, <1>5, <1>6, CountAboveRange
<1>8. NewDescriptor(t).count = c /\ NewDescriptor(t).node = th[t].des.node + 1
  BY DEF NewDescriptor
<1> HIDE DEF c
<1> QED
  BY <1>4, <1>5, <1>7, <1>8

\* The help of enqueue and its own last CAE.
LEMMA EnqueueSwings ==
    ASSUME SizesOK, Inv, NoWrap, NEW t \in Threads, NEW r \in Local, th' = [th EXCEPT ![t] = r],
           r.pc \in Unbound, r.pw = th[t].pw, r.gw = th[t].gw,
           th[t].pc \in Checked, th[t].des.node < items[th[t].pi],
           put_array' = CAE(put_array, th[t].pi, th[t].des, NewDescriptor(t)),
           UNCHANGED <<lateral, get_array, items, set>>
    PROVE  Inv'
<1>1. LaWTypeOK /\ th[t] \in Local /\ ThreadInv(th[t])
  BY DEF Inv, LaWTypeOK
<1>2. th[t].pi \in Index /\ th[t].des.count < th[t].pw.max
  BY <1>1, LocalNumbers DEF ThreadInv, EnqueueInv
<1>3. CASE put_array[th[t].pi] = th[t].des
  <2> DEFINE c == NewDescriptor(t).count
  <2>1. /\ c \in Nat /\ th[t].des.count < c /\ c <= PutWin.max
        /\ NewDescriptor(t) = [node |-> th[t].des.node + 1, count |-> c]
    BY <1>2, NewCount DEF NewDescriptor
  <2> HIDE DEF c
  <2>2. put_array' = [put_array EXCEPT ![th[t].pi] =
                         [node |-> put_array[th[t].pi].node + 1, count |-> c]]
    BY <1>3, <2>1 DEF CAE
  <2> QED
    BY <1>2, <1>3, <2>1, <2>2, TailSwing
<1>4. CASE put_array[th[t].pi] # th[t].des
  <2>1. put_array' = put_array
    BY <1>4 DEF CAE
  <2> QED
    BY <2>1, TailKept
<1> QED
  BY <1>3, <1>4

LEMMA EnqNextInv ==
    ASSUME SizesOK, Inv, NoWrap, NEW t \in Threads, EnqNext(t), UNCHANGED lateral
    PROVE  Inv'
<1>1. /\ LaWTypeOK /\ th[t] \in Local /\ ThreadInv(th[t]) /\ th[t].pc = "enq_next"
      /\ UNCHANGED <<lateral, get_array, items, set>>
  BY DEF Inv, LaWTypeOK, EnqNext, At
<1>2. CASE th' = [th EXCEPT ![t].pc = "enq_cae"] /\ UNCHANGED put_array
  <2> DEFINE r == [th[t] EXCEPT !.pc = "enq_cae"]
  <2>1. r \in Local /\ th' = [th EXCEPT ![t] = r]
    BY <1>1, <1>2 DEF LaWTypeOK, Local, PutPCs
  <2>2. /\ r.pc = "enq_cae" /\ r.pw = th[t].pw /\ r.gw = th[t].gw /\ r.pi = th[t].pi
        /\ r.des = th[t].des
    BY <1>1 DEF Local
  <2> HIDE DEF r
  <2>3. ThreadInv(r)
    BY <1>1, <2>2 DEF ThreadInv, RoundInv, EnqueueInv, DequeueInv, Scanning, Shifting,
       HoldsTail, Checked
  <2>4. UNCHANGED <<lateral, shared>>
    BY <1>1, <1>2 DEF shared
  <2> QED
    BY <2>1, <2>3, <2>4, LocalStep
<1>3. CASE /\ ~NextIsNull(th[t].pi, th[t].des.node)
           /\ put_array' = CAE(put_array, th[t].pi, th[t].des, NewDescriptor(t))
           /\ th' = [th EXCEPT ![t].pc = "put_enter", ![t].contention =
                                  IF put_array[th[t].pi] = th[t].des THEN @ ELSE 1]
  <2> DEFINE c == IF put_array[th[t].pi] = th[t].des THEN th[t].contention ELSE 1
             r == [th[t] EXCEPT !.pc = "put_enter", !.contention = c]
  <2>1. c \in {0, 1}
    BY <1>1 DEF Local
  <2>2. r \in Local /\ th' = [th EXCEPT ![t] = r]
    BY <1>1, <1>3, <2>1 DEF LaWTypeOK, Local, PutPCs
  <2>3. r.pc \in Unbound /\ r.pw = th[t].pw /\ r.gw = th[t].gw
    BY <1>1 DEF Local, Unbound
  <2> HIDE DEF r, c
  <2>4. th[t].des.node < items[th[t].pi]
    <3>1. th[t].des.node \in Nat /\ items[th[t].pi] \in Nat
      BY <1>1, LocalNumbers DEF LaWTypeOK
    <3> QED
      BY <1>3, <3>1 DEF NextIsNull
  <2>5. th[t].pc \in Checked
    BY <1>1 DEF Checked
  <2> QED
    BY <1>1, <1>3, <2>2, <2>3, <2>4, <2>5, EnqueueSwings
<1> QED
  BY <1>2, <1>3 DEF EnqNext

LEMMA EnqTailInv ==
    ASSUME SizesOK, Inv, NoWrap, NEW t \in Threads, EnqTail(t), UNCHANGED lateral
    PROVE  Inv'
<1>1. /\ LaWTypeOK /\ ThreadInv(th[t]) /\ th[t].pc = "enq_tail"
      /\ UNCHANGED <<lateral, get_array, items, set>> /\ Return(t)
      /\ put_array' = CAE(put_array, th[t].pi, th[t].des, NewDescriptor(t))
  BY DEF Inv, EnqTail, At
<1>2. PICK r \in Local : /\ th' = [th EXCEPT ![t] = r] /\ r.pc = "idle"
                         /\ r.pw = th[t].pw /\ r.gw = th[t].gw
  BY <1>1, ReturnLocals
<1>3. th[t].pc \in Checked /\ th[t].des.node < items[th[t].pi]
  BY <1>1 DEF Checked, ThreadInv, EnqueueInv
<1>4. r.pc \in Unbound
  BY <1>2 DEF Unbound
<1> QED
  BY <1>1, <1>2, <1>3, <1>4, EnqueueSwings

LEMMA DeqHelpInv ==
    ASSUME SizesOK, Inv, NoWrap, NEW t \in Threads, DeqHelp(t), UNCHANGED lateral
    PROVE  Inv'
<1>1. /\ LaWTypeOK /\ LateralInv /\ TailsInv /\ th[t] \in Local /\ ThreadInv(th[t])
      /\ th[t].pc = "deq_help" /\ UNCHANGED <<lateral, get_array, items, set>>
  BY DEF Inv, SharedInv, LaWTypeOK, DeqHelp, At
<1> DEFINE c == IF put_array[th[t].gi] = th[t].enq THEN th[t].contention ELSE 1
           r == [th[t] EXCEPT !.pc = "get_enter", !.enq = Dummy, !.contention = c]
<1>2. c \in {0, 1} /\ Dummy \in Descriptor
  BY <1>1 DEF Local, Dummy, Descriptor
<1>3. r \in Local /\ th' = [th EXCEPT ![t] = r]
  <2>1. th' = [th EXCEPT ![t] = r]
    BY <1>1 DEF DeqHelp, LaWTypeOK, Local
  <2> HIDE DEF c
  <2>2. r \in Local
    BY <1>1, <1>2 DEF Local, GetPCs
  <2> QED
    BY <2>1, <2>2
<1>4. r.pc \in Unbound /\ r.pw = th[t].pw /\ r.gw = th[t].gw
  BY <1>1 DEF Local, Unbound
<1> HIDE DEF r, c
<1>5. CASE put_array[th[t].gi] = th[t].enq
  <2>1. /\ th[t].gi \in Index /\ th[t].count \in Nat /\ th[t].enq.count \in Nat
        /\ PutWin.max \in Nat
    BY <1>1, LocalNumbers, LateralWindows DEF Window
  <2>2. /\ th[t].enq.node < items[th[t].gi] /\ th[t].enq.count < th[t].count
        /\ th[t].count = th[t].enq.count + 1 \/ th[t].count <= PutWin.max
    BY <1>1 DEF ThreadInv, DequeueInv
  <2>3. th[t].enq.count < PutWin.max
    BY <1>1, <1>5, <2>1, <2>2 DEF TailsInv
  <2>4. th[t].count <= PutWin.max
    BY <2>1, <2>2, <2>3
  <2>5. put_array' = [put_array EXCEPT ![th[t].gi] =
                         [node |-> put_array[th[t].gi].node + 1, count |-> th[t].count]]
    BY <1>5 DEF DeqHelp, CAE
  <2> QED
    BY <1>1, <1>3, <1>4, <1>5, <2>1, <2>2, <2>4, <2>5, TailSwing
<1>6. CASE put_array[th[t].gi] # th[t].enq
  <2>1. put_array' = put_array
    BY <1>6 DEF DeqHelp, CAE
  <2> QED
    BY <1>1, <1>3, <1>4, <2>1, TailKept
<1> QED
  BY <1>5, <1>6

\* enqueue links its node: the tail lags, below the top of the put window.
LEMMA EnqCaeInv ==
    ASSUME SizesOK, Inv, NoWrap, NEW t \in Threads, EnqCae(t), UNCHANGED lateral
    PROVE  Inv'
<1>1. /\ LaWTypeOK /\ LateralInv /\ TailsInv /\ FullBehind /\ th[t] \in Local
      /\ ThreadInv(th[t]) /\ th[t].pc = "enq_cae"
      /\ UNCHANGED <<lateral, put_array, get_array, set>>
  BY DEF Inv, SharedInv, LaWTypeOK, EnqCae, At
<1>2. CASE /\ NextIsNull(th[t].pi, th[t].des.node)
           /\ items' = [items EXCEPT ![th[t].pi] = @ + 1]
           /\ th' = [th EXCEPT ![t].pc = "enq_tail"]
  <2>1. PICK i \in Index : i = th[t].pi
    BY <1>1, LocalNumbers
  <2>2. PICK r \in Local :
           /\ th' = [th EXCEPT ![t] = r]
           /\ r.pc = "enq_tail" /\ r.pw = th[t].pw /\ r.gw = th[t].gw /\ r.pi = i
           /\ r.des = th[t].des
    <3>1. [th[t] EXCEPT !.pc = "enq_tail"] \in Local
      BY <1>1 DEF Local, PutPCs
    <3>2. th' = [th EXCEPT ![t] = [th[t] EXCEPT !.pc = "enq_tail"]]
      BY <1>2
    <3> QED
      BY <1>1, <2>1, <3>1, <3>2 DEF Local
  <2>3. /\ th[t].des.node \in Nat /\ th[t].pw.max \in Nat
        /\ items \in [Index -> Nat]
        /\ \A j \in Index : put_array[j].node \in Nat /\ put_array[j].count \in Nat
    BY <1>1, LocalNumbers DEF LaWTypeOK, Descriptor
  <2>4. /\ Old(th[t].des, i) /\ th[t].des.count < th[t].pw.max
        /\ put_array[i].node = th[t].des.node => put_array[i].count < th[t].pw.max
        /\ Held(th[t].pw, lateral.tail) /\ Held(th[t].gw, lateral.head + 1)
    BY <1>1, <2>1 DEF ThreadInv, EnqueueInv, HoldsTail, Checked
  <2>5. put_array[i].node = th[t].des.node /\ items[i] = th[t].des.node
    <3>1. put_array[i].node <= items[i] /\ items[i] \in Nat /\ put_array[i].node \in Nat
      BY <1>1, <2>3 DEF TailsInv
    <3>2. th[t].des.node <= put_array[i].node /\ th[t].des.node >= items[i]
      BY <1>2, <2>1, <2>4 DEF Old, NextIsNull
    <3> QED
      BY <2>3, <3>1, <3>2
  <2>6. /\ items' \in [Index -> Nat] /\ items'[i] = th[t].des.node + 1
        /\ \A j \in Index : j # i => items'[j] = items[j]
    BY <1>2, <2>1, <2>3, <2>5
  <2>7. LaWTypeOK'
    BY <1>1, <2>2, <2>6 DEF LaWTypeOK
  <2>8. LateralGrows /\ LateralInv' /\ PutWin' = PutWin
    BY <1>1, LateralAlone
  <2>9. TailsGrow
    <3> SUFFICES ASSUME NEW j \in Index
                 PROVE  items[j] <= items'[j]
      BY <1>1, <2>3 DEF TailsGrow
    <3> QED
      BY <2>3, <2>5, <2>6
  <2>10. put_array[i].count < PutWin.max
    <3>1. /\ th[t].pw.id \in 1 .. lateral.tail /\ th[t].pw = lateral.nodes[th[t].pw.id]
      BY <1>1, <2>4, LateralWindows DEF Held
    <3>2. th[t].pw.max <= PutWin.max /\ PutWin.max \in Nat
      BY <1>1, <3>1, LateralWindows DEF Window
    <3> QED
      BY <2>3, <2>4, <2>5, <3>2
  <2>11. TailsInv'
    <3> SUFFICES ASSUME NEW j \in Index
                 PROVE  /\ put_array[j].node <= items'[j] /\ items'[j] <= put_array[j].node + 1
                        /\ put_array[j].count <= PutWin.max
                        /\ put_array[j].node < items'[j] => put_array[j].count < PutWin.max
      BY <1>1, <2>8 DEF TailsInv
    <3>1. CASE j = i
      BY <1>1, <2>3, <2>5, <2>6, <2>10, <3>1 DEF TailsInv
    <3>2. CASE j # i
      BY <1>1, <2>6, <3>2 DEF TailsInv
    <3> QED
      BY <3>1, <3>2
  <2>12. FullBehind'
    BY <1>1, <2>7, <2>9, StaysFull
  <2>13. ThreadInv(r)'
    <3>1. Held(r.pw, lateral.tail)' /\ Held(r.gw, lateral.head + 1)'
      BY <1>1, <2>2, <2>4 DEF Held
    <3>2. RoundInv(r)' /\ DequeueInv(r)'
      BY <2>2 DEF RoundInv, DequeueInv, Scanning, Shifting
    <3>3. th[t].des.node < items'[i]
      BY <2>3, <2>6
    <3>4. EnqueueInv(r)'
      BY <1>1, <2>2, <2>4, <3>3 DEF EnqueueInv, HoldsTail, Checked, Old
    <3> QED
      BY <3>1, <3>2, <3>4 DEF ThreadInv
  <2> QED
    BY <2>2, <2>7, <2>8, <2>9, <2>11, <2>12, <2>13, SharedStep DEF SharedInv
<1>3. CASE th' = [th EXCEPT ![t].pc = "put_enter", ![t].contention = 1] /\ UNCHANGED items
  <2> DEFINE r == [th[t] EXCEPT !.pc = "put_enter", !.contention = 1]
  <2>1. r \in Local /\ th' = [th EXCEPT ![t] = r]
    BY <1>1, <1>3 DEF LaWTypeOK, Local, PutPCs
  <2>2. r.pc \in Unbound /\ r.pw = th[t].pw /\ r.gw = th[t].gw
    BY <1>1 DEF Local, Unbound
  <2> HIDE DEF r
  <2> QED
    BY <1>1, <1>3, <2>1, <2>2, TailKept
<1> QED
  BY <1>2, <1>3 DEF EnqCae

\* The CAE of a head touches nothing that the put side relies on.
LEMMA DeqCaeInv ==
    ASSUME SizesOK, Inv, NoWrap, NEW t \in Threads, DeqCae(t), UNCHANGED lateral
    PROVE  Inv'
<1>1. /\ LaWTypeOK /\ LateralInv /\ TailsInv /\ FullBehind /\ th[t] \in Local
      /\ UNCHANGED <<lateral, put_array, items, set>>
  BY DEF Inv, SharedInv, LaWTypeOK, DeqCae
<1>2. CASE /\ get_array' = [get_array EXCEPT ![th[t].gi] =
                 [node |-> th[t].des.node + 1,
                  count |-> CountAbove(th[t].des.count, Bottom(th[t].gw))]]
           /\ Return(t)
  <2>1. PICK r \in Local : /\ th' = [th EXCEPT ![t] = r] /\ r.pc = "idle"
                           /\ r.pw = th[t].pw /\ r.gw = th[t].gw
    BY <1>1, <1>2, ReturnLocals
  <2>2. /\ th[t].gi \in Index /\ th[t].des.node + 1 \in Nat
        /\ CountAbove(th[t].des.count, Bottom(th[t].gw)) \in Nat
    <3>1. /\ th[t].gi \in Index /\ th[t].des.node \in Nat /\ th[t].des.count \in Nat
          /\ th[t].gw \in Window
      BY <1>1, LocalNumbers
    <3>2. Bottom(th[t].gw) \in Nat
      BY <3>1, BottomNat
    <3>3. CountAbove(th[t].des.count, Bottom(th[t].gw)) \in Nat
      BY <3>1, <3>2, CountAboveNat
    <3> QED
      BY <3>1, <3>3
  <2>3. get_array' \in [Index -> Descriptor]
    BY <1>1, <1>2, <2>2 DEF LaWTypeOK, Descriptor
  <2>4. LaWTypeOK'
    BY <1>1, <2>1, <2>3 DEF LaWTypeOK
  <2>5. LateralGrows /\ LateralInv' /\ PutWin' = PutWin
    BY <1>1, LateralAlone
  <2>6. TailsGrow
    BY <1>1 DEF LaWTypeOK, Descriptor, TailsGrow
  <2>7. TailsInv' /\ FullBehind'
    BY <1>1, <2>5 DEF TailsInv, FullBehind
  <2>8. r.pc \in Unbound
    BY <2>1 DEF Unbound
  <2> QED
    BY <2>1, <2>4, <2>5, <2>6, <2>7, <2>8, UnboundSharedStep DEF SharedInv
<1>3. CASE /\ th' = [th EXCEPT ![t].pc = "get_enter", ![t].enq = Dummy, ![t].contention = 1]
           /\ UNCHANGED get_array
  <2> DEFINE r == [th[t] EXCEPT !.pc = "get_enter", !.enq = Dummy, !.contention = 1]
  <2>1. Dummy \in Descriptor
    BY DEF Dummy, Descriptor
  <2>2. r \in Local /\ th' = [th EXCEPT ![t] = r]
    BY <1>1, <1>3, <2>1 DEF LaWTypeOK, Local, GetPCs
  <2>3. r.pc \in Unbound /\ r.pw = th[t].pw /\ r.gw = th[t].gw
    BY <1>1 DEF Local, Unbound
  <2> HIDE DEF r
  <2> QED
    BY <1>1, <1>3, <2>2, <2>3, TailKept
<1> QED
  BY <1>2, <1>3 DEF DeqCae

-----------------------------------------------------------------------------
\* A step that leaves the tails alone.
LEMMA TailsAlone ==
    ASSUME LaWTypeOK, UNCHANGED <<put_array, items>>
    PROVE  TailsGrow
  BY DEF LaWTypeOK, Descriptor, TailsGrow

\* A thread that fails to link finds that the window after its own is there.
LEMMA LinkLost ==
    ASSUME LaWTypeOK, LateralInv, NEW t \in Threads, ThreadInv(th[t]),
           ~(lateral.tail = th[t].pw.id /\ th[t].pw.id = Len(lateral.nodes))
    PROVE  th[t].pw.id < Len(lateral.nodes)
<1>1. /\ lateral.tail \in Nat /\ Len(lateral.nodes) \in Nat
      /\ lateral.tail <= Len(lateral.nodes) /\ th[t].pw.id \in 2 .. lateral.tail
  BY DEF LaWTypeOK, LateralInv, LateralPointers, ThreadInv, Held
<1> QED
  BY <1>1

\* shift_put links a window on top of the put window.
LEMMA LinkedLateral ==
    ASSUME SizesOK, LaWTypeOK, LateralInv, NEW win \in Window,
           win.id = lateral.tail + 1, win.depth > 0, win.depth <= win.max,
           PutWin.max < win.max, lateral.tail = Len(lateral.nodes),
           lateral' = [lateral EXCEPT !.nodes = Append(@, win)]
    PROVE  /\ lateral' \in [nodes : Seq(Window), head : Nat, tail : Nat]
           /\ LateralInv' /\ LateralGrows /\ PutWin' = PutWin
           /\ lateral'.tail = lateral.tail /\ lateral'.head = lateral.head
           /\ Len(lateral'.nodes) = Len(lateral.nodes) + 1
           /\ \A n \in 1 .. Len(lateral.nodes) : lateral'.nodes[n] = lateral.nodes[n]
<1> DEFINE N == Len(lateral.nodes)
<1>1. /\ lateral.nodes \in Seq(Window) /\ lateral.head \in Nat /\ lateral.tail \in Nat /\ N \in Nat
      /\ lateral \in [nodes : Seq(Window), head : Nat, tail : Nat]
  BY DEF LaWTypeOK
<1>2. /\ lateral' \in [nodes : Seq(Window), head : Nat, tail : Nat]
      /\ lateral'.nodes = Append(lateral.nodes, win)
      /\ lateral'.tail = lateral.tail /\ lateral'.head = lateral.head
  <2> DEFINE s == Append(lateral.nodes, win)
  <2>1. s \in Seq(Window) /\ lateral' = [lateral EXCEPT !.nodes = s]
    BY <1>1
  <2> HIDE DEF s
  <2>2. /\ lateral' \in [nodes : Seq(Window), head : Nat, tail : Nat] /\ lateral'.nodes = s
        /\ lateral'.tail = lateral.tail /\ lateral'.head = lateral.head
    BY <1>1, <2>1
  <2> QED
    BY <2>2 DEF s
<1>3. /\ Len(lateral'.nodes) = N + 1 /\ lateral'.nodes[N + 1] = win
      /\ \A n \in 1 .. N : lateral'.nodes[n] = lateral.nodes[n]
  BY <1>1, <1>2
<1>4. LateralPointers
  BY DEF LateralInv
<1>5. LateralPointers'
  BY <1>1, <1>2, <1>3, <1>4 DEF LateralPointers
<1>6. N \in 1 .. N /\ PutWin = lateral.nodes[N]
  BY <1>1, <1>4 DEF LateralPointers, PutWin
<1>7. \A n \in 1 .. N : lateral.nodes[n] \in Window
  BY <1>1
<1>8. \A n \in 1 .. N : lateral.nodes[n].max \in Nat /\ lateral.nodes[n].max < win.max
  <2> SUFFICES ASSUME NEW n \in 1 .. N
               PROVE  lateral.nodes[n].max \in Nat /\ lateral.nodes[n].max < win.max
    OBVIOUS
  <2>1. lateral.nodes[n].max \in Nat /\ lateral.nodes[N].max \in Nat /\ win.max \in Nat
    BY <1>6, <1>7 DEF Window
  <2>2. n < N => lateral.nodes[n].max < lateral.nodes[N].max
    BY <1>6 DEF LateralInv, LateralStacked
  <2> QED
    BY <1>1, <1>6, <2>1, <2>2
<1>9. LateralStacked'
  <2>1. \A n \in 1 .. N + 1 : n \in 1 .. N \/ n = N + 1
    BY <1>1
  <2>2. \A n \in 2 .. N + 1 : n \in 2 .. N \/ n = N + 1
    BY <1>1
  <2>3. \A n \in 2 .. N : n \in 1 .. N
    BY <1>1
  <2>4. \A n \in 1 .. N + 1 : lateral'.nodes[n].id = n
    BY <1>3, <2>1 DEF LateralInv, LateralStacked
  <2>5. \A n \in 2 .. N + 1 : /\ lateral'.nodes[n].depth <= lateral'.nodes[n].max
                              /\ lateral'.nodes[n].depth > 0
    BY <1>3, <2>2, <2>3 DEF LateralInv, LateralStacked
  <2>6. ASSUME NEW m \in 1 .. N + 1, NEW n \in 1 .. N + 1, m < n
        PROVE  lateral'.nodes[m].max < lateral'.nodes[n].max
    <3>1. m \in 1 .. N
      BY <1>1, <2>6
    <3>2. CASE n = N + 1
      BY <1>3, <1>8, <3>1, <3>2
    <3>3. CASE n \in 1 .. N
      BY <1>3, <2>6, <3>1, <3>3 DEF LateralInv, LateralStacked
    <3> QED
      BY <2>1, <3>2, <3>3
  <2> QED
    BY <1>3, <2>4, <2>5, <2>6 DEF LateralStacked
<1>10. LateralGrows
  BY <1>1, <1>2, <1>3 DEF LateralGrows
<1>11. PutWin' = PutWin
  BY <1>2, <1>3, <1>6 DEF PutWin
<1> QED
  BY <1>2, <1>3, <1>5, <1>9, <1>10, <1>11 DEF LateralInv

LEMMA ShiftLinkInv ==
    ASSUME SizesOK, Inv, NoWrap, NEW t \in Threads, ShiftLink(t)
    PROVE  Inv'
<1>1. /\ LaWTypeOK /\ LateralInv /\ TailsInv /\ FullBehind /\ th[t] \in Local
      /\ ThreadInv(th[t]) /\ th[t].pc = "put_shift" /\ UNCHANGED shared
  BY DEF Inv, SharedInv, LaWTypeOK, ShiftLink, At
<1>2. PICK r \in Local : /\ th' = [th EXCEPT ![t] = r]
                         /\ r.pc = "put_swing" /\ r.pw = th[t].pw /\ r.gw = th[t].gw
  <2>1. [th[t] EXCEPT !.pc = "put_swing"] \in Local
    BY <1>1 DEF Local, PutPCs
  <2>2. th' = [th EXCEPT ![t] = [th[t] EXCEPT !.pc = "put_swing"]]
    BY DEF ShiftLink
  <2> QED
    BY <1>1, <2>1, <2>2 DEF Local
<1>3. /\ Held(r.pw, lateral.tail) /\ Held(r.gw, lateral.head + 1)
      /\ \A j \in 0 .. r.pw.width - 1 : put_array[j].count >= r.pw.max
  BY <1>1, <1>2 DEF ThreadInv, RoundInv, Shifting
<1> DEFINE last == lateral.tail = th[t].pw.id /\ th[t].pw.id = Len(lateral.nodes)
           win == LateralNode(th[t].pw.id + 1, th[t].pw.max + set.depth, set.width, set.depth)
<1>4. lateral' = IF last THEN [lateral EXCEPT !.nodes = Append(@, win)] ELSE lateral
  BY DEF ShiftLink
<1>5. UNCHANGED <<put_array, get_array, items, set>>
  BY <1>1 DEF shared
<1>6. CASE last
  <2>1. /\ set.depth \in Nat /\ set.depth > 0 /\ set.width \in Widths
        /\ th[t].pw.id \in Nat /\ th[t].pw.max \in Nat
    <3>1. set.depth \in Depths /\ set.width \in Widths
      BY <1>1 DEF LaWTypeOK
    <3>2. \A d \in Depths : d \in Nat /\ d > 0
      BY DEF SizesOK
    <3> QED
      BY <1>1, <3>1, <3>2, LocalNumbers
  <2>2. /\ win \in Window /\ win.id = th[t].pw.id + 1 /\ win.depth = set.depth
        /\ win.max = th[t].pw.max + set.depth
    BY <2>1 DEF LateralNode, Window
  <2>3. PutWin = th[t].pw
    BY <1>2, <1>3, <1>6 DEF Held, PutWin
  <2>4. lateral' = [lateral EXCEPT !.nodes = Append(@, win)]
    BY <1>4, <1>6
  <2> HIDE DEF win
  <2>5. /\ win.id = lateral.tail + 1 /\ win.depth > 0 /\ win.depth <= win.max
        /\ PutWin.max < win.max /\ lateral.tail = Len(lateral.nodes)
    BY <1>6, <2>1, <2>2, <2>3
  <2>6. /\ lateral' \in [nodes : Seq(Window), head : Nat, tail : Nat]
        /\ LateralInv' /\ LateralGrows /\ PutWin' = PutWin
        /\ lateral'.tail = lateral.tail /\ lateral'.head = lateral.head
        /\ Len(lateral'.nodes) = Len(lateral.nodes) + 1
        /\ \A n \in 1 .. Len(lateral.nodes) : lateral'.nodes[n] = lateral.nodes[n]
    BY <1>1, <2>2, <2>4, <2>5, LinkedLateral
  <2>7. LaWTypeOK'
    BY <1>1, <1>2, <1>5, <2>6 DEF LaWTypeOK
  <2>8. TailsGrow
    BY <1>1, <1>5, TailsAlone
  <2>9. TailsInv'
    BY <1>1, <1>5, <2>6 DEF TailsInv
  <2>10. /\ lateral.tail \in Nat /\ lateral.head \in Nat /\ Len(lateral.nodes) \in Nat
         /\ lateral.tail <= Len(lateral.nodes) /\ lateral.head + 1 <= Len(lateral.nodes)
    BY <1>1 DEF LaWTypeOK, LateralInv, LateralPointers
  <2>11. FullBehind'
    <3>1. \A n \in 2 .. lateral.tail - 1 : n \in 1 .. Len(lateral.nodes)
      BY <2>10
    <3> QED
      BY <1>1, <1>5, <2>6, <3>1 DEF FullBehind
  <2>12. ThreadInv(r)'
    <3>1. Held(r.pw, lateral.tail)' /\ Held(r.gw, lateral.head + 1)'
      <4>1. r.pw.id \in 1 .. Len(lateral.nodes) /\ r.gw.id \in 1 .. Len(lateral.nodes)
        <5>1. r.pw.id \in 2 .. lateral.tail /\ r.gw.id \in 2 .. lateral.head + 1
          BY <1>3 DEF Held
        <5> QED
          BY <2>10, <5>1
      <4> QED
        BY <1>3, <2>6, <4>1 DEF Held
    <3>2. r.pw.id < Len(lateral'.nodes)
      BY <1>2, <1>6, <2>1, <2>6
    <3>3. RoundInv(r)'
      BY <1>2, <1>3, <1>5, <3>2 DEF RoundInv, Scanning, Shifting
    <3>4. EnqueueInv(r)' /\ DequeueInv(r)'
      BY <1>2 DEF EnqueueInv, DequeueInv, HoldsTail, Checked
    <3> QED
      BY <3>1, <3>3, <3>4 DEF ThreadInv
  <2> QED
    BY <1>2, <2>6, <2>7, <2>8, <2>9, <2>11, <2>12, SharedStep DEF SharedInv
<1>7. CASE ~last
  <2>1. th[t].pw.id < Len(lateral.nodes)
    BY <1>1, <1>7, LinkLost
  <2>2. UNCHANGED <<lateral, shared>>
    BY <1>1, <1>4, <1>7
  <2>3. RoundInv(r)
    BY <1>2, <1>3, <2>1 DEF RoundInv, Scanning, Shifting
  <2>4. ThreadInv(r)
    BY <1>2, <1>3, <2>3 DEF ThreadInv, EnqueueInv, DequeueInv, HoldsTail, Checked
  <2> QED
    BY <1>2, <2>2, <2>4, LocalStep
<1> QED
  BY <1>6, <1>7

\* shift_put makes the linked window the put window: the one below is full.
LEMMA ShiftSwingInv ==
    ASSUME SizesOK, Inv, NoWrap, NEW t \in Threads, ShiftSwing(t)
    PROVE  Inv'
<1>1. /\ LaWTypeOK /\ LateralInv /\ TailsInv /\ FullBehind /\ th[t] \in Local
      /\ ThreadInv(th[t]) /\ th[t].pc = "put_swing" /\ UNCHANGED shared
      /\ lateral' = [lateral EXCEPT !.tail = IF @ = th[t].pw.id THEN @ + 1 ELSE @]
  BY DEF Inv, SharedInv, LaWTypeOK, ShiftSwing, At
<1>2. PICK r \in Local : /\ th' = [th EXCEPT ![t] = r]
                         /\ r.pc = "put_resync" /\ r.pw = th[t].pw /\ r.gw = th[t].gw
  <2>1. [th[t] EXCEPT !.pc = "put_resync"] \in Local
    BY <1>1 DEF Local, PutPCs
  <2>2. th' = [th EXCEPT ![t] = [th[t] EXCEPT !.pc = "put_resync"]]
    BY DEF ShiftSwing
  <2> QED
    BY <1>1, <2>1, <2>2 DEF Local
<1>3. r.pc \in Unbound
  BY <1>2 DEF Unbound
<1>4. UNCHANGED <<put_array, get_array, items, set>>
  BY <1>1 DEF shared
<1>5. /\ lateral.nodes \in Seq(Window) /\ lateral.head \in Nat /\ lateral.tail \in Nat
      /\ Len(lateral.nodes) \in Nat /\ LateralPointers
      /\ lateral \in [nodes : Seq(Window), head : Nat, tail : Nat]
  BY <1>1 DEF LaWTypeOK, LateralInv
<1>6. CASE lateral.tail = th[t].pw.id
  <2>1. /\ lateral' \in [nodes : Seq(Window), head : Nat, tail : Nat]
        /\ lateral'.tail = lateral.tail + 1 /\ lateral'.head = lateral.head
        /\ lateral'.nodes = lateral.nodes
    BY <1>1, <1>5, <1>6
  <2>2. /\ th[t].pw.id < Len(lateral.nodes) /\ Held(th[t].pw, lateral.tail)
        /\ \A j \in 0 .. th[t].pw.width - 1 : put_array[j].count >= th[t].pw.max
    BY <1>1 DEF ThreadInv, RoundInv, Shifting
  <2>3. LateralPointers'
    BY <1>5, <1>6, <2>1, <2>2 DEF LateralPointers
  <2>4. LateralStacked'
    BY <1>1, <2>1 DEF LateralInv, LateralStacked
  <2>5. LaWTypeOK'
    BY <1>1, <1>2, <1>4, <2>1 DEF LaWTypeOK
  <2>6. LateralGrows /\ TailsGrow
    BY <1>1, <1>4, <1>5, <2>1, TailsAlone DEF LateralGrows
  <2>7. LateralInv'
    BY <2>3, <2>4 DEF LateralInv
  <2>8. TailsInv'
    <3>1. PutWin.max \in Nat /\ PutWin'.max \in Nat /\ PutWin.max <= PutWin'.max
      BY <1>1, <2>5, <2>6, <2>7, PutWindowRises
    <3> SUFFICES ASSUME NEW j \in Index
                 PROVE  /\ put_array[j].node <= items[j] /\ items[j] <= put_array[j].node + 1
                        /\ put_array[j].count <= PutWin'.max
                        /\ put_array[j].node < items[j] => put_array[j].count < PutWin'.max
      BY <1>4 DEF TailsInv
    <3>2. put_array[j].count \in Nat
      BY <1>1 DEF LaWTypeOK, Descriptor
    <3> QED
      BY <1>1, <3>1, <3>2 DEF TailsInv
  <2>9. FullBehind'
    <3> SUFFICES ASSUME NEW n \in 2 .. lateral.tail, NEW i \in 0 .. lateral.nodes[n].width - 1
                 PROVE  put_array[i].count >= lateral.nodes[n].max
      BY <1>4, <1>5, <2>1 DEF FullBehind
    <3>1. CASE n = lateral.tail
      BY <1>6, <2>2, <3>1 DEF Held
    <3>2. CASE n \in 2 .. lateral.tail - 1
      BY <1>1, <3>2 DEF FullBehind
    <3> QED
      BY <1>5, <3>1, <3>2
  <2> QED
    BY <1>2, <1>3, <2>5, <2>6, <2>7, <2>8, <2>9, UnboundSharedStep DEF SharedInv
<1>7. CASE lateral.tail # th[t].pw.id
  <2>1. lateral' = lateral
    BY <1>1, <1>5, <1>7
  <2> QED
    BY <1>2, <1>3, <1>4, <2>1, TailKept
<1> QED
  BY <1>6, <1>7

\* shift_get: the get window that is left is below the put window.
LEMMA ShiftGetInv ==
    ASSUME SizesOK, Inv, NoWrap, NEW t \in Threads, ShiftGet(t)
    PROVE  Inv'
<1>1. /\ LaWTypeOK /\ LateralInv /\ TailsInv /\ FullBehind /\ th[t] \in Local
      /\ ThreadInv(th[t]) /\ th[t].pc = "get_shift" /\ UNCHANGED shared
      /\ lateral' = [lateral EXCEPT !.head = IF @ + 1 = th[t].gw.id THEN @ + 1 ELSE @]
  BY DEF Inv, SharedInv, LaWTypeOK, ShiftGet, At
<1>2. PICK r \in Local : /\ th' = [th EXCEPT ![t] = r]
                         /\ r.pc = "get_resync" /\ r.pw = th[t].pw /\ r.gw = th[t].gw
  <2>1. [th[t] EXCEPT !.pc = "get_resync"] \in Local
    BY <1>1 DEF Local, GetPCs
  <2>2. th' = [th EXCEPT ![t] = [th[t] EXCEPT !.pc = "get_resync"]]
    BY DEF ShiftGet
  <2> QED
    BY <1>1, <2>1, <2>2 DEF Local
<1>3. r.pc \in Unbound
  BY <1>2 DEF Unbound
<1>4. UNCHANGED <<put_array, get_array, items, set>>
  BY <1>1 DEF shared
<1>5. /\ lateral.nodes \in Seq(Window) /\ lateral.head \in Nat /\ lateral.tail \in Nat
      /\ Len(lateral.nodes) \in Nat /\ LateralPointers
      /\ lateral \in [nodes : Seq(Window), head : Nat, tail : Nat]
  BY <1>1 DEF LaWTypeOK, LateralInv
<1>6. CASE lateral.head + 1 = th[t].gw.id
  <2>1. /\ lateral' \in [nodes : Seq(Window), head : Nat, tail : Nat]
        /\ lateral'.head = lateral.head + 1 /\ lateral'.tail = lateral.tail
        /\ lateral'.nodes = lateral.nodes
    BY <1>1, <1>5, <1>6
  <2>2. th[t].gw.id < lateral.tail
    BY <1>1 DEF ThreadInv, DequeueInv
  <2>3. LateralPointers'
    BY <1>5, <1>6, <2>1, <2>2 DEF LateralPointers
  <2>4. LateralInv'
    BY <1>1, <2>1, <2>3 DEF LateralInv, LateralStacked
  <2>5. LaWTypeOK'
    BY <1>1, <1>2, <1>4, <2>1 DEF LaWTypeOK
  <2>6. LateralGrows /\ TailsGrow
    BY <1>1, <1>4, <1>5, <2>1, TailsAlone DEF LateralGrows
  <2>7. TailsInv' /\ FullBehind'
    BY <1>1, <1>4, <2>1 DEF TailsInv, FullBehind, PutWin
  <2> QED
    BY <1>2, <1>3, <2>4, <2>5, <2>6, <2>7, UnboundSharedStep DEF SharedInv
<1>7. CASE lateral.head + 1 # th[t].gw.id
  <2>1. lateral' = lateral
    BY <1>1, <1>5, <1>7
  <2> QED
    BY <1>2, <1>3, <1>4, <2>1, TailKept
<1> QED
  BY <1>6, <1>7

\* update_width and update_depth touch nothing but the next dimensions.
LEMMA UpdateInv ==
    ASSUME Inv, Update
    PROVE  Inv'
<1>1. /\ LaWTypeOK /\ SharedInv /\ \A t \in Threads : ThreadInv(th[t])
      /\ UNCHANGED <<lateral, put_array, get_array, items, th>>
  BY DEF Inv, Update, UpdateWidth, UpdateDepth
<1>2. set' \in [width : Widths, depth : Depths, updates : Nat]
  <2>1. set \in [width : Widths, depth : Depths, updates : Nat]
    BY <1>1 DEF LaWTypeOK
  <2> DEFINE n == set.updates + 1
  <2>2. n \in Nat
    BY <2>1
  <2>3. \/ \E w \in Widths : set' = [set EXCEPT !.width = w, !.updates = n]
        \/ \E d \in Depths : set' = [set EXCEPT !.depth = d, !.updates = n]
    BY DEF Update, UpdateWidth, UpdateDepth
  <2> HIDE DEF n
  <2> QED
    BY <2>1, <2>2, <2>3
<1>3. LaWTypeOK'
  BY <1>1, <1>2 DEF LaWTypeOK
<1>4. SharedInv'
  BY <1>1 DEF SharedInv, LateralInv, LateralPointers, LateralStacked, TailsInv, FullBehind, PutWin
<1>5. ASSUME NEW t \in Threads
      PROVE  ThreadInv(th[t])'
  <2>1. PICK me : me = th[t] /\ me = th'[t] /\ ThreadInv(me)
    BY <1>1
  <2>2. ThreadInv(me)'
    BY <2>1, <1>1, QuietLocals
  <2> QED
    BY <2>1, <2>2
<1> QED
  BY <1>3, <1>4, <1>5 DEF Inv

LEMMA StutterInv ==
    ASSUME Inv, UNCHANGED vars
    PROVE  Inv'
<1>1. /\ LaWTypeOK /\ SharedInv /\ \A t \in Threads : ThreadInv(th[t])
      /\ UNCHANGED <<lateral, put_array, get_array, items, set, th>>
  BY DEF Inv, vars, shared
<1>2. LaWTypeOK'
  BY <1>1 DEF LaWTypeOK
<1>3. SharedInv'
  BY <1>1 DEF SharedInv, LateralInv, LateralPointers, LateralStacked, TailsInv, FullBehind, PutWin
<1>4. ASSUME NEW t \in Threads
      PROVE  ThreadInv(th[t])'
  <2>1. PICK me : me = th[t] /\ me = th'[t] /\ ThreadInv(me)
    BY <1>1
  <2>2. ThreadInv(me)'
    BY <2>1, <1>1, QuietLocals
  <2> QED
    BY <2>1, <2>2
<1> QED
  BY <1>2, <1>3, <1>4 DEF Inv

\* create_queue and init_thread_windows.
LEMMA InitInv ==
    ASSUME SizesOK, Init
    PROVE  Inv
<1>1. PICK w \in Widths, d \in Depths :
         /\ InitQueue(w, d)
         /\ lateral = [nodes |-> <<LateralNode(1, 0, w, 0), LateralNode(2, d, w, d)>>,
                       head |-> 1, tail |-> 2]
         /\ th = [t \in Threads |->
                    Locals(0, 0, LateralNode(2, d, w, d), LateralNode(2, d, w, d), 0)]
  BY DEF Init
<1> DEFINE below == LateralNode(1, 0, w, 0)
           first == LateralNode(2, d, w, d)
<1>2. w \in Nat \ {0} /\ d \in Nat /\ d > 0 /\ 0 \in Index
  <2>1. \A e \in Depths : e \in Nat /\ e > 0
    BY DEF SizesOK
  <2>2. w \in Nat /\ w > 0 /\ 0 .. w - 1 \subseteq Index
    BY WindowIndices
  <2> QED
    BY <2>1, <2>2
<1>3. /\ below \in Window /\ below.id = 1 /\ below.max = 0
      /\ first \in Window /\ first.id = 2 /\ first.max = d /\ first.depth = d
  BY <1>2 DEF LateralNode, Window
<1>4. lateral = [nodes |-> <<below, first>>, head |-> 1, tail |-> 2]
  BY <1>1
<1>5. th = [t \in Threads |-> Locals(0, 0, first, first, 0)]
  BY <1>1
<1> HIDE DEF below, first
<1>6. /\ lateral.nodes = <<below, first>> /\ lateral.head = 1 /\ lateral.tail = 2
      /\ Len(lateral.nodes) = 2 /\ lateral.nodes[1] = below /\ lateral.nodes[2] = first
  BY <1>4
<1>7. Dummy \in Descriptor /\ Dummy.node = 0 /\ Dummy.count = 0
  BY DEF Dummy, Descriptor
<1>8. Locals(0, 0, first, first, 0) \in Local
  BY <1>2, <1>3, <1>7 DEF Locals, Local
<1>9. LaWTypeOK
  <2>1. lateral \in [nodes : Seq(Window), head : Nat, tail : Nat]
    BY <1>3, <1>4
  <2>2. set \in [width : Widths, depth : Depths, updates : Nat]
    BY <1>1 DEF InitQueue
  <2>3. /\ put_array \in [Index -> Descriptor] /\ get_array \in [Index -> Descriptor]
        /\ items \in [Index -> Nat]
    BY <1>1, <1>7 DEF InitQueue
  <2> QED
    BY <1>5, <1>8, <2>1, <2>2, <2>3 DEF LaWTypeOK
<1>10. LateralInv
  <2>1. LateralPointers
    BY <1>6 DEF LateralPointers
  <2>2. \A n \in 1 .. 2 : n = 1 \/ n = 2
    OBVIOUS
  <2>3. \A n \in 2 .. 2 : n = 2
    OBVIOUS
  <2>4. LateralStacked
    BY <1>2, <1>3, <1>6, <2>2, <2>3 DEF LateralStacked
  <2> QED
    BY <2>1, <2>4 DEF LateralInv
<1>11. PutWin = first
  BY <1>6 DEF PutWin
<1>12. TailsInv
  BY <1>1, <1>2, <1>3, <1>7, <1>11 DEF TailsInv, InitQueue
<1>13. FullBehind
  <2>1. 2 .. 1 = {}
    OBVIOUS
  <2> QED
    BY <1>6 DEF FullBehind
<1>14. ASSUME NEW t \in Threads
       PROVE  ThreadInv(th[t])
  <2>1. /\ th[t] \in Local /\ th[t].pc = "idle" /\ th[t].pw = first /\ th[t].gw = first
    BY <1>5, <1>8 DEF Locals
  <2>2. Held(first, lateral.tail) /\ Held(first, lateral.head + 1)
    BY <1>3, <1>6 DEF Held
  <2>3. th[t].pc \in Unbound
    BY <2>1 DEF Unbound
  <2> QED
    BY <2>1, <2>2, <2>3, UnboundInv
<1> QED
  BY <1>9, <1>10, <1>12, <1>13, <1>14 DEF Inv, SharedInv

LEMMA NextInv ==
    ASSUME SizesOK, Inv, NoWrap, [Next]_vars
    PROVE  Inv'
<1>1. ASSUME NEW t \in Threads, PutWindow(t)
      PROVE  Inv'
  <2>1. CASE PutResync(t)
    BY <2>1, AdoptTailInv DEF PutResync
  <2> QED
    BY <1>1, <2>1, PutEnterInv, PutCheckInv, ShiftLinkInv, ShiftSwingInv DEF PutWindow
<1>2. ASSUME NEW t \in Threads, GetWindow(t)
      PROVE  Inv'
  <2>1. CASE GetResync(t)
    BY <2>1, AdoptHeadInv DEF GetResync
  <2> QED
    BY <1>2, <2>1, GetEnterInv, GetCountInv, GetCheckInv, GetTailInv, ShiftGetInv DEF GetWindow
<1>3. ASSUME NEW t \in Threads, QueueStep(t)
      PROVE  Inv'
  <2>1. CASE Enqueue(t)
    <3>1. UNCHANGED lateral
      BY <1>3 DEF QueueStep
    <3> QED
      BY <2>1, <3>1, CallsInv, EnqRecheckInv, EnqNextInv, EnqCaeInv, EnqTailInv DEF Enqueue
  <2> QED
    BY <1>3, <2>1, ReadDescriptorsInv, DeqReadTailInv, DeqRereadTailInv, DeqNextInv, DeqHelpInv,
       DeqCaeInv DEF QueueStep
<1>4. ASSUME NEW t \in Threads, DequeueCall(t)
      PROVE  Inv'
  BY <1>4, CallsInv
<1> QED
  BY <1>1, <1>2, <1>3, <1>4, UpdateInv, StutterInv DEF Next, ThreadStep

\* What threads rely on holds for as long as no count leaves the range of
\* uint64_t: the inductive invariant of the Lateral-as-Window queue.
THEOREM WindowsAreHeld ==
    ASSUME SizesOK
    PROVE  Spec /\ []NoWrap => []Inv
<1>1. Init => Inv
  BY InitInv
<1>2. Inv /\ NoWrap /\ [Next]_vars => Inv'
  BY NextInv
<1> QED
  BY <1>1, <1>2, PTL DEF Spec

\* The put side of the Lateral-as-Window queue (put_window, shift_put, enqueue
\* and the help of dequeue), whatever the threads do and however the dimensions
\* change: no tail count is above the put window, and a window is left behind
\* only when every sub-queue of its width has reached its max.
THEOREM PutRowsHold ==
    ASSUME SizesOK
    PROVE  Spec /\ []NoWrap => []PutRows
<1>1. Inv => PutRows
  BY DEF Inv, SharedInv, TailsInv, FullBehind, PutRows
<1> QED
  BY <1>1, WindowsAreHeld, PTL
=============================================================================
