------------------------------ MODULE MCDesigns -----------------------------
(***************************************************************************)
(* The structures that the 2D ones are compared with, for TLC.  A          *)
(* behaviour is one design; the variables it does not have stay as they    *)
(* are.  The multi-queue's tails and heads are tail and head, the          *)
(* multi-stack's tops are top.                                             *)
(***************************************************************************)
EXTENDS Integers, Sequences, TLC

CONSTANTS
    t1, t2, t3,
    Designs,      \* the designs that a run has
    MaxSegments   \* bound on the segments of the k-segment stack

VARIABLES
    design, local, pc, ops,
    head, tail, stamp, published, linked, wasEmpty,        \* of queues
    top, next, elimination_array, nodes, pushed, popped,   \* of stacks
    segments                                               \* of both

ofThreads == <<local, pc, ops>>
ofQueues == <<head, tail, stamp, published, linked, wasEmpty>>
ofStacks == <<top, next, elimination_array, nodes, pushed, popped>>
vars == <<design, ofThreads, ofQueues, ofStacks, segments>>

-----------------------------------------------------------------------------
SegmentQueue1 == INSTANCE KSegmentQueue
    WITH Enqueuers <- {t1, t2}, Dequeuers <- {t2, t3}, SegmentSize <- 1, MaxOps <- 2
SegmentQueue2 == INSTANCE KSegmentQueue
    WITH Enqueuers <- {t1, t2}, Dequeuers <- {t2}, SegmentSize <- 2, MaxOps <- 3
SegmentStack == INSTANCE KSegmentStack
    WITH Pushers <- {t1, t2}, Poppers <- {t2}, SegmentSize <- 1,
         MaxOps <- (t1 :> 2 @@ t2 :> 3)
QueueMS == INSTANCE MSQueue
    WITH Enqueuers <- {t1, t2}, Dequeuers <- {t2, t3}, MaxOps <- 2
MultiQ == INSTANCE MultiQueue
    WITH Enqueuers <- {t1}, Dequeuers <- {t2, t3}, Width <- 2, Choices <- 2,
         ByCount <- FALSE, MaxOps <- 2, put_array <- tail, get_array <- head
QueueDRA == INSTANCE MultiQueue
    WITH Enqueuers <- {t1, t2}, Dequeuers <- {t2}, Width <- 2, Choices <- 2,
         ByCount <- TRUE, MaxOps <- 3, put_array <- tail, get_array <- head
Treiber == INSTANCE EliminationStack
    WITH Pushers <- {t1, t2}, Poppers <- {t2, t3}, Eliminate <- FALSE, MaxOps <- 2
Elimination == INSTANCE EliminationStack
    WITH Pushers <- {t1, t2}, Poppers <- {t2, t3}, Eliminate <- TRUE, MaxOps <- 2
MultiS == INSTANCE MultiStack
    WITH Pushers <- {t1, t2}, Poppers <- {t2}, Width <- 2, Choices <- 2,
         ByHeight <- FALSE, MaxOps <- 2, array <- top
StackDRA == INSTANCE MultiStack
    WITH Pushers <- {t1, t2}, Poppers <- {t2}, Width <- 2, Choices <- 2,
         ByHeight <- TRUE, MaxOps <- 3, array <- top

-----------------------------------------------------------------------------
Unused(x) == x = <<>>
NoSegments == Unused(segments)
NoQueue ==
    /\ Unused(head) /\ Unused(tail) /\ Unused(stamp) /\ Unused(published)
    /\ Unused(linked) /\ Unused(wasEmpty)
NoStack ==
    /\ Unused(top) /\ Unused(next) /\ Unused(elimination_array) /\ Unused(nodes)
    /\ Unused(pushed) /\ Unused(popped)
NoList == Unused(linked) /\ Unused(wasEmpty)
NoStamps == Unused(stamp) /\ Unused(published)
NoTops == Unused(top) /\ Unused(next) /\ Unused(elimination_array)
NoHistory == Unused(nodes) /\ Unused(pushed) /\ Unused(popped) /\ Unused(elimination_array)

Init ==
    /\ design \in Designs
    /\ \/ design = "segment_queue_1" /\ SegmentQueue1!Init /\ NoList /\ NoStack
       \/ design = "segment_queue_2" /\ SegmentQueue2!Init /\ NoList /\ NoStack
       \/ /\ design = "segment_stack" /\ SegmentStack!Init /\ NoTops
          /\ Unused(tail) /\ NoStamps /\ NoList
       \/ design = "queue_ms" /\ QueueMS!Init /\ NoStamps /\ NoStack /\ NoSegments
       \/ design = "multi_queue" /\ MultiQ!Init /\ NoStamps /\ NoStack /\ NoSegments
       \/ design = "queue_dra" /\ QueueDRA!Init /\ NoStamps /\ NoStack /\ NoSegments
       \/ design = "treiber" /\ Treiber!Init /\ NoQueue /\ Unused(nodes) /\ NoSegments
       \/ design = "elimination" /\ Elimination!Init /\ NoQueue /\ Unused(nodes) /\ NoSegments
       \/ design = "multi_stack" /\ MultiS!Init /\ NoQueue /\ NoHistory /\ NoSegments
       \/ design = "stack_dra" /\ StackDRA!Init /\ NoQueue /\ NoHistory /\ NoSegments

SegmentNext ==
    \/ /\ \/ design = "segment_queue_1" /\ SegmentQueue1!Next
          \/ design = "segment_queue_2" /\ SegmentQueue2!Next
       /\ UNCHANGED <<design, linked, wasEmpty, ofStacks>>
    \/ /\ design = "segment_stack" /\ SegmentStack!Next
       /\ UNCHANGED <<design, top, next, elimination_array, tail, stamp, published,
                      linked, wasEmpty>>

QueueNext ==
    /\ \/ design = "queue_ms" /\ QueueMS!Next
       \/ design = "multi_queue" /\ MultiQ!Next
       \/ design = "queue_dra" /\ QueueDRA!Next
    /\ UNCHANGED <<design, stamp, published, ofStacks, segments>>

StackNext ==
    \/ /\ \/ design = "treiber" /\ Treiber!Next
          \/ design = "elimination" /\ Elimination!Next
       /\ UNCHANGED <<design, ofQueues, nodes, segments>>
    \/ /\ \/ design = "multi_stack" /\ MultiS!Next
          \/ design = "stack_dra" /\ StackDRA!Next
       /\ UNCHANGED <<design, ofQueues, elimination_array, nodes, pushed, popped, segments>>

Next == SegmentNext \/ QueueNext \/ StackNext

Spec == Init /\ [][Next]_vars

-----------------------------------------------------------------------------
\* The items of sub-queue i of the designs that are strict queues, or several.
QueueContent(i) ==
    CASE design = "queue_ms" -> IF i = 0 THEN QueueMS!Content ELSE <<>>
      [] design = "multi_queue" -> MultiQ!Content(i)
      [] design = "queue_dra" -> QueueDRA!Content(i)
      [] OTHER -> <<>>

StackContent(i) ==
    CASE design = "treiber" -> IF i = 0 THEN Treiber!Content ELSE <<>>
      [] design = "elimination" -> IF i = 0 THEN Elimination!Content ELSE <<>>
      [] design = "multi_stack" -> MultiS!Content(i)
      [] design = "stack_dra" -> StackDRA!Content(i)
      [] OTHER -> <<>>

SegmentContent(size) ==
    CASE design = "segment_queue_1" /\ size = 1 -> SegmentQueue1!Content
      [] design = "segment_queue_2" /\ size = 2 -> SegmentQueue2!Content
      [] OTHER -> <<>>

Queue0 == INSTANCE OutOfOrder WITH K <- 0, Newest <- FALSE, content <- QueueContent(0)
Queue1 == INSTANCE OutOfOrder WITH K <- 0, Newest <- FALSE, content <- QueueContent(1)
Stack0 == INSTANCE OutOfOrder WITH K <- 0, Newest <- TRUE, content <- StackContent(0)
Stack1 == INSTANCE OutOfOrder WITH K <- 0, Newest <- TRUE, content <- StackContent(1)
Segment1 == INSTANCE OutOfOrder WITH K <- 0, Newest <- FALSE, content <- SegmentContent(1)
Segment2 == INSTANCE OutOfOrder WITH K <- 1, Newest <- FALSE, content <- SegmentContent(2)

\* The Michael-Scott list, and each of the lists of multi-queue and queue-dra,
\* is a strict queue: its items leave in the order they were linked, each once,
\* although the heads and tails a thread works with may be old.
StrictQueues == Queue0!Spec /\ Queue1!Spec

\* Treiber's list, with and without elimination, and each of the lists of
\* multi-stack and stack-dra, is a strict stack.
StrictStacks == Stack0!Spec /\ Stack1!Spec

\* The k-segment queue is (segment_size - 1)-out-of-order for every
\* interleaving: only the first segment is taken from, and it was full before
\* the next existed.
SegmentsOutOfOrder == Segment1!Spec /\ Segment2!Spec

\* No segment of the k-segment queue is left behind with an item in it or with
\* a slot that an insert may still take (KSegmentQueue!SegmentsUsedUp).
SegmentsUsedUp ==
    /\ design = "segment_queue_1" => SegmentQueue1!SegmentsUsedUp
    /\ design = "segment_queue_2" => SegmentQueue2!SegmentsUsedUp

\* A delete that reports empty is right: the k-segment queue has lost all it
\* held at the call, the Michael-Scott queue, or the sub-queue a dequeue of
\* multi-queue settled on, was empty at some moment of the call.
EmptyObserved ==
    [][/\ design = "segment_queue_1" =>
            \A t \in {t2, t3} : SegmentQueue1!ReturnEmpty(t) =>
                published[t] \cap SegmentQueue1!Live = {}
       /\ design = "segment_queue_2" =>
            (SegmentQueue2!ReturnEmpty(t2) => published[t2] \cap SegmentQueue2!Live = {})
       /\ design = "queue_ms" =>
            \A t \in {t2, t3} : (pc[t] = "del_same" /\ pc'[t] = "idle") => wasEmpty[t]
       /\ design = "multi_queue" =>
            \A t \in {t2, t3} : MultiQ!DeqEmpty(t) => local[t].index \in wasEmpty[t]
       /\ design = "queue_dra" =>
            (QueueDRA!DeqEmpty(t2) => local[t2].index \in wasEmpty[t2])]_vars

\* An item is returned once: a delete that returns one has taken it out in that
\* step.
TakenOnce ==
    [][\A t \in DOMAIN pc :
        /\ design \in {"segment_queue_1", "segment_queue_2"} /\ pc[t] = "deq_cas"
           /\ local[t].node # 0 /\ local[t].deleted = 0 /\ pc'[t] = "idle"
              => Len(SegmentContent(1)') + Len(SegmentContent(2)')
                 < Len(SegmentContent(1)) + Len(SegmentContent(2))
        /\ design = "queue_ms" /\ pc[t] = "del_cas" /\ pc'[t] = "idle"
              => Len(QueueContent(0)') < Len(QueueContent(0))
        /\ \A i \in {0, 1} :
              design \in {"multi_queue", "queue_dra"} /\ pc[t] = "deq_cae"
              /\ i = local[t].index /\ pc'[t] = "idle"
                 => Len(QueueContent(i)') < Len(QueueContent(i))
      ]_vars

\* A push that returned is not lost with the segment it went to
\* (KSegmentStack!NoneLost).
NoneLost == design = "segment_stack" => SegmentStack!NoneLost

\* Offering a node to a pop and taking it back neither loses nor doubles it
\* (EliminationStack!ExactlyOnce).
ExactlyOnce == design = "elimination" => Elimination!ExactlyOnce

\* The counter of a segment is the number of pops that announced its removal
\* (KSegmentStack!RemoveCounts).
RemoveCounts == design = "segment_stack" => SegmentStack!RemoveCounts
=============================================================================
