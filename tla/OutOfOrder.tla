----------------------------- MODULE OutOfOrder -----------------------------
(***************************************************************************)
(* What a k-out-of-order queue or stack promises (README of the            *)
(* repository): a remove takes one of the K + 1 oldest items of a queue,   *)
(* or of the K + 1 newest items of a stack.  With K = 0 it is the strict   *)
(* queue or stack.  content holds the items in the order they were put.    *)
(***************************************************************************)
EXTENDS Naturals, Sequences

CONSTANTS
    K,       \* how many items a remove may skip
    Newest   \* whether the newest items go first, as in a stack

VARIABLE content

Init == content = <<>>

Put ==
    /\ Len(content') = Len(content) + 1
    /\ \A i \in DOMAIN content :
          content'[i] = content[i] /\ content'[Len(content')] # content[i]

Skips(i) == IF Newest THEN Len(content) - i ELSE i - 1

Without(i) ==
    [j \in 1 .. Len(content) - 1 |-> content[IF j < i THEN j ELSE j + 1]]

Take == \E i \in DOMAIN content : Skips(i) <= K /\ content' = Without(i)

Next == Put \/ Take

Spec == Init /\ [][Next]_content
=============================================================================
