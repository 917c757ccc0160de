-------------------------- MODULE EliminationStack --------------------------
(***************************************************************************)
(* The Treiber stack, src/stack-treiber, and the elimination stack,        *)
(* src/stack-elimination.  In both an operation is a compare-and-swap of   *)
(* the top pointer, repeated until it succeeds.  In the second a push that *)
(* fails offers its node in the elimination array for a while, and a pop   *)
(* that fails looks for a node offered there.                              *)
(*                                                                         *)
(* A node is a number, next[n] its next pointer and 0 NULL; the memory     *)
(* manager (SSMEM, external) does not reuse a node that may be in use.     *)
(***************************************************************************)
EXTENDS Integers, Sequences, FiniteSets

CONSTANTS
    Pushers,    \* threads that insert
    Poppers,    \* threads that delete
    Eliminate,  \* whether there is an elimination array
    MaxOps      \* bound on the operations of one thread

VARIABLES
    top,                \* qu->top
    next,               \* next pointers of the nodes created so far
    elimination_array,  \* the node that each thread offers
    local,              \* locals of each thread
    pc, ops,
    pushed,             \* auxiliary: nodes whose insert returned
    popped              \* auxiliary: nodes that a delete returned

shared == <<top, next, elimination_array>>
vars == <<shared, local, pc, ops, pushed, popped>>

Threads == Pushers \cup Poppers
NULL == 0
NoLocals == [node |-> NULL, top |-> NULL, slot |-> CHOOSE t \in Threads : TRUE, tries |-> 0]

Goto(t, from, to) == pc[t] = from /\ pc' = [pc EXCEPT ![t] = to]

Return(t, from) ==
    /\ Goto(t, from, "idle")
    /\ local' = [local EXCEPT ![t] = NoLocals]

PushReturns(t, from) == Return(t, from) /\ pushed' = pushed \cup {local[t].node}
PopReturns(t, from, n) == Return(t, from) /\ popped' = popped \cup {n}

-----------------------------------------------------------------------------
\* mstack_treiber_insert, mstack_elimination_push_node
InsertCall(t) ==
    /\ t \in Pushers /\ ops[t] < MaxOps
    /\ ops' = [ops EXCEPT ![t] = @ + 1]
    /\ Goto(t, "idle", "push_read")
    /\ next' = Append(next, NULL)
    /\ local' = [local EXCEPT ![t].node = Len(next) + 1]
    /\ UNCHANGED <<top, elimination_array, pushed, popped>>

PushRead(t) ==
    /\ Goto(t, "push_read", "push_cas")
    /\ local' = [local EXCEPT ![t].top = top]
    /\ next' = [next EXCEPT ![local[t].node] = top]
    /\ UNCHANGED <<top, elimination_array, ops, pushed, popped>>

PushCAS(t) ==
    /\ \/ /\ top = local[t].top
          /\ top' = local[t].node
          /\ PushReturns(t, "push_cas")
       \/ /\ top # local[t].top
          /\ Goto(t, "push_cas", IF Eliminate THEN "offer" ELSE "push_read")
          /\ UNCHANGED <<top, local, pushed>>
    /\ UNCHANGED <<next, elimination_array, ops, popped>>

Offer(t) ==
    /\ \/ /\ elimination_array[t] = NULL
          /\ elimination_array' = [elimination_array EXCEPT ![t] = local[t].node]
          /\ Goto(t, "offer", "withdraw")
       \/ /\ elimination_array[t] # NULL
          /\ Goto(t, "offer", "push_read")
          /\ UNCHANGED elimination_array
    /\ UNCHANGED <<top, next, local, ops, pushed, popped>>

\* Mutant of StillOffered: the offer is withdrawn with a plain store.
StillOfferedAnyway(t) == TRUE

StillOffered(t) == elimination_array[t] = local[t].node

\* After the wait: take the node back, or return if a pop took it.
Withdraw(t) ==
    /\ \/ /\ StillOffered(t)
          /\ elimination_array' = [elimination_array EXCEPT ![t] = NULL]
          /\ Goto(t, "withdraw", "push_read")
          /\ UNCHANGED <<local, pushed>>
       \/ /\ ~StillOffered(t)
          /\ PushReturns(t, "withdraw")
          /\ UNCHANGED elimination_array
    /\ UNCHANGED <<top, next, ops, popped>>

Insert(t) == InsertCall(t) \/ PushRead(t) \/ PushCAS(t) \/ Offer(t) \/ Withdraw(t)

-----------------------------------------------------------------------------
\* mstack_treiber_delete, mstack_elimination_delete
DeleteCall(t) ==
    /\ t \in Poppers /\ ops[t] < MaxOps
    /\ ops' = [ops EXCEPT ![t] = @ + 1]
    /\ Goto(t, "idle", "pop_read")
    /\ UNCHANGED <<shared, local, pushed, popped>>

PopRead(t) ==
    /\ \/ top = NULL /\ Return(t, "pop_read")
       \/ /\ top # NULL
          /\ Goto(t, "pop_read", "pop_cas")
          /\ local' = [local EXCEPT ![t].top = top]
    /\ UNCHANGED <<shared, ops, pushed, popped>>

\* Mutant of TopUnchanged: the top is stored, not compared.
TopOverwritten(t) == TRUE

TopUnchanged(t) == top = local[t].top

PopCAS(t) ==
    /\ \/ /\ TopUnchanged(t)
          /\ PopReturns(t, "pop_cas", local[t].top)
          /\ top' = next[local[t].top]
       \/ /\ ~TopUnchanged(t)
          /\ Goto(t, "pop_cas", IF Eliminate THEN "search" ELSE "pop_read")
          /\ UNCHANGED <<top, local, popped>>
    /\ UNCHANGED <<next, elimination_array, ops, pushed>>

\* Look at random slots; the count of tries goes on over the whole delete.
Search(t) ==
    /\ \/ /\ local[t].tries >= Cardinality(Threads)
          /\ Goto(t, "search", "pop_read")
          /\ UNCHANGED local
       \/ /\ local[t].tries < Cardinality(Threads)
          /\ \E s \in Threads :
                /\ local' = [local EXCEPT ![t].slot = s, ![t].tries = @ + 1,
                                          ![t].node = elimination_array[s]]
                /\ Goto(t, "search", IF s # t /\ elimination_array[s] # NULL
                                     THEN "collide" ELSE "search")
    /\ UNCHANGED <<shared, ops, pushed, popped>>

Collide(t) ==
    /\ \/ /\ elimination_array[local[t].slot] = local[t].node
          /\ elimination_array' = [elimination_array EXCEPT ![local[t].slot] = NULL]
          /\ PopReturns(t, "collide", local[t].node)
       \/ /\ elimination_array[local[t].slot] # local[t].node
          /\ Goto(t, "collide", "search")
          /\ UNCHANGED <<elimination_array, local, popped>>
    /\ UNCHANGED <<top, next, ops, pushed>>

Delete(t) == DeleteCall(t) \/ PopRead(t) \/ PopCAS(t) \/ Search(t) \/ Collide(t)

-----------------------------------------------------------------------------
Init ==
    /\ top = NULL
    /\ next = <<>>
    /\ elimination_array = [t \in Threads |-> NULL]
    /\ local = [t \in Threads |-> NoLocals]
    /\ pc = [t \in Threads |-> "idle"]
    /\ ops = [t \in Threads |-> 0]
    /\ pushed = {} /\ popped = {}

Finished ==
    /\ \A t \in Threads : pc[t] = "idle" /\ ops[t] = MaxOps
    /\ UNCHANGED vars

Next == (\E t \in Threads : Insert(t) \/ Delete(t)) \/ Finished

Spec == Init /\ [][Next]_vars

-----------------------------------------------------------------------------
\* The nodes from n down, the lowest first.
ListFrom[n \in 0 .. Len(next)] ==
    IF n = NULL THEN <<>> ELSE Append(ListFrom[next[n]], n)

Content == ListFrom[top]

OnStack == {Content[i] : i \in DOMAIN Content}
Offered == {elimination_array[t] : t \in Threads} \ {NULL}

\* A node is in one place: on the stack, offered, or popped.  A push returns
\* only when its node is on the stack or was popped: offering a node and taking
\* it back neither loses nor doubles it.
ExactlyOnce ==
    /\ OnStack \cap Offered = {} /\ OnStack \cap popped = {} /\ Offered \cap popped = {}
    /\ pushed \subseteq OnStack \cup popped
=============================================================================
