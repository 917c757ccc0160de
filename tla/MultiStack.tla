----------------------------- MODULE MultiStack -----------------------------
(***************************************************************************)
(* The multi-stack, src/multi-stack_random-relaxed: Width Treiber stacks,  *)
(* an operation goes to a random one, or, with NUM_CHOICES, to the best of *)
(* several.  A push prefers an empty sub-stack, then the older top; a pop  *)
(* one that is not empty, then the newer top.  Tops are rated by a time    *)
(* stamp, of which nothing is known here, or, in src/stack-dra, by their   *)
(* height in the sub-stack.                                                *)
(*                                                                         *)
(* A node is a number, next[n] its next pointer and 0 NULL; the memory     *)
(* manager (SSMEM, external) does not reuse a node that may be in use.     *)
(***************************************************************************)
EXTENDS Integers, Sequences

CONSTANTS
    Pushers,   \* threads that push
    Poppers,   \* threads that pop
    Width,     \* set->width
    Choices,   \* NUM_CHOICES, or 1 in a build without
    ByHeight,  \* whether tops are rated by height, as in stack-dra
    MaxOps     \* bound on the operations of one thread

VARIABLES
    array,  \* the top of each sub-stack
    next,   \* next pointers of the nodes created so far
    local,  \* locals of each thread
    pc, ops

shared == <<array, next>>
vars == <<shared, local, pc, ops>>

Threads == Pushers \cup Poppers
Index == 0 .. Width - 1
NULL == 0
NoLocals == [new |-> NULL, index |-> 0, node |-> NULL, looked |-> 0]

Goto(t, from, to) == pc[t] = from /\ pc' = [pc EXCEPT ![t] = to]

\* The nodes from n down, the lowest first.
ListFrom[n \in 0 .. Len(next)] ==
    IF n = NULL THEN <<>> ELSE Append(ListFrom[next[n]], n)

Height(n) == Len(ListFrom[n])
CanBeOlder(a, b) == ByHeight => Height(a) < Height(b)

Return(t, from) ==
    /\ Goto(t, from, "idle")
    /\ local' = [local EXCEPT ![t] = NoLocals]

Retry(t, from, to) ==
    /\ Goto(t, from, to)
    /\ local' = [local EXCEPT ![t].looked = 0]

\* Look at one more index, which replaces the one found before or not; Enough
\* says that no more is looked at.
Look(t, from, to, Replaces(_, _), Stays(_, _), Enough(_)) ==
    \E i \in Index :
        LET looked == local[t].looked + 1
            new == array[i]
        IN  \/ /\ looked = 1 \/ Replaces(local[t].node, new)
               /\ local' = [local EXCEPT ![t].index = i, ![t].node = new,
                                         ![t].looked = looked]
               /\ Goto(t, from, IF looked < Choices /\ ~Enough(new) THEN from ELSE to)
            \/ /\ looked > 1 /\ Stays(local[t].node, new)
               /\ local' = [local EXCEPT ![t].looked = looked]
               /\ Goto(t, from, IF looked < Choices THEN from ELSE to)

-----------------------------------------------------------------------------
\* push, get_push_index
PushCall(t) ==
    /\ t \in Pushers /\ ops[t] < MaxOps
    /\ ops' = [ops EXCEPT ![t] = @ + 1]
    /\ Goto(t, "idle", "push_index")
    /\ next' = Append(next, NULL)
    /\ local' = [local EXCEPT ![t].new = Len(next) + 1]
    /\ UNCHANGED array

PushLook(t) ==
    /\ Look(t, "push_index", "push_next",
            LAMBDA old, new : new = NULL \/ CanBeOlder(new, old),
            LAMBDA old, new : new # NULL /\ (ByHeight => ~CanBeOlder(new, old)),
            LAMBDA new : new = NULL)
    /\ UNCHANGED <<shared, ops>>

PushNext(t) ==
    /\ Goto(t, "push_next", "push_cae")
    /\ next' = [next EXCEPT ![local[t].new] = local[t].node]
    /\ UNCHANGED <<array, local, ops>>

TopUnchanged(t) == array[local[t].index] = local[t].node

PushCAE(t) ==
    /\ \/ /\ TopUnchanged(t)
          /\ array' = [array EXCEPT ![local[t].index] = local[t].new]
          /\ Return(t, "push_cae")
       \/ ~TopUnchanged(t) /\ Retry(t, "push_cae", "push_index") /\ UNCHANGED array
    /\ UNCHANGED <<next, ops>>

Push(t) == PushCall(t) \/ PushLook(t) \/ PushNext(t) \/ PushCAE(t)

-----------------------------------------------------------------------------
\* pop, get_pop_index
PopCall(t) ==
    /\ t \in Poppers /\ ops[t] < MaxOps
    /\ ops' = [ops EXCEPT ![t] = @ + 1]
    /\ Goto(t, "idle", "pop_index")
    /\ UNCHANGED <<shared, local>>

PopLook(t) ==
    /\ Look(t, "pop_index", "pop_cae",
            LAMBDA old, new : old = NULL \/ (new # NULL /\ CanBeOlder(old, new)),
            LAMBDA old, new : old # NULL
                              /\ (new = NULL \/ (ByHeight => ~CanBeOlder(old, new))),
            LAMBDA new : FALSE)
    /\ UNCHANGED <<shared, ops>>

PopEmpty(t) ==
    /\ local[t].node = NULL
    /\ Return(t, "pop_cae")
    /\ UNCHANGED <<shared, ops>>

PopCAE(t) ==
    /\ local[t].node # NULL
    /\ \/ /\ TopUnchanged(t)
          /\ array' = [array EXCEPT ![local[t].index] = next[local[t].node]]
          /\ Return(t, "pop_cae")
       \/ ~TopUnchanged(t) /\ Retry(t, "pop_cae", "pop_index") /\ UNCHANGED array
    /\ UNCHANGED <<next, ops>>

Pop(t) == PopCall(t) \/ PopLook(t) \/ PopEmpty(t) \/ PopCAE(t)

-----------------------------------------------------------------------------
\* create_stack: empty sub-stacks.
Init ==
    /\ array = [i \in Index |-> NULL]
    /\ next = <<>>
    /\ local = [t \in Threads |-> NoLocals]
    /\ pc = [t \in Threads |-> "idle"]
    /\ ops = [t \in Threads |-> 0]

Finished ==
    /\ \A t \in Threads : pc[t] = "idle" /\ ops[t] = MaxOps
    /\ UNCHANGED vars

Next == (\E t \in Threads : Push(t) \/ Pop(t)) \/ Finished

Spec == Init /\ [][Next]_vars

-----------------------------------------------------------------------------
Content(i) == ListFrom[array[i]]
=============================================================================
