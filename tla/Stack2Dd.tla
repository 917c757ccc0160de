------------------------------ MODULE Stack2Dd ------------------------------
(***************************************************************************)
(* The static decoupled 2D stack, src/2Dd-stack/2Dd-stack.c, on top of the *)
(* decoupled window.  One array plays the parts of put_array and           *)
(* get_array: a descriptor is the top node of a sub-stack and the numbers  *)
(* of pushes and pops made there, and is replaced by a compare-exchange on *)
(* all of it.  The put window bounds the pushes, the get window the pops.  *)
(*                                                                         *)
(* Nodes are as in Stack2Dc: a node is the stamp it gets when it is pushed *)
(* and 0 is NULL.  The two counts are 32 bits wide and next to each other, *)
(* so a copy of a descriptor is two loads, the node and the counts.        *)
(***************************************************************************)
EXTENDS Integers, Sequences, FiniteSets

CONSTANTS
    Threads, Width, Depth, RandomHops, PutReadOrders, GetReadOrders,  \* of the window
    Pushers,       \* threads that call push
    Poppers,       \* threads that call pop
    MaxOps,        \* bound on the operations of each thread
    CountModulus   \* the counts wrap around, the windows do not

VARIABLES
    array,                           \* set->put_array and set->get_array
    global_PWindow, global_GWindow, thread_PWindow, thread_GWindow, thread_index,
    contention, hops, random, notempty, put_descriptor, get_descriptor, put_count,
    pc,                              \* so far, the variables of the window
    next,                            \* next pointers of the nodes pushed so far
    linear_clone,                    \* the strict list of the relaxation analysis
    ops                              \* operations started by each thread

Window == INSTANCE Window2Dd WITH put_array <- array, get_array <- array

local == <<thread_PWindow, thread_GWindow, thread_index, hops, random, notempty, put_count>>
vars == <<array, global_PWindow, global_GWindow, local, contention, put_descriptor,
          get_descriptor, pc, next, linear_clone, ops>>

NULL == 0
NoDescriptor == [node |-> NULL, put_count |-> 0, get_count |-> 0]
NextStamp == Len(next) + 1
Succ(count) == (count + 1) % CountModulus

-----------------------------------------------------------------------------
Call(t, entry) ==
    /\ Window!Goto(t, "idle", entry)
    /\ ops[t] < MaxOps[t]
    /\ ops' = [ops EXCEPT ![t] = @ + 1]
    /\ UNCHANGED <<array, global_PWindow, global_GWindow, local, contention,
                   put_descriptor, get_descriptor, next, linear_clone>>

\* Locals at the return of an operation.
Leave(t, from) ==
    /\ Window!Goto(t, from, "idle")
    /\ contention' = [contention EXCEPT ![t] = 0]
    /\ put_descriptor' = [put_descriptor EXCEPT ![t] = NoDescriptor]
    /\ get_descriptor' = [get_descriptor EXCEPT ![t] = NoDescriptor]
    /\ UNCHANGED <<global_PWindow, global_GWindow, local, ops>>

\* Mutant of Unchanged: the number of pops is not compared.
UnchangedButPops(t, descriptor) ==
    /\ array[thread_index[t]].node = descriptor.node
    /\ array[thread_index[t]].put_count = descriptor.put_count

\* The compare-exchange of do_cae would succeed.
Unchanged(t, descriptor) == array[thread_index[t]] = descriptor

\* do_cae failed: search again from a random sub-stack.
Contended(t, from, entry) ==
    /\ Window!Goto(t, from, entry)
    /\ contention' = [contention EXCEPT ![t] = 1]
    /\ UNCHANGED <<array, global_PWindow, global_GWindow, local, put_descriptor,
                   get_descriptor, next, linear_clone, ops>>

PushCall(t) == t \in Pushers /\ Call(t, "put_window")

PushCAE(t) ==
    /\ Leave(t, "put_return")
    /\ Unchanged(t, put_descriptor[t])
    /\ array' = [array EXCEPT ![thread_index[t]] =
                    [put_descriptor[t] EXCEPT !.node = NextStamp, !.put_count = Succ(@)]]
    /\ next' = Append(next, put_descriptor[t].node)
    /\ linear_clone' = linear_clone \cup {NextStamp}

PushFails(t) ==
    ~Unchanged(t, put_descriptor[t]) /\ Contended(t, "put_return", "put_window")

Push(t) == PushCall(t) \/ PushCAE(t) \/ PushFails(t)

PopCall(t) == t \in Poppers /\ Call(t, "get_window")

PopEmpty(t) ==
    /\ Leave(t, "get_return")
    /\ get_descriptor[t].node = NULL
    /\ UNCHANGED <<array, next, linear_clone>>

PopCAE(t) ==
    /\ Leave(t, "get_return")
    /\ get_descriptor[t].node # NULL
    /\ Unchanged(t, get_descriptor[t])
    /\ array' = [array EXCEPT ![thread_index[t]] =
                    [get_descriptor[t] EXCEPT !.node = next[@], !.get_count = Succ(@)]]
    /\ linear_clone' = linear_clone \ {get_descriptor[t].node}
    /\ UNCHANGED next

PopFails(t) ==
    /\ get_descriptor[t].node # NULL
    /\ ~Unchanged(t, get_descriptor[t])
    /\ Contended(t, "get_return", "get_window")

Pop(t) == PopCall(t) \/ PopEmpty(t) \/ PopCAE(t) \/ PopFails(t)

-----------------------------------------------------------------------------
\* create_stack: empty sub-stacks.  initialize_global_window is not called: the
\* windows are zero, and the first operations have to shift them.
Init ==
    /\ array = [i \in Window!Index |-> NoDescriptor]
    /\ global_PWindow = 0 /\ global_GWindow = 0
    /\ thread_PWindow = [t \in Threads |-> 0]
    /\ thread_GWindow = [t \in Threads |-> 0]
    /\ thread_index = [t \in Threads |-> 0]
    /\ contention = [t \in Threads |-> 0]
    /\ hops = [t \in Threads |-> 0]
    /\ random = [t \in Threads |-> 0]
    /\ notempty = [t \in Threads |-> 0]
    /\ put_count = [t \in Threads |-> 0]
    /\ put_descriptor = [t \in Threads |-> NoDescriptor]
    /\ get_descriptor = [t \in Threads |-> NoDescriptor]
    /\ pc = [t \in Threads |-> "idle"]
    /\ next = <<>>
    /\ linear_clone = {}
    /\ ops = [t \in Threads |-> 0]

WindowStep(t) ==
    /\ Window!PutWindow(t) \/ Window!GetWindow(t)
    /\ UNCHANGED <<next, linear_clone, ops>>

ThreadStep(t) == WindowStep(t) \/ Push(t) \/ Pop(t)

\* Every thread has returned from its last operation.
Finished ==
    /\ \A t \in Threads : pc[t] = "idle" /\ ops[t] = MaxOps[t]
    /\ UNCHANGED vars

Next == (\E t \in Threads : ThreadStep(t)) \/ Finished

Spec == Init /\ [][Next]_vars

-----------------------------------------------------------------------------
\* The nodes reachable from node n.
Below[n \in 0 .. Len(next)] ==
    IF n = NULL THEN {} ELSE {n} \cup Below[next[n]]

\* The put window bounds the pushes of every sub-stack from above and below,
\* although it starts at zero and descriptors are read in two loads; and the
\* pushes less the pops are the nodes a sub-stack holds.  The get window has no
\* such bound: after a round that found all sub-stacks empty a pop takes what it
\* finds at the last one, inside the window or not.
PushesWithinWindow ==
    \A i \in Window!Index :
        /\ array[i].put_count <= global_PWindow
        /\ array[i].put_count + Depth >= global_PWindow
        /\ array[i].put_count - array[i].get_count = Cardinality(Below[array[i].node])

\* relaxation_bound of create_stack for k_mode 0.
RelaxationBound == 3 * Depth * (Width - 1)

\* remove_linear counts the nodes in front of the one taken, the newer ones.
Skipped(s) == Cardinality({x \in linear_clone : x > s})

\* A pop skips at most relaxation_bound newer items.
KOutOfOrder ==
    [][\A t \in Threads :
          PopCAE(t) => Skipped(get_descriptor[t].node) <= RelaxationBound]_vars
=============================================================================
