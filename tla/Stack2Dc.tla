------------------------------ MODULE Stack2Dc ------------------------------
(***************************************************************************)
(* The static coupled 2D stack, src/2Dc-stack/2Dc-stack.c, on top of the   *)
(* coupled window.  Every sub-stack is a Treiber stack whose top pointer   *)
(* carries a count and is replaced by a compare-exchange on both words.    *)
(*                                                                         *)
(* A node is the stamp it gets when it is pushed (the build with           *)
(* RELAXATION_ANALYSIS stores it as the value), next[n] is its next        *)
(* pointer and 0 is NULL.  A node is private before it is pushed and its   *)
(* next pointer does not change afterwards, so both are set in the step    *)
(* that pushes it.  Nodes are not reused: the epoch-based allocator        *)
(* (SSMEM, external) keeps a node while an operation may hold it.          *)
(***************************************************************************)
EXTENDS Window2Dc, Sequences, FiniteSets

CONSTANTS
    Pushers,     \* threads that call push
    Poppers,     \* threads that call pop
    MaxOps,      \* bound on the operations of one thread
    Scheduled    \* threads that are never suspended for ever

ASSUME RolesAssumption == Pushers \subseteq Threads /\ Poppers \subseteq Threads
ASSUME ScheduledAssumption == Scheduled \subseteq Threads
ASSUME MaxOpsAssumption == MaxOps \in [Threads -> Nat]

VARIABLES
    next,          \* next pointers of the nodes pushed so far
    linear_clone,  \* stamps in the strict list of the relaxation analysis
    ops,           \* operations started by each thread
    present        \* auxiliary: what the stack held when a pop began

windowVars == <<set_array, global_Window, thread_Window, thread_index,
                contention, search, descriptor>>
stackVars == <<next, linear_clone, ops, present>>
vars == <<windowVars, pc, stackVars>>

NULL == 0
NoDescriptor == [node |-> NULL, count |-> 0]

\* gen_relaxation_count: the stamp of the next node to be pushed.
NextStamp == Len(next) + 1

\* remove_linear counts the nodes in front of the one it takes out, which for
\* a stack are the newer ones.
Skipped(s) == Cardinality({x \in linear_clone : x > s})

-----------------------------------------------------------------------------
Call(t, entry) ==
    /\ Goto(t, "idle", entry)
    /\ ops[t] < MaxOps[t]
    /\ ops' = [ops EXCEPT ![t] = @ + 1]
    /\ UNCHANGED <<windowVars, next, linear_clone>>

\* Locals at the return of an operation.
Leave(t) ==
    /\ contention' = [contention EXCEPT ![t] = 0]
    /\ descriptor' = [descriptor EXCEPT ![t] = NoDescriptor]
    /\ present' = [present EXCEPT ![t] = {}]
    /\ UNCHANGED <<global_Window, thread_Window, thread_index, search, ops>>

\* Mutant of Unchanged: only the counts are compared.
SameCount(t) == set_array[thread_index[t]].count = descriptor[t].count

\* The compare-exchange of stack_cae would succeed: both words are as read.
Unchanged(t) == set_array[thread_index[t]] = descriptor[t]

\* stack_cae failed: search again from a random sub-stack.
Contended(t, entry) ==
    /\ ~Unchanged(t)
    /\ pc' = [pc EXCEPT ![t] = entry]
    /\ contention' = [contention EXCEPT ![t] = 1]
    /\ UNCHANGED <<set_array, global_Window, thread_Window, thread_index, search,
                   descriptor, stackVars>>

(***************************************************************************)
(* push                                                                    *)
(***************************************************************************)
PushCall(t) ==
    /\ t \in Pushers
    /\ Call(t, "put_window")
    /\ UNCHANGED present

PushCAE(t) ==
    /\ Goto(t, "put_return", "idle")
    /\ Unchanged(t)
    /\ set_array' = [set_array EXCEPT ![thread_index[t]] =
                        [node |-> NextStamp, count |-> descriptor[t].count + 1]]
    /\ next' = Append(next, descriptor[t].node)
    /\ linear_clone' = linear_clone \cup {NextStamp}
    /\ Leave(t)

PushFails(t) == pc[t] = "put_return" /\ Contended(t, "put_window")

Push(t) == PushCall(t) \/ PushCAE(t) \/ PushFails(t)

(***************************************************************************)
(* pop                                                                     *)
(***************************************************************************)
PopCall(t) ==
    /\ t \in Poppers
    /\ Call(t, "get_window")
    /\ present' = [present EXCEPT ![t] = linear_clone]

PopEmpty(t) ==
    /\ Goto(t, "get_return", "idle")
    /\ descriptor[t].node = NULL
    /\ Leave(t)
    /\ UNCHANGED <<set_array, next, linear_clone>>

PopCAE(t) ==
    /\ Goto(t, "get_return", "idle")
    /\ descriptor[t].node # NULL
    /\ Unchanged(t)
    /\ set_array' = [set_array EXCEPT ![thread_index[t]] =
                        [node |-> next[descriptor[t].node],
                         count |-> descriptor[t].count - 1]]
    /\ linear_clone' = linear_clone \ {descriptor[t].node}
    /\ Leave(t)
    /\ UNCHANGED next

PopFails(t) ==
    /\ pc[t] = "get_return"
    /\ descriptor[t].node # NULL
    /\ Contended(t, "get_window")

Pop(t) == PopCall(t) \/ PopEmpty(t) \/ PopCAE(t) \/ PopFails(t)

-----------------------------------------------------------------------------
\* create_stack: empty sub-stacks.
Init ==
    /\ InitWindow
    /\ set_array = [i \in Index |-> NoDescriptor]
    /\ descriptor = [t \in Threads |-> NoDescriptor]
    /\ pc = [t \in Threads |-> "idle"]
    /\ next = <<>>
    /\ linear_clone = {}
    /\ ops = [t \in Threads |-> 0]
    /\ present = [t \in Threads |-> {}]

WindowStep(t) ==
    /\ PutWindow(t) \/ GetWindow(t)
    /\ UNCHANGED stackVars

ThreadStep(t) == WindowStep(t) \/ Push(t) \/ Pop(t)

\* Every thread has returned from its last operation.
Finished ==
    /\ \A t \in Threads :
          /\ pc[t] = "idle"
          /\ t \in Pushers \cup Poppers => ops[t] = MaxOps[t]
    /\ UNCHANGED vars

Next == (\E t \in Threads : ThreadStep(t)) \/ Finished

Spec == Init /\ [][Next]_vars

\* The operating system lets a scheduled thread inside an operation go on; the
\* others may stop for ever at any point.
Running(t) == pc[t] # "idle" /\ ThreadStep(t)

FairSpec == Spec /\ \A t \in Scheduled : WF_vars(Running(t))

-----------------------------------------------------------------------------
PCs == PutWindowPCs \cup GetWindowPCs \cup {"idle", "put_return", "get_return"}

Descriptor == [node : Nat, count : Nat]
Window == [max : Nat, version : Nat]

\* Every variable has the type its C declaration gives it, and the searches
\* never run past the array or count more hops than one round.
TypeOK ==
    /\ set_array \in [Index -> Descriptor]
    /\ global_Window \in Window
    /\ thread_Window \in [Threads -> Window]
    /\ thread_index \in [Threads -> Index]
    /\ contention \in [Threads -> {0, 1}]
    /\ hops \in [Threads -> 0 .. Width]
    /\ random \in [Threads -> 0 .. RandomHops]
    /\ empty \in [Threads -> {0, 1}]
    /\ descriptor \in [Threads -> Descriptor]
    /\ pc \in [Threads -> PCs]
    /\ next \in Seq(Nat)
    /\ linear_clone \in SUBSET Nat
    /\ ops \in [Threads -> Nat]
    /\ present \in [Threads -> SUBSET Nat]

-----------------------------------------------------------------------------
\* The nodes reachable from node n.
Below[n \in 0 .. Len(next)] ==
    IF n = NULL THEN {} ELSE {n} \cup Below[next[n]]

\* The compare-exchange on a pointer and a count keeps every sub-stack a list:
\* its length is its count, no node is in two sub-stacks, and what they hold
\* together is exactly what was pushed and not popped.
StacksWhole ==
    /\ \A i \in Index : set_array[i].count = Cardinality(Below[set_array[i].node])
    /\ \A i, j \in Index :
          i # j => Below[set_array[i].node] \cap Below[set_array[j].node] = {}
    /\ linear_clone = UNION {Below[set_array[i].node] : i \in Index}

\* A push that was checked against a window that has moved down since leaves
\* its sub-stack at most one shift above the window.
WindowCeiling ==
    \A i \in Index : set_array[i].count <= global_Window.max + Shift

\* A pop that was checked against a window that has moved up since leaves its
\* sub-stack below the window: by one shift, and by one more item for every
\* other pop, because a pop brings back the descriptor that an earlier sleeper
\* of the same sub-stack holds.
WindowFloor ==
    \A i \in Index :
        set_array[i].count + Depth + Shift + Cardinality(Poppers) - 1 >= global_Window.max

\* "Should never want to shift down below zero right": a thread about to shift
\* down finds room for it below the window it read.
NeverBelowZero == \A t \in Threads : pc[t] = "get_shift" => RoomBelow(t)

\* A round of get_window that finds every sub-stack empty is a proof: what was
\* in the stack when the pop began has been popped since.
EmptyRoundJustified ==
    [][\A t \in Threads : GetEmpty(t) => present[t] \cap linear_clone = {}]_vars

\* K = (2*shift+depth)(width-1), the bound in the comment of create_stack.
DocumentedBound == (2 * Shift + Depth) * (Width - 1)

\* A pop skips at most the documented number of newer items.
KOutOfOrder ==
    [][\A t \in Threads :
          PopCAE(t) => Skipped(descriptor[t].node) <= DocumentedBound]_vars

\* Lock-freedom: when every thread is inside an operation, some operation
\* eventually returns.
SomeReturns ==
    (\A t \in Threads : pc[t] # "idle") ~> (\E t \in Threads : pc[t] = "idle")
=============================================================================
