----------------------------- MODULE Counter2Dc -----------------------------
(***************************************************************************)
(* The static coupled 2D counter, src/2Dc-counter/2Dc-counter.c, on top of *)
(* the coupled window.  A descriptor is one word, the count of its         *)
(* sub-counter; the window's field node is unused, so that a read "count   *)
(* first" is the single load.                                              *)
(*                                                                         *)
(* create_counter gives the window version 0, which is also the version of *)
(* a thread's zeroed copy.  A thread therefore does not read the window on *)
(* its first operation, and works with max = 0 until the window is shifted *)
(* or its own shift fails.                                                 *)
(***************************************************************************)
EXTENDS Integers, Sequences, FiniteSets

CONSTANTS
    Threads, Width, Depth, RandomHops, VersionModulus,  \* of the window
    MaxOps   \* bound on the operations of each thread

VARIABLES
    set_array, global_Window, thread_Window, thread_index, contention, hops, random,
    empty, descriptor, pc,   \* of the window
    ops

Window == INSTANCE Window2Dc WITH ReadOrders <- {"count_first"}

search == <<hops, random, empty>>
vars == <<set_array, global_Window, thread_Window, thread_index, contention, search,
          descriptor, pc, ops>>

NoDescriptor == [node |-> 0, count |-> 0]

-----------------------------------------------------------------------------
\* The searches begin with the test of the version, which Window2Dc leaves out.
Enter(t, from, to, r) ==
    /\ Window!Goto(t, from, to)
    /\ Window!MaybeRandomIndex(t)
    /\ thread_Window' = [thread_Window EXCEPT ![t] = IF Window!InSync(t) THEN @
                                                     ELSE global_Window]
    /\ Window!ResetSearch(t, r)
    /\ UNCHANGED <<set_array, global_Window, contention, descriptor>>

PutWindow(t) ==
    \/ Enter(t, "put_window", "put_read", 0)
    \/ Window!PutRead(t) \/ Window!PutReread(t) \/ Window!PutSync(t)
    \/ Window!PutReturn(t) \/ Window!PutHop(t) \/ Window!PutExhausted(t)
    \/ Window!PutShift(t)

GetWindow(t) ==
    \/ \E r \in {0, RandomHops} : Enter(t, "get_window", "get_read", r)
    \/ Window!GetRead(t) \/ Window!GetReread(t) \/ Window!GetSync(t)
    \/ Window!GetReturn(t) \/ Window!GetHop(t) \/ Window!GetExhausted(t)
    \/ Window!GetEmpty(t) \/ Window!GetShift(t)

-----------------------------------------------------------------------------
Call(t, entry) ==
    /\ Window!Goto(t, "idle", entry)
    /\ ops[t] < MaxOps[t]
    /\ ops' = [ops EXCEPT ![t] = @ + 1]
    /\ UNCHANGED <<set_array, global_Window, thread_Window, thread_index, contention,
                   search, descriptor>>

\* Locals at the return of an operation.
Leave(t, from) ==
    /\ Window!Goto(t, from, "idle")
    /\ contention' = [contention EXCEPT ![t] = 0]
    /\ descriptor' = [descriptor EXCEPT ![t] = NoDescriptor]
    /\ UNCHANGED <<global_Window, thread_Window, thread_index, search, ops>>

\* The compare-exchange that adds n: it may fail, and the search starts again
\* from a random sub-counter.
Add(t, n, from, entry) ==
    \/ /\ Leave(t, from)
       /\ set_array[thread_index[t]] = descriptor[t]
       /\ set_array' = [set_array EXCEPT ![thread_index[t]].count = descriptor[t].count + n]
    \/ /\ Window!Goto(t, from, entry)
       /\ set_array[thread_index[t]] # descriptor[t]
       /\ contention' = [contention EXCEPT ![t] = 1]
       /\ UNCHANGED <<set_array, global_Window, thread_Window, thread_index, search,
                      descriptor, ops>>

Increment(t) == Call(t, "put_window") \/ Add(t, 1, "put_return", "put_window")

DecrementZero(t) ==
    /\ Leave(t, "get_return")
    /\ descriptor[t].count = 0
    /\ UNCHANGED set_array

Decrement(t) ==
    \/ Call(t, "get_window")
    \/ descriptor[t].count > 0 /\ Add(t, -1, "get_return", "get_window")
    \/ DecrementZero(t)

-----------------------------------------------------------------------------
\* create_counter.
Init ==
    /\ set_array = [i \in Window!Index |-> NoDescriptor]
    /\ global_Window = [max |-> Depth, version |-> 0]
    /\ thread_Window = [t \in Threads |-> [max |-> 0, version |-> 0]]
    /\ thread_index = [t \in Threads |-> 0]
    /\ contention = [t \in Threads |-> 0]
    /\ hops = [t \in Threads |-> 0]
    /\ random = [t \in Threads |-> 0]
    /\ empty = [t \in Threads |-> 1]
    /\ descriptor = [t \in Threads |-> NoDescriptor]
    /\ pc = [t \in Threads |-> "idle"]
    /\ ops = [t \in Threads |-> 0]

ThreadStep(t) ==
    \/ (PutWindow(t) \/ GetWindow(t)) /\ UNCHANGED ops
    \/ Increment(t) \/ Decrement(t)

\* Every thread has returned from its last operation.
Finished ==
    /\ \A t \in Threads : pc[t] = "idle" /\ ops[t] = MaxOps[t]
    /\ UNCHANGED vars

Next == (\E t \in Threads : ThreadStep(t)) \/ Finished

Spec == Init /\ [][Next]_vars

-----------------------------------------------------------------------------
\* "empty sub-structures will be skipped at this point because
\* (global_Window.content.max - set->depth) cannot go bellow zero": the thread's
\* copy, which is what is compared, is that of a thread that never read the
\* window, and get_window hands it an empty sub-counter; nobody else gets one.
EmptyOnlyToFresh ==
    [][\A t \in Threads :
          (Window!GetReturn(t) /\ descriptor[t].count = 0) => thread_Window[t].max = 0]_vars
=============================================================================
