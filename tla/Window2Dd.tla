----------------------------- MODULE Window2Dd -----------------------------
(***************************************************************************)
(* The static decoupled window, include/2Dd-window.c.  A put window and a  *)
(* get window, each a single monotone maximum, say how far the sub-        *)
(* structures may be pushed and popped.  put_window and get_window search  *)
(* for a sub-structure inside the window, hopping from one to the next,    *)
(* and shift the window when a whole round found none.                     *)
(*                                                                         *)
(* The module holds the two shared windows, the descriptor arrays they     *)
(* are compared with, and the thread-local state of the two searches.  A   *)
(* data structure extends it: it calls put_window by moving a thread to    *)
(* "put_window" and goes on from "put_return", with put_descriptor the     *)
(* value returned; likewise "get_window" and "get_return".                 *)
(*                                                                         *)
(* One action is one access to shared memory, except that two reads of a   *)
(* window of which only the later can matter are one (the window is        *)
(* monotone, so a first read that differs is confirmed by the second).     *)
(***************************************************************************)
EXTENDS Integers

CONSTANTS
    Threads,     \* the threads operating on the structure
    Width,       \* number of sub-structures, set->width
    Depth,       \* window height and shift, set->depth
    RandomHops,  \* random hops before the linear search, set->random_hops
    PutReadOrders,  \* orders in which put_window may load the words of a descriptor
    GetReadOrders   \* orders in which get_window and its callers may

ASSUME WidthAssumption == Width \in Nat \ {0}
ASSUME DepthAssumption == Depth \in Nat \ {0}
ASSUME RandomHopsAssumption == RandomHops \in Nat
ASSUME ReadOrdersAssumption ==
    /\ PutReadOrders \subseteq {"node_first", "count_first"}
    /\ GetReadOrders \subseteq {"node_first", "count_first"}

VARIABLES
    put_array,       \* put descriptors, [node, put_count] per sub-structure
    get_array,       \* get descriptors, [node, get_count] per sub-structure
    global_PWindow,  \* global_PWindow.content.max
    global_GWindow,  \* global_GWindow.content.max
    thread_PWindow,  \* each thread's copy of the put window
    thread_GWindow,  \* each thread's copy of the get window
    thread_index,    \* each thread's current sub-structure
    contention,      \* the contention flag of the operation in progress
    hops,            \* linear hops of the search in progress
    random,          \* random hops of the search in progress
    notempty,        \* get_window has seen a non-empty sub-structure
    put_descriptor,  \* descriptor local to put_window, then returned
    get_descriptor,  \* descriptor local to get_window, then returned
    put_count,       \* put_count local to get_window
    pc               \* where each thread is

arrays == <<put_array, get_array>>
windows == <<global_PWindow, global_GWindow>>
search == <<hops, random, notempty>>

Index == 0 .. Width - 1

(***************************************************************************)
(* Where a thread can be inside the two searches.                          *)
(***************************************************************************)
PutScanning == {"put_read", "put_reread", "put_check"}
PutWindowPCs == PutScanning \cup {"put_window", "put_shift", "put_resync"}
GetScanning == {"get_read", "get_reread", "get_count", "get_check"}
GetWindowPCs == GetScanning \cup {"get_window", "get_shift", "get_resync"}

Goto(t, from, to) ==
    /\ pc[t] = from
    /\ pc' = [pc EXCEPT ![t] = to]

(***************************************************************************)
(* A descriptor is two words copied by two loads, so a read is two steps:  *)
(* the first takes a snapshot of both words, the second replaces the word  *)
(* that the build loads last by its current value.                         *)
(***************************************************************************)
SecondLoad(order, old, new) ==
    IF order = "node_first" THEN [new EXCEPT !.node = old.node]
                            ELSE [old EXCEPT !.node = new.node]

(***************************************************************************)
(* hop: a few random hops first, then a linear search that wraps around.   *)
(* Only the linear hops are counted in hops.                               *)
(***************************************************************************)
\* Mutant of NextIndex: wraps around one index too late.
NextIndexLate(i) == IF i + 1 > Width THEN 0 ELSE i + 1

NextIndex(i) == IF i + 1 >= Width THEN 0 ELSE i + 1

\* Mutant of RandomHop: random hops count as part of the round.
RandomHopCounted(t) ==
    /\ random[t] < RandomHops
    /\ random' = [random EXCEPT ![t] = @ + 1]
    /\ \E i \in Index : thread_index' = [thread_index EXCEPT ![t] = i]
    /\ hops' = [hops EXCEPT ![t] = @ + 1]

RandomHop(t) ==
    /\ random[t] < RandomHops
    /\ random' = [random EXCEPT ![t] = @ + 1]
    /\ \E i \in Index : thread_index' = [thread_index EXCEPT ![t] = i]
    /\ UNCHANGED hops

LinearHop(t) ==
    /\ random[t] >= RandomHops
    /\ hops' = [hops EXCEPT ![t] = @ + 1]
    /\ thread_index' = [thread_index EXCEPT ![t] = NextIndex(@)]
    /\ UNCHANGED random

Hop(t) == RandomHop(t) \/ LinearHop(t)

\* The locals of a search, at its start and when they go out of scope.
ResetSearch(t) ==
    /\ hops' = [hops EXCEPT ![t] = 0]
    /\ random' = [random EXCEPT ![t] = 0]
    /\ notempty' = [notempty EXCEPT ![t] = 0]

\* A contended operation restarts from a random sub-structure.
MaybeRandomIndex(t) ==
    \E i \in Index :
        /\ contention[t] = 0 => i = thread_index[t]
        /\ thread_index' = [thread_index EXCEPT ![t] = i]

-----------------------------------------------------------------------------
(***************************************************************************)
(* put_window                                                              *)
(***************************************************************************)
PutEnter(t) ==
    /\ Goto(t, "put_window", "put_read")
    /\ MaybeRandomIndex(t)
    /\ thread_PWindow' = [thread_PWindow EXCEPT ![t] = global_PWindow]
    /\ ResetSearch(t)
    /\ UNCHANGED <<arrays, windows, thread_GWindow, contention,
                   put_descriptor, get_descriptor, put_count>>

PutRead(t) ==
    /\ Goto(t, "put_read", "put_reread")
    /\ put_descriptor' = [put_descriptor EXCEPT ![t] = put_array[thread_index[t]]]
    /\ UNCHANGED <<arrays, windows, thread_PWindow, thread_GWindow, thread_index,
                   contention, search, get_descriptor, put_count>>

PutReread(t) ==
    /\ Goto(t, "put_reread", "put_check")
    /\ \E order \in PutReadOrders :
          put_descriptor' = [put_descriptor EXCEPT ![t] =
                                SecondLoad(order, @, put_array[thread_index[t]])]
    /\ UNCHANGED <<arrays, windows, thread_PWindow, thread_GWindow, thread_index,
                   contention, search, get_descriptor, put_count>>

\* The global window moved: adopt it and start the round again.
PutSync(t) ==
    /\ Goto(t, "put_check", "put_read")
    /\ global_PWindow # thread_PWindow[t]
    /\ thread_PWindow' = [thread_PWindow EXCEPT ![t] = global_PWindow]
    /\ hops' = [hops EXCEPT ![t] = 0]
    /\ UNCHANGED <<arrays, windows, thread_GWindow, thread_index, contention,
                   random, notempty, put_descriptor, get_descriptor, put_count>>

PutValid(t) ==
    /\ global_PWindow = thread_PWindow[t]
    /\ put_descriptor[t].put_count < global_PWindow

PutReturn(t) ==
    /\ Goto(t, "put_check", "put_return")
    /\ PutValid(t)
    /\ ResetSearch(t)
    /\ UNCHANGED <<arrays, windows, thread_PWindow, thread_GWindow, thread_index,
                   contention, put_descriptor, get_descriptor, put_count>>

\* The sub-structure was read full under the thread's own window.
PutFull(t) ==
    /\ global_PWindow = thread_PWindow[t]
    /\ put_descriptor[t].put_count >= global_PWindow

PutHop(t) ==
    /\ Goto(t, "put_check", "put_read")
    /\ PutFull(t)
    /\ hops[t] # Width
    /\ Hop(t)
    /\ UNCHANGED <<arrays, windows, thread_PWindow, thread_GWindow, contention,
                   notempty, put_descriptor, get_descriptor, put_count>>

PutExhausted(t) ==
    /\ Goto(t, "put_check", "put_shift")
    /\ PutFull(t)
    /\ hops[t] = Width
    /\ UNCHANGED <<arrays, windows, thread_PWindow, thread_GWindow, thread_index,
                   contention, search, put_descriptor, get_descriptor, put_count>>

\* The equality test before the compare-exchange only avoids one that fails.
PutShift(t) ==
    /\ Goto(t, "put_shift", "put_resync")
    /\ global_PWindow' = IF global_PWindow = thread_PWindow[t]
                         THEN thread_PWindow[t] + Depth ELSE global_PWindow
    /\ UNCHANGED <<arrays, global_GWindow, thread_PWindow, thread_GWindow,
                   thread_index, contention, search, put_descriptor,
                   get_descriptor, put_count>>

PutResync(t) ==
    /\ Goto(t, "put_resync", "put_read")
    /\ thread_PWindow' = [thread_PWindow EXCEPT ![t] = global_PWindow]
    /\ hops' = [hops EXCEPT ![t] = 0]
    /\ UNCHANGED <<arrays, windows, thread_GWindow, thread_index, contention,
                   random, notempty, put_descriptor, get_descriptor, put_count>>

PutWindow(t) ==
    \/ PutEnter(t) \/ PutRead(t) \/ PutReread(t) \/ PutSync(t) \/ PutReturn(t)
    \/ PutHop(t) \/ PutExhausted(t) \/ PutShift(t) \/ PutResync(t)

-----------------------------------------------------------------------------
(***************************************************************************)
(* get_window                                                              *)
(***************************************************************************)
GetEnter(t) ==
    /\ Goto(t, "get_window", "get_read")
    /\ MaybeRandomIndex(t)
    /\ thread_GWindow' = [thread_GWindow EXCEPT ![t] = global_GWindow]
    /\ ResetSearch(t)
    /\ UNCHANGED <<arrays, windows, thread_PWindow, contention,
                   put_descriptor, get_descriptor, put_count>>

GetRead(t) ==
    /\ Goto(t, "get_read", "get_reread")
    /\ get_descriptor' = [get_descriptor EXCEPT ![t] = get_array[thread_index[t]]]
    /\ UNCHANGED <<arrays, windows, thread_PWindow, thread_GWindow, thread_index,
                   contention, search, put_descriptor, put_count>>

GetReread(t) ==
    /\ Goto(t, "get_reread", "get_count")
    /\ \E order \in GetReadOrders :
          get_descriptor' = [get_descriptor EXCEPT ![t] =
                                SecondLoad(order, @, get_array[thread_index[t]])]
    /\ UNCHANGED <<arrays, windows, thread_PWindow, thread_GWindow, thread_index,
                   contention, search, put_descriptor, put_count>>

GetReadPutCount(t) ==
    /\ Goto(t, "get_count", "get_check")
    /\ put_count' = [put_count EXCEPT ![t] = put_array[thread_index[t]].put_count]
    /\ UNCHANGED <<arrays, windows, thread_PWindow, thread_GWindow, thread_index,
                   contention, search, put_descriptor, get_descriptor>>

GetSync(t) ==
    /\ Goto(t, "get_check", "get_read")
    /\ global_GWindow # thread_GWindow[t]
    /\ thread_GWindow' = [thread_GWindow EXCEPT ![t] = global_GWindow]
    /\ hops' = [hops EXCEPT ![t] = 0]
    /\ notempty' = [notempty EXCEPT ![t] = 0]
    /\ UNCHANGED <<arrays, windows, thread_PWindow, thread_index, contention,
                   random, put_descriptor, get_descriptor, put_count>>

SeenNonEmpty(t) == put_count[t] # get_descriptor[t].get_count

\* Mutant of GetValid: any sub-structure that is not empty will do.
GetValidAnywhere(t) ==
    /\ global_GWindow = thread_GWindow[t]
    /\ SeenNonEmpty(t)

GetValid(t) ==
    /\ global_GWindow = thread_GWindow[t]
    /\ get_descriptor[t].get_count < global_GWindow
    /\ SeenNonEmpty(t)

\* The sub-structure was read empty, or at the edge of the window.
GetInvalid(t) ==
    /\ global_GWindow = thread_GWindow[t]
    /\ get_descriptor[t].get_count < global_GWindow => ~SeenNonEmpty(t)

\* The locals of get_window go out of scope, except the descriptor returned.
GetLeave(t) ==
    /\ ResetSearch(t)
    /\ put_count' = [put_count EXCEPT ![t] = 0]
    /\ UNCHANGED <<arrays, windows, thread_PWindow, thread_GWindow, thread_index,
                   contention, put_descriptor, get_descriptor>>

GetReturn(t) ==
    /\ Goto(t, "get_check", "get_return")
    /\ GetValid(t)
    /\ GetLeave(t)

\* Mutant of GetHop: a non-empty sub-structure at the edge is not remembered.
GetHopForgets(t) ==
    /\ Goto(t, "get_check", "get_read")
    /\ GetInvalid(t)
    /\ hops[t] # Width
    /\ Hop(t)
    /\ UNCHANGED <<arrays, windows, thread_PWindow, thread_GWindow, contention,
                   notempty, put_descriptor, get_descriptor, put_count>>

GetHop(t) ==
    /\ Goto(t, "get_check", "get_read")
    /\ GetInvalid(t)
    /\ hops[t] # Width
    /\ notempty' = [notempty EXCEPT ![t] = IF SeenNonEmpty(t) THEN 1 ELSE @]
    /\ Hop(t)
    /\ UNCHANGED <<arrays, windows, thread_PWindow, thread_GWindow, contention,
                   put_descriptor, get_descriptor, put_count>>

\* Mutant of GetExhausted: shifts whether or not anything is left to get.
GetExhaustedAnyway(t) ==
    /\ Goto(t, "get_check", "get_shift")
    /\ GetInvalid(t)
    /\ hops[t] = Width
    /\ UNCHANGED <<arrays, windows, thread_PWindow, thread_GWindow, thread_index,
                   contention, search, put_descriptor, get_descriptor, put_count>>

GetExhausted(t) ==
    /\ Goto(t, "get_check", "get_shift")
    /\ GetInvalid(t)
    /\ hops[t] = Width
    /\ notempty[t] = 1
    /\ UNCHANGED <<arrays, windows, thread_PWindow, thread_GWindow, thread_index,
                   contention, search, put_descriptor, get_descriptor, put_count>>

\* A whole round saw only empty sub-structures: the last descriptor is returned
\* whatever it says.
GetEmpty(t) ==
    /\ Goto(t, "get_check", "get_return")
    /\ GetInvalid(t)
    /\ hops[t] = Width
    /\ notempty[t] = 0
    /\ GetLeave(t)

GetShift(t) ==
    /\ Goto(t, "get_shift", "get_resync")
    /\ global_GWindow' = IF global_GWindow = thread_GWindow[t]
                         THEN thread_GWindow[t] + Depth ELSE global_GWindow
    /\ UNCHANGED <<arrays, global_PWindow, thread_PWindow, thread_GWindow,
                   thread_index, contention, search, put_descriptor,
                   get_descriptor, put_count>>

GetResync(t) ==
    /\ Goto(t, "get_resync", "get_read")
    /\ thread_GWindow' = [thread_GWindow EXCEPT ![t] = global_GWindow]
    /\ hops' = [hops EXCEPT ![t] = 0]
    /\ notempty' = [notempty EXCEPT ![t] = 0]
    /\ UNCHANGED <<arrays, windows, thread_PWindow, thread_index, contention,
                   random, put_descriptor, get_descriptor, put_count>>

GetWindow(t) ==
    \/ GetEnter(t) \/ GetRead(t) \/ GetReread(t) \/ GetReadPutCount(t)
    \/ GetSync(t) \/ GetReturn(t) \/ GetHop(t) \/ GetExhausted(t)
    \/ GetEmpty(t) \/ GetShift(t) \/ GetResync(t)

-----------------------------------------------------------------------------
\* initialize_global_window, and the zero-initialised thread-local variables.
InitWindow ==
    /\ global_PWindow = Depth
    /\ global_GWindow = Depth
    /\ thread_PWindow = [t \in Threads |-> 0]
    /\ thread_GWindow = [t \in Threads |-> 0]
    /\ thread_index = [t \in Threads |-> 0]
    /\ contention = [t \in Threads |-> 0]
    /\ hops = [t \in Threads |-> 0]
    /\ random = [t \in Threads |-> 0]
    /\ notempty = [t \in Threads |-> 0]
    /\ put_count = [t \in Threads |-> 0]
=============================================================================
