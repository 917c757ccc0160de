----------------------------- MODULE Window2Dc -----------------------------
(***************************************************************************)
(* The static coupled window, include/2Dc-window.c.  One window bounds the *)
(* counts of all sub-structures from above, for puts, and from below, for  *)
(* gets; it is shifted up when a round found them all full and down when a *)
(* round found them all below it.  A version number tells two windows with *)
(* the same maximum apart.                                                 *)
(*                                                                         *)
(* A data structure extends the module: it moves a thread to "put_window"  *)
(* or "get_window" and goes on from "put_return" or "get_return", with     *)
(* descriptor the value returned.                                          *)
(*                                                                         *)
(* One action is one access to shared memory.  A test of the version and   *)
(* the read_window or compare-exchange that follows it are one: no thread  *)
(* sleeps between the two through all the shifts it takes for a version to *)
(* come back, so a difference that was seen is still there.                *)
(***************************************************************************)
EXTENDS Integers

CONSTANTS
    Threads,     \* the threads operating on the structure
    Width,       \* number of sub-structures, set->width
    Depth,       \* window height, set->depth
    RandomHops,  \* random hops before the linear search, set->random_hops
    ReadOrders,  \* orders in which a build loads the two words of a descriptor
    VersionModulus  \* versions are unsigned integers that wrap around

ASSUME WidthAssumption == Width \in Nat \ {0}
ASSUME DepthAssumption == Depth \in Nat \ {0}
ASSUME RandomHopsAssumption == RandomHops \in Nat
ASSUME ReadOrdersAssumption == ReadOrders \subseteq {"node_first", "count_first"}
ASSUME VersionAssumption == VersionModulus \in Nat /\ VersionModulus > 1

VARIABLES
    set_array,      \* descriptors, [node, count] per sub-structure
    global_Window,  \* global_Window.content, [max, version]
    thread_Window,  \* each thread's copy of the window
    thread_index,   \* each thread's current sub-structure
    contention,     \* the contention flag of the operation in progress
    hops,           \* linear hops of the search in progress
    random,         \* random hops of the search in progress
    empty,          \* get_window has seen only empty sub-structures
    descriptor,     \* descriptor local to a search, then returned
    pc              \* where each thread is

search == <<hops, random, empty>>

Index == 0 .. Width - 1

\* Mutant of Shift: the window moves by its whole height.
ShiftWhole == Depth

\* set->shift
Shift == IF Depth \div 2 > 1 THEN Depth \div 2 ELSE 1

(***************************************************************************)
(* Where a thread can be inside the two searches.                          *)
(***************************************************************************)
PutScanning == {"put_read", "put_reread", "put_check"}
PutWindowPCs == PutScanning \cup {"put_window", "put_shift"}
GetScanning == {"get_read", "get_reread", "get_check"}
GetWindowPCs == GetScanning \cup {"get_window", "get_shift"}

Goto(t, from, to) ==
    /\ pc[t] = from
    /\ pc' = [pc EXCEPT ![t] = to]

\* A descriptor is copied by two loads: the second step of a read replaces the
\* word that the build loads last by its current value.
SecondLoad(order, old, new) ==
    IF order = "node_first" THEN [new EXCEPT !.node = old.node]
                            ELSE [old EXCEPT !.node = new.node]

\* The locals of a search at its start and when they go out of scope.
ResetSearch(t, r) ==
    /\ hops' = [hops EXCEPT ![t] = 0]
    /\ random' = [random EXCEPT ![t] = r]
    /\ empty' = [empty EXCEPT ![t] = 1]

\* Mutant of NextIndex: wraps around one index too late.
NextIndexLate(i) == IF i + 1 > Width THEN 0 ELSE i + 1

NextIndex(i) == IF i + 1 >= Width THEN 0 ELSE i + 1

RandomHop(t) ==
    /\ random[t] < RandomHops
    /\ random' = [random EXCEPT ![t] = @ + 1]
    /\ \E i \in Index : thread_index' = [thread_index EXCEPT ![t] = i]
    /\ UNCHANGED hops

LinearHop(t) ==
    /\ random[t] >= RandomHops
    /\ hops' = [hops EXCEPT ![t] = @ + 1]
    /\ thread_index' = [thread_index EXCEPT ![t] = NextIndex(@)]
    /\ UNCHANGED random

Hop(t) == RandomHop(t) \/ LinearHop(t)

\* A contended operation restarts from a random sub-structure.
MaybeRandomIndex(t) ==
    \E i \in Index :
        /\ contention[t] = 0 => i = thread_index[t]
        /\ thread_index' = [thread_index EXCEPT ![t] = i]

\* Beginning of both searches: read the global window if its version is not the
\* thread's, which is to hold the global window in either case.
Enter(t, r) ==
    /\ MaybeRandomIndex(t)
    /\ thread_Window' = [thread_Window EXCEPT ![t] = global_Window]
    /\ ResetSearch(t, r)
    /\ UNCHANGED <<set_array, global_Window, contention, descriptor>>

Read(t) ==
    /\ descriptor' = [descriptor EXCEPT ![t] = set_array[thread_index[t]]]
    /\ UNCHANGED <<set_array, global_Window, thread_Window, thread_index,
                   contention, search>>

Reread(t) ==
    /\ \E order \in ReadOrders :
          descriptor' = [descriptor EXCEPT ![t] =
                            SecondLoad(order, @, set_array[thread_index[t]])]
    /\ UNCHANGED <<set_array, global_Window, thread_Window, thread_index,
                   contention, search>>

InSync(t) == global_Window.version = thread_Window[t].version

\* The global window moved: adopt it and start the round again.
Sync(t) ==
    /\ ~InSync(t)
    /\ thread_Window' = [thread_Window EXCEPT ![t] = global_Window]
    /\ hops' = [hops EXCEPT ![t] = 0]
    /\ UNCHANGED <<set_array, global_Window, thread_index, contention, random,
                   descriptor>>

Return(t) ==
    /\ ResetSearch(t, 0)
    /\ UNCHANGED <<set_array, global_Window, thread_Window, thread_index,
                   contention, descriptor>>

ShiftedBy(w, n) ==
    [max |-> w.max + n, version |-> (w.version + 1) % VersionModulus]

(***************************************************************************)
(* The compare-exchange of the global window, with the test of the version *)
(* before it.  If it fails the window is read again; if already the test   *)
(* fails nothing happens.                                                  *)
(***************************************************************************)
TryShift(t, n) ==
    \/ /\ global_Window = thread_Window[t]
       /\ global_Window' = ShiftedBy(thread_Window[t], n)
       /\ thread_Window' = [thread_Window EXCEPT ![t] = ShiftedBy(@, n)]
    \/ /\ global_Window # thread_Window[t]
       /\ thread_Window' = [thread_Window EXCEPT ![t] = global_Window]
       /\ UNCHANGED global_Window
    \/ /\ ~InSync(t)
       /\ UNCHANGED <<global_Window, thread_Window>>

-----------------------------------------------------------------------------
(***************************************************************************)
(* put_window                                                              *)
(***************************************************************************)
PutEnter(t) == Goto(t, "put_window", "put_read") /\ Enter(t, 0)

PutRead(t) == Goto(t, "put_read", "put_reread") /\ Read(t)

PutReread(t) == Goto(t, "put_reread", "put_check") /\ Reread(t)

PutSync(t) == Goto(t, "put_check", "put_read") /\ Sync(t) /\ UNCHANGED empty

\* Mutant of HasRoom: off by one, the top row of the window is never used.
HasRoomLess(t) == descriptor[t].count + 1 < thread_Window[t].max

HasRoom(t) == descriptor[t].count < thread_Window[t].max

PutReturn(t) ==
    /\ Goto(t, "put_check", "put_return")
    /\ InSync(t)
    /\ HasRoom(t)
    /\ Return(t)

PutHop(t) ==
    /\ Goto(t, "put_check", "put_read")
    /\ InSync(t)
    /\ ~HasRoom(t)
    /\ hops[t] # Width
    /\ Hop(t)
    /\ UNCHANGED <<set_array, global_Window, thread_Window, contention, empty,
                   descriptor>>

\* Mutant of PutExhausted: the window is shifted up before the round is over.
PutExhaustedEarly(t) ==
    /\ Goto(t, "put_check", "put_shift")
    /\ InSync(t)
    /\ ~HasRoom(t)
    /\ UNCHANGED <<set_array, global_Window, thread_Window, thread_index,
                   contention, search, descriptor>>

PutExhausted(t) ==
    /\ Goto(t, "put_check", "put_shift")
    /\ InSync(t)
    /\ ~HasRoom(t)
    /\ hops[t] = Width
    /\ UNCHANGED <<set_array, global_Window, thread_Window, thread_index,
                   contention, search, descriptor>>

PutShift(t) ==
    /\ Goto(t, "put_shift", "put_read")
    /\ TryShift(t, Shift)
    /\ hops' = [hops EXCEPT ![t] = 0]
    /\ UNCHANGED <<set_array, thread_index, contention, random, empty, descriptor>>

PutWindow(t) ==
    \/ PutEnter(t) \/ PutRead(t) \/ PutReread(t) \/ PutSync(t) \/ PutReturn(t)
    \/ PutHop(t) \/ PutExhausted(t) \/ PutShift(t)

-----------------------------------------------------------------------------
(***************************************************************************)
(* get_window                                                              *)
(***************************************************************************)
(***************************************************************************)
(* get_window passes its 16-bit random to hop as a pointer to 64 bits, so  *)
(* hop compares it together with whatever follows it in the stack frame:   *)
(* depending on that, a call makes its random hops or none.                *)
(***************************************************************************)
GetEnter(t) ==
    /\ Goto(t, "get_window", "get_read")
    /\ \E r \in {0, RandomHops} : Enter(t, r)

GetRead(t) == Goto(t, "get_read", "get_reread") /\ Read(t)

GetReread(t) == Goto(t, "get_reread", "get_check") /\ Reread(t)

GetSync(t) ==
    /\ Goto(t, "get_check", "get_read")
    /\ Sync(t)
    /\ empty' = [empty EXCEPT ![t] = 1]

\* Mutant of InWindow: off by one, the lowest row of the window is outside.
InWindowLate(t) == descriptor[t].count + Depth > thread_Window[t].max + 1

\* Mutant of InWindow: off by one, the row below the window is inside.
InWindowEarly(t) == descriptor[t].count + Depth >= thread_Window[t].max

InWindow(t) == descriptor[t].count + Depth > thread_Window[t].max

GetReturn(t) ==
    /\ Goto(t, "get_check", "get_return")
    /\ InSync(t)
    /\ InWindow(t)
    /\ Return(t)

\* Mutant of GetHop: a sub-structure that is not empty is not remembered.
GetHopForgets(t) ==
    /\ Goto(t, "get_check", "get_read")
    /\ InSync(t)
    /\ ~InWindow(t)
    /\ hops[t] # Width
    /\ Hop(t)
    /\ UNCHANGED <<set_array, global_Window, thread_Window, contention, empty,
                   descriptor>>

GetHop(t) ==
    /\ Goto(t, "get_check", "get_read")
    /\ InSync(t)
    /\ ~InWindow(t)
    /\ hops[t] # Width
    /\ empty' = [empty EXCEPT ![t] = IF descriptor[t].count > 0 THEN 0 ELSE @]
    /\ Hop(t)
    /\ UNCHANGED <<set_array, global_Window, thread_Window, contention, descriptor>>

\* Mutant of GetExhausted: one sub-structure below the window is enough
\* to shift it down.
GetExhaustedEarly(t) ==
    /\ Goto(t, "get_check", "get_shift")
    /\ InSync(t)
    /\ ~InWindow(t)
    /\ descriptor[t].count > 0 \/ (hops[t] = Width /\ empty[t] = 0)
    /\ UNCHANGED <<set_array, global_Window, thread_Window, thread_index,
                   contention, search, descriptor>>

GetExhausted(t) ==
    /\ Goto(t, "get_check", "get_shift")
    /\ InSync(t)
    /\ ~InWindow(t)
    /\ hops[t] = Width
    /\ empty[t] = 0
    /\ UNCHANGED <<set_array, global_Window, thread_Window, thread_index,
                   contention, search, descriptor>>

\* A whole round saw only empty sub-structures.
GetEmpty(t) ==
    /\ Goto(t, "get_check", "get_return")
    /\ InSync(t)
    /\ ~InWindow(t)
    /\ hops[t] = Width
    /\ empty[t] = 1
    /\ Return(t)

\* The window is not shifted below its own height.
RoomBelow(t) == thread_Window[t].max - Shift >= Depth

GetShift(t) ==
    /\ Goto(t, "get_shift", "get_read")
    /\ IF RoomBelow(t) THEN TryShift(t, -Shift)
                       ELSE UNCHANGED <<global_Window, thread_Window>>
    /\ hops' = [hops EXCEPT ![t] = 0]
    /\ empty' = [empty EXCEPT ![t] = 1]
    /\ UNCHANGED <<set_array, thread_index, contention, random, descriptor>>

GetWindow(t) ==
    \/ GetEnter(t) \/ GetRead(t) \/ GetReread(t) \/ GetSync(t) \/ GetReturn(t)
    \/ GetHop(t) \/ GetExhausted(t) \/ GetEmpty(t) \/ GetShift(t)

-----------------------------------------------------------------------------
\* initialize_global_window; a thread's own window starts zeroed and is read
\* on first use because its version differs.
InitWindow ==
    /\ global_Window = [max |-> Depth, version |-> 1]
    /\ thread_Window = [t \in Threads |-> [max |-> 0, version |-> 0]]
    /\ thread_index = [t \in Threads |-> 0]
    /\ contention = [t \in Threads |-> 0]
    /\ hops = [t \in Threads |-> 0]
    /\ random = [t \in Threads |-> 0]
    /\ empty = [t \in Threads |-> 1]
=============================================================================
