------------------------------ MODULE MCElastic -----------------------------
(***************************************************************************)
(* The two elastic queues for TLC: a behaviour is one of the designs, and  *)
(* the variables of the other stay as they are.                            *)
(***************************************************************************)
EXTENDS ElasticQueue

CONSTANTS
    t1, t2,
    Designs,                      \* which designs a run has
    LawDepths, LpwDepths,         \* depths of each
    LawProducers, LawConsumers    \* roles in Lateral-as-Window

VARIABLES design, lateral, global_PWindow, global_GWindow

windows == <<global_PWindow, global_GWindow>>
vars == <<design, lateral, windows, shared, th>>

LaW == INSTANCE QueueLaW WITH Depths <- LawDepths, Producers <- LawProducers, Consumers <- LawConsumers
LpW == INSTANCE QueueLpW WITH Depths <- LpwDepths

Init ==
    /\ design \in Designs
    /\ \/ design = "law" /\ LaW!Init /\ global_PWindow = <<>> /\ global_GWindow = <<>>
       \/ design = "lpw" /\ LpW!Init

Next ==
    \/ design = "law" /\ LaW!Next /\ UNCHANGED <<design, windows>>
    \/ design = "lpw" /\ LpW!Next /\ UNCHANGED design

Spec == Init /\ [][Next]_vars

(***************************************************************************)
(* One schedule of Lateral-as-Window, with the width changed and changed   *)
(* back.  t1 runs Program; t2 dequeues three times after its second        *)
(* operation, takes a step only between two operations of t1, and sleeps   *)
(* from the end of its last get_window until t1 is behind both updates.    *)
(***************************************************************************)
Program ==
    <<"put_enter", "put_enter", "put_enter", "put_enter", "put_enter",
      "get_enter", "get_enter", "put_enter", "get_enter">>

Calls(t) == th'[t].ops # th[t].ops

Schedule ==
    /\ Calls(t1) =>
          /\ th'[t1].pc = Program[th'[t1].ops]
          /\ th[t1].ops >= 2 => th[t2].ops = 3
          /\ th[t1].ops \in 2 .. 4 => At(t2, "get_return")
    /\ th'[t2] # th[t2] => At(t1, "idle")
    /\ Calls(t2) => th[t1].ops = 2 /\ th'[t2].ops <= 3
    /\ set' # set => At(t1, "idle") /\ th[t1].ops = set.updates + 2

ScheduleSpec == Init /\ [][Next /\ Schedule]_vars

-----------------------------------------------------------------------------
\* No tail count is above the put window.  In Lateral-as-Window a window that
\* was left behind is full besides: every sub-queue of its width reached its max
\* before the shift.
PutRows == IF design = "law" THEN LaW!PutRows ELSE LpW!PutRows

\* Lateral-plus-Window: the lateral records each change of width once, in the
\* order of the rows, although every thread that sees the change tries to.
LateralSorted == design = "lpw" => LpW!LateralSorted

\* Lateral-plus-Window, "Since the window is not empty, it must be possible to
\* shift up": a get window that will be installed is above the one it replaces.
ShiftUp == design = "lpw" => LpW!ShiftUp
=============================================================================
