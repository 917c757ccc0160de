--------------------------- MODULE DriverPrograms ---------------------------
(***************************************************************************)
(* The benchmark drivers, one test program per data structure.  A driver   *)
(* is two sequences of steps: test, that every worker thread runs, and     *)
(* main, and the options that main takes.  Driver gives the steps their    *)
(* meaning, Settings the options.  What only prints, times, or pins        *)
(* threads to cores is left out.                                           *)
(*                                                                         *)
(*   attach           prepare the thread-local part of the structure       *)
(*   barrier, global  cross the barrier of the workers, or of all          *)
(*   fill             insert this worker's share of the initial elements   *)
(*   updates          operations until stop                                *)
(*   timed            the same in batches, with a timestamp after each     *)
(*   scheduled        producers work in periods, consumers until stop      *)
(*   before, size     worker 0 measures the structure                      *)
(*   fits             give up if there were too many timestamps            *)
(*   publish          write the totals of this worker                      *)
(*   options          read the command line, create the structure          *)
(*   create, join     start the workers, wait for their end                *)
(*   width, depth     ask for other dimensions                             *)
(*   elastic_depth, elastic_width    the same, from the command line       *)
(*   elastic_is       abort if they are not the dimensions now             *)
(*   put_depth        give the put windows the depth 1                     *)
(*   stop             end the loops                                        *)
(*   assert, warn     compare size and totals; abort, or print, if wrong   *)
(***************************************************************************)
EXTENDS Sequences, Settings

Do(op) == [op |-> op, times |-> 1, over |-> 1]

Steps(ops) == [i \in 1 .. Len(ops) |-> Do(ops[i])]

\* update_width(set, width*times/over), update_depth likewise.
Scale(op, times, over) == [op |-> op, times |-> times, over |-> over]

\* A driver that measures the structure at the end prints its size before, too.
Before(measure) == IF measure = <<>> THEN <<>> ELSE <<"before">>

\* Mutant: no barrier between the loop and the measurement after it.
TestUnfenced(attach, fill, loop, measure, check) ==
    Steps(attach \o <<"barrier">> \o fill \o <<"barrier">> \o Before(measure)
          \o <<"global", loop>> \o measure \o <<"barrier">> \o check
          \o <<"publish">>)

\* test: fill and measure between barriers, start together, work, stop and
\* measure between barriers again, publish.
Test(attach, fill, loop, measure, check) ==
    Steps(attach \o <<"barrier">> \o fill \o <<"barrier">> \o Before(measure)
          \o <<"global", loop, "barrier">> \o measure \o <<"barrier">> \o check
          \o <<"publish">>)

\* main: start the workers, begin with them, let them run, stop, join, check.
Main(kind, run, check) ==
    [kind |-> kind,
     steps |-> Steps(<<"options", "create", "global">>) \o run \o Steps(<<"stop", "join">> \o check)]

\* The options main takes beside those of the workload, the structure it
\* creates, and the max_width it asks for.
Options(structure, rules, max) ==
    [structure |-> structure, rules |-> Workload ++ rules, max |-> max]

\* What the drivers differ in.
Attach == <<"attach">>
Fill == <<"fill">>
Size == <<"size">>
Fits == <<"fits">>
None == <<>>

-----------------------------------------------------------------------------
\* The 2D structures with two windows or one.
test_D2c_counter == Test(None, Fill, "updates", Size, None)
options_D2c_counter == Options("counter_2Dc", TwoD, "width")
main_D2c_counter == Main("container", None, <<"assert">>)

test_D2c_deque == Test(Attach, Fill, "updates", Size, None)
options_D2c_deque == Options("other", Rules({"k", "l", "w"}, "any"), "width")
main_D2c_deque == Main("container", None, <<"assert">>)

test_D2c_stack == Test(None, Fill, "updates", Size, None)
options_D2c_stack == Options("stack_2Dc", TwoD, "width")
main_D2c_stack == Main("container", None, <<"assert">>)

test_D2c_stack_over_time == Test(None, Fill, "timed", Size, Fits)
options_D2c_stack_over_time == Options("stack_2Dc", TwoD, "width")
main_D2c_stack_over_time == Main("container", None, <<"assert">>)

test_D2d_deque == Test(Attach, Fill, "updates", Size, None)
options_D2d_deque == Options("other", Rules({"k", "l", "w"}, "any"), "width")
main_D2d_deque == Main("container", None, <<"assert">>)

test_D2d_queue_over_time == Test(None, Fill, "timed", Size, Fits)
options_D2d_queue_over_time == Options("queue_2Dd", TwoD, "width")
main_D2d_queue_over_time == Main("container", None, <<"assert">>)

test_D2d_simple_test == Test(None, Fill, "updates", Size, None)
options_D2d_simple_test == Options("queue_2Dd", TwoD, "width")
main_D2d_simple_test == Main("container", None, <<"assert">>)

-----------------------------------------------------------------------------
\* The pattern of many-switches-over-time.
ManySwitches ==
    << Scale("depth", 2, 1), Scale("depth", 4, 1), Scale("depth", 1, 1),
       Scale("width", 1, 4), Scale("width", 2, 1), Scale("width", 1, 1),
       Scale("depth", 2, 1), Scale("width", 2, 1),
       Scale("depth", 1, 4), Scale("width", 1, 2),
       Scale("depth", 1, 1), Scale("width", 1, 1) >>

\* test-simple-diff-depths sets put_depth before it starts the workers.
PutDepthOne(main) ==
    [main EXCEPT !.steps = Steps(<<"options", "put_depth">>) \o Tail(@)]

\* test-switch-middle: the depth and the width given for the second half.
Switch == Steps(<<"elastic_depth", "elastic_width">>)

\* The optimized 2D structures.
test_D2c_stack_optimized == Test(None, Fill, "updates", Size, None)
options_D2c_stack_optimized == Options("stack_optimized", TwoD, "width")
main_D2c_stack_optimized == Main("container", None, <<"assert">>)

test_D2c_stack_optimized_many_switches == Test(None, Fill, "timed", Size, Fits)
options_D2c_stack_optimized_many_switches == Options("stack_optimized", TwoD, "four")
main_D2c_stack_optimized_many_switches == Main("container", ManySwitches, <<"assert">>)

test_D2c_stack_optimized_rt_benchmark == Test(None, Fill, "timed", Size, Fits)
options_D2c_stack_optimized_rt_benchmark == Options("stack_optimized", TwoD, "width")
main_D2c_stack_optimized_rt_benchmark == Main("container", None, <<"assert">>)

test_D2c_stack_optimized_switch_middle == Test(None, Fill, "updates", Size, None)
options_D2c_stack_optimized_switch_middle ==
    Options("stack_optimized", TwoD ++ Elastic, "raised")
main_D2c_stack_optimized_switch_middle ==
    Main("container", Switch, <<"assert">>)

test_D2d_queue_optimized == Test(Attach, Fill, "updates", Size, None)
options_D2d_queue_optimized == Options("queue_optimized", TwoD, "width")
main_D2d_queue_optimized == Main("container", None, <<"assert">>)

\* The elastic 2D structures.
test_D2c_stack_elastic_lpw == Test(None, Fill, "updates", Size, None)
options_D2c_stack_elastic_lpw == Options("stack_elastic", TwoD, "width")
main_D2c_stack_elastic_lpw == Main("container", None, <<"assert">>)

test_D2c_stack_elastic_lpw_many_switches == Test(None, Fill, "timed", Size, Fits)
options_D2c_stack_elastic_lpw_many_switches == Options("stack_elastic", TwoD, "four")
main_D2c_stack_elastic_lpw_many_switches == Main("container", ManySwitches, <<"assert">>)

test_D2c_stack_elastic_lpw_rt_benchmark == Test(None, Fill, "timed", Size, Fits)
options_D2c_stack_elastic_lpw_rt_benchmark == Options("stack_elastic", TwoD, "width")
main_D2c_stack_elastic_lpw_rt_benchmark == Main("container", None, <<"assert">>)

test_D2c_stack_elastic_lpw_switch_middle == Test(None, Fill, "updates", Size, None)
options_D2c_stack_elastic_lpw_switch_middle ==
    Options("stack_elastic", TwoD ++ Elastic, "raised")
main_D2c_stack_elastic_lpw_switch_middle ==
    Main("container", Switch, <<"assert">>)

test_D2d_queue_elastic_law == Test(Attach, Fill, "updates", Size, None)
options_D2d_queue_elastic_law == Options("queue_law", TwoD, "width")
main_D2d_queue_elastic_law == Main("container", None, <<"assert">>)

test_D2d_queue_elastic_law_controller == Test(None, Fill, "updates", Size, None)
options_D2d_queue_elastic_law_controller == Options("queue_law", TwoD, "most")
main_D2d_queue_elastic_law_controller == Main("container", None, <<"assert">>)

test_D2d_queue_elastic_law_diff_depths == Test(None, Fill, "updates", Size, None)
options_D2d_queue_elastic_law_diff_depths == Options("queue_law", TwoD, "width")
main_D2d_queue_elastic_law_diff_depths ==
    PutDepthOne(Main("container", None, <<"assert">>))

test_D2d_queue_elastic_law_many_switches == Test(None, Fill, "timed", Size, Fits)
options_D2d_queue_elastic_law_many_switches == Options("queue_law", TwoD, "four")
main_D2d_queue_elastic_law_many_switches == Main("container", ManySwitches, <<"assert">>)

test_D2d_queue_elastic_law_over_time == Test(None, Fill, "timed", Size, Fits)
options_D2d_queue_elastic_law_over_time == Options("queue_law", TwoD, "width")
main_D2d_queue_elastic_law_over_time == Main("container", None, <<"assert">>)

test_D2d_queue_elastic_law_switch_middle == Test(None, Fill, "updates", Size, None)
options_D2d_queue_elastic_law_switch_middle ==
    Options("queue_law", TwoD ++ Elastic, "unless_given")
main_D2d_queue_elastic_law_switch_middle ==
    Main("container", Switch, <<"assert", "elastic_is">>)

test_D2d_queue_elastic_law_variable_workload == Test(None, Fill, "scheduled", Size, Fits)
options_D2d_queue_elastic_law_variable_workload == Options("queue_law", TwoD, "most")
main_D2d_queue_elastic_law_variable_workload == Main("container", None, <<"warn">>)

test_D2d_queue_elastic_lpw == Test(None, Fill, "updates", Size, None)
options_D2d_queue_elastic_lpw == Options("queue_lpw", TwoD, "width")
main_D2d_queue_elastic_lpw == Main("container", None, <<"assert">>)

test_D2d_queue_elastic_lpw_controller == Test(None, Fill, "updates", Size, None)
options_D2d_queue_elastic_lpw_controller == Options("queue_lpw", TwoD, "most")
main_D2d_queue_elastic_lpw_controller == Main("container", None, <<"assert">>)

test_D2d_queue_elastic_lpw_diff_depths == Test(None, Fill, "updates", Size, None)
options_D2d_queue_elastic_lpw_diff_depths == Options("queue_lpw", TwoD, "width")
main_D2d_queue_elastic_lpw_diff_depths ==
    PutDepthOne(Main("container", None, <<"assert">>))

test_D2d_queue_elastic_lpw_many_switches == Test(None, Fill, "timed", Size, Fits)
options_D2d_queue_elastic_lpw_many_switches == Options("queue_lpw", TwoD, "four")
main_D2d_queue_elastic_lpw_many_switches == Main("container", ManySwitches, <<"assert">>)

test_D2d_queue_elastic_lpw_over_time == Test(None, Fill, "timed", Size, Fits)
options_D2d_queue_elastic_lpw_over_time == Options("queue_lpw", TwoD, "width")
main_D2d_queue_elastic_lpw_over_time == Main("container", None, <<"assert">>)

test_D2d_queue_elastic_lpw_switch_middle == Test(None, Fill, "updates", Size, None)
options_D2d_queue_elastic_lpw_switch_middle ==
    Options("queue_lpw", TwoD ++ Elastic, "unless_given")
main_D2d_queue_elastic_lpw_switch_middle ==
    Main("container", Switch, <<"assert", "elastic_is">>)

test_D2d_queue_elastic_lpw_variable_workload == Test(None, Fill, "scheduled", Size, Fits)
options_D2d_queue_elastic_lpw_variable_workload == Options("queue_lpw", TwoD, "most")
main_D2d_queue_elastic_lpw_variable_workload == Main("container", None, <<"warn">>)

\* The structures 2D is compared with.
test_multi_counter == Test(None, Fill, "updates", Size, None)
options_multi_counter ==
    Options("other", Rules({"l"}, "none") ++ Rules({"w"}, "any"), "width")
main_multi_counter == Main("container", None, <<"assert">>)

test_multi_counter_faa == Test(None, Fill, "updates", Size, None)
options_multi_counter_faa ==
    Options("other", Rules({"l"}, "none") ++ Rules({"w"}, "any"), "width")
main_multi_counter_faa == Main("counter", None, <<"assert">>)

test_multi_queue == Test(None, Fill, "updates", Size, None)
options_multi_queue ==
    Options("other", Rules({"k", "l", "m"}, "none") ++ Rules({"w"}, "any"), "width")
main_multi_queue == Main("container", None, <<"assert">>)

test_multi_stack == Test(None, Fill, "updates", Size, None)
options_multi_stack ==
    Options("other", Rules({"k", "l", "m"}, "none") ++ Rules({"w"}, "any"), "width")
main_multi_stack == Main("container", None, <<"assert">>)

test_queue_dra == Test(None, Fill, "updates", Size, None)
options_queue_dra ==
    Options("other", Rules({"k", "l", "m"}, "none") ++ Rules({"w"}, "any"), "width")
main_queue_dra == Main("container", None, <<"assert">>)

test_queue_k_segment == Test(None, Fill, "updates", Size, None)
options_queue_k_segment ==
    Options("other", Rules({"k"}, "any") ++ Rules({"l", "m", "w"}, "none"), "width")
main_queue_k_segment == Main("container", None, <<"warn">>)

test_queue_lcrq == Test(Attach, Fill, "updates", None, None)
options_queue_lcrq == Options("other", Rules({"k", "l", "m", "w"}, "none"), "width")
main_queue_lcrq == Main("container", None, None)

test_queue_ms == Test(None, Fill, "updates", Size, None)
options_queue_ms == Options("other", TwoD, "width")
main_queue_ms == Main("container", None, <<"assert">>)

test_queue_wf == Test(Attach, Fill, "updates", None, None)
options_queue_wf == Options("other", Rules({"k", "l", "m", "w"}, "none"), "width")
main_queue_wf == Main("container", None, None)

test_single_cas == Test(None, None, "updates", Size, None)
options_single_cas == Options("other", Rules({}, "none"), "width")
main_single_cas == Main("single_cas", None, <<"warn">>)

test_single_faa == Test(None, None, "updates", Size, None)
options_single_faa == Options("other", Rules({}, "none"), "width")
main_single_faa == Main("single_faa", None, <<"warn">>)

test_stack_dra == Test(None, Fill, "updates", Size, None)
options_stack_dra ==
    Options("other", Rules({"k", "l", "m"}, "none") ++ Rules({"w"}, "any"), "width")
main_stack_dra == Main("container", None, <<"assert">>)

test_stack_elimination == Test(None, Fill, "updates", Size, None)
options_stack_elimination ==
    Options("other", Rules({"k", "l", "m", "w"}, "none"), "width")
main_stack_elimination == Main("container", None, <<"assert">>)

test_stack_k_segment == Test(None, Fill, "updates", Size, None)
options_stack_k_segment ==
    Options("other", Rules({"k"}, "any") ++ Rules({"l", "m", "w"}, "none"), "width")
main_stack_k_segment == Main("container", None, <<"warn">>)

test_stack_treiber == Test(None, Fill, "updates", Size, None)
options_stack_treiber == Options("other", Rules({"k", "l", "m", "w"}, "none"), "width")
main_stack_treiber == Main("container", None, <<"assert">>)

-----------------------------------------------------------------------------
Driver(test, options, main) == [test |-> test, options |-> options, main |-> main]

AllDrivers ==
    { Driver(test_D2c_counter, options_D2c_counter, main_D2c_counter),
      Driver(test_D2c_deque, options_D2c_deque, main_D2c_deque),
      Driver(test_D2c_stack, options_D2c_stack, main_D2c_stack),
      Driver(test_D2c_stack_over_time, options_D2c_stack_over_time, main_D2c_stack_over_time),
      Driver(test_D2d_deque, options_D2d_deque, main_D2d_deque),
      Driver(test_D2d_queue_over_time, options_D2d_queue_over_time, main_D2d_queue_over_time),
      Driver(test_D2d_simple_test, options_D2d_simple_test, main_D2d_simple_test),
      Driver(test_D2c_stack_optimized, options_D2c_stack_optimized, main_D2c_stack_optimized),
      Driver(test_D2c_stack_optimized_many_switches, options_D2c_stack_optimized_many_switches,
             main_D2c_stack_optimized_many_switches),
      Driver(test_D2c_stack_optimized_rt_benchmark, options_D2c_stack_optimized_rt_benchmark,
             main_D2c_stack_optimized_rt_benchmark),
      Driver(test_D2c_stack_optimized_switch_middle, options_D2c_stack_optimized_switch_middle,
             main_D2c_stack_optimized_switch_middle),
      Driver(test_D2d_queue_optimized, options_D2d_queue_optimized, main_D2d_queue_optimized),
      Driver(test_D2c_stack_elastic_lpw, options_D2c_stack_elastic_lpw, main_D2c_stack_elastic_lpw),
      Driver(test_D2c_stack_elastic_lpw_many_switches, options_D2c_stack_elastic_lpw_many_switches,
             main_D2c_stack_elastic_lpw_many_switches),
      Driver(test_D2c_stack_elastic_lpw_rt_benchmark, options_D2c_stack_elastic_lpw_rt_benchmark,
             main_D2c_stack_elastic_lpw_rt_benchmark),
      Driver(test_D2c_stack_elastic_lpw_switch_middle, options_D2c_stack_elastic_lpw_switch_middle,
             main_D2c_stack_elastic_lpw_switch_middle),
      Driver(test_D2d_queue_elastic_law, options_D2d_queue_elastic_law, main_D2d_queue_elastic_law),
      Driver(test_D2d_queue_elastic_law_controller, options_D2d_queue_elastic_law_controller,
             main_D2d_queue_elastic_law_controller),
      Driver(test_D2d_queue_elastic_law_diff_depths, options_D2d_queue_elastic_law_diff_depths,
             main_D2d_queue_elastic_law_diff_depths),
      Driver(test_D2d_queue_elastic_law_many_switches, options_D2d_queue_elastic_law_many_switches,
             main_D2d_queue_elastic_law_many_switches),
      Driver(test_D2d_queue_elastic_law_over_time, options_D2d_queue_elastic_law_over_time,
             main_D2d_queue_elastic_law_over_time),
      Driver(test_D2d_queue_elastic_law_switch_middle, options_D2d_queue_elastic_law_switch_middle,
             main_D2d_queue_elastic_law_switch_middle),
      Driver(test_D2d_queue_elastic_law_variable_workload, options_D2d_queue_elastic_law_variable_workload,
             main_D2d_queue_elastic_law_variable_workload),
      Driver(test_D2d_queue_elastic_lpw, options_D2d_queue_elastic_lpw, main_D2d_queue_elastic_lpw),
      Driver(test_D2d_queue_elastic_lpw_controller, options_D2d_queue_elastic_lpw_controller,
             main_D2d_queue_elastic_lpw_controller),
      Driver(test_D2d_queue_elastic_lpw_diff_depths, options_D2d_queue_elastic_lpw_diff_depths,
             main_D2d_queue_elastic_lpw_diff_depths),
      Driver(test_D2d_queue_elastic_lpw_many_switches, options_D2d_queue_elastic_lpw_many_switches,
             main_D2d_queue_elastic_lpw_many_switches),
      Driver(test_D2d_queue_elastic_lpw_over_time, options_D2d_queue_elastic_lpw_over_time,
             main_D2d_queue_elastic_lpw_over_time),
      Driver(test_D2d_queue_elastic_lpw_switch_middle, options_D2d_queue_elastic_lpw_switch_middle,
             main_D2d_queue_elastic_lpw_switch_middle),
      Driver(test_D2d_queue_elastic_lpw_variable_workload, options_D2d_queue_elastic_lpw_variable_workload,
             main_D2d_queue_elastic_lpw_variable_workload),
      Driver(test_multi_counter, options_multi_counter, main_multi_counter),
      Driver(test_multi_counter_faa, options_multi_counter_faa, main_multi_counter_faa),
      Driver(test_multi_queue, options_multi_queue, main_multi_queue),
      Driver(test_multi_stack, options_multi_stack, main_multi_stack),
      Driver(test_queue_dra, options_queue_dra, main_queue_dra),
      Driver(test_queue_k_segment, options_queue_k_segment, main_queue_k_segment),
      Driver(test_queue_lcrq, options_queue_lcrq, main_queue_lcrq),
      Driver(test_queue_ms, options_queue_ms, main_queue_ms),
      Driver(test_queue_wf, options_queue_wf, main_queue_wf),
      Driver(test_single_cas, options_single_cas, main_single_cas),
      Driver(test_single_faa, options_single_faa, main_single_faa),
      Driver(test_stack_dra, options_stack_dra, main_stack_dra),
      Driver(test_stack_elimination, options_stack_elimination, main_stack_elimination),
      Driver(test_stack_k_segment, options_stack_k_segment, main_stack_k_segment),
      Driver(test_stack_treiber, options_stack_treiber, main_stack_treiber) }
=============================================================================
