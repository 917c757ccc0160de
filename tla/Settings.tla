------------------------------ MODULE Settings ------------------------------
(***************************************************************************)
(* What main of a benchmark driver makes of its command line, before it    *)
(* starts the workers.  A command line is a function from the letters of   *)
(* the options that are given to numbers; settings have a value for each   *)
(* letter, as the globals of the drivers do:                               *)
(*                                                                         *)
(*   i  initial   r  range      u  update        p  put                    *)
(*   w  width     l  depth      m  k_mode        k  relaxation_bound       *)
(*   b  max_width               c  elastic_depth e  elastic_width          *)
(*                                                                         *)
(* The options that only matter to time and to what is printed are left    *)
(* out, and num_threads is a constant of Driver.                           *)
(***************************************************************************)
EXTENDS Relaxation

CONSTANT DefaultInitial   \* DEFAULT_INITIAL, 1024 in the code

Defaults == [i |-> DefaultInitial, r |-> 2 * DefaultInitial, u |-> 100, p |-> 0,
             w |-> 1, l |-> 1, m |-> 0, k |-> 1, b |-> 0, c |-> 0, e |-> 0]

\* What the switch statement does with an argument: store it, store it if it is
\* positive, or at most 3, or nothing.
Stores(rule, arg) ==
    \/ rule = "any"
    \/ rule = "positive" /\ arg > 0
    \/ rule = "mode" /\ arg <= 3

Rules(letters, rule) == [x \in letters |-> rule]
f ++ g == [x \in DOMAIN f \cup DOMAIN g |-> IF x \in DOMAIN f THEN f[x] ELSE g[x]]
Workload == Rules({"i", "r", "u", "p"}, "any")
TwoD == Rules({"k", "l", "w"}, "positive") ++ Rules({"m"}, "mode")
Elastic == Rules({"b", "c", "e"}, "any")

Parse(rules, given) ==
    [x \in DOMAIN Defaults |->
        IF x \in DOMAIN rules \cap DOMAIN given /\ Stores(rules[x], given[x])
        THEN given[x] ELSE Defaults[x]]

-----------------------------------------------------------------------------
\* pow2roundup: the bits below the highest are filled up.
pow2roundup[x \in Nat] == IF x <= 1 THEN 1 ELSE 2 * pow2roundup[(x + 1) \div 2]

Larger(a, b) == IF a < b THEN b ELSE a

\* Powers of 2, so that rand_max = range - 1 is a mask, and a range with room
\* for the initial elements.  The put rate is half the update rate unless it is
\* given, and here in half percents.
Normalise(s, explicit) ==
    LET initial == pow2roundup[s.i]
        range == IF s.r < initial THEN 2 * initial ELSE s.r
    IN  [s EXCEPT !.i = initial, !.r = pow2roundup[range],
                  !.p = IF explicit THEN 2 * (IF s.p > s.u THEN s.u ELSE s.p) ELSE s.u]

-----------------------------------------------------------------------------
\* k_mode is kept in 8 bits.
Sized(structure, n, s) ==
    LET m == s.m % 256
    IN  CASE structure = "queue_2Dd" -> create_queue_2Dd(n, s.w, s.l, m, s.k)
          [] structure = "queue_optimized" -> create_queue_optimized(n, s.w, s.l, m, s.k)
          [] structure = "queue_law" -> create_queue_law(n, s.w, s.l, m, s.k)
          [] structure = "queue_lpw" -> create_queue_lpw(n, s.w, s.l, m, s.k)
          [] structure = "stack_2Dc" -> create_stack_2Dc(n, s.w, s.l, m, s.k)
          [] structure = "stack_optimized" -> create_stack_optimized(n, s.w, s.l, m, s.k)
          [] structure = "stack_elastic" -> create_stack_elastic(n, s.w, s.l, m, s.k)
          [] structure = "counter_2Dc" -> create_counter_2Dc(n, s.w, s.l, m, s.k)
          [] OTHER -> Shape(s.w, s.l, s.k)

\* The relaxation per row and further sub-structure of what main creates.
Factor(structure) ==
    IF structure \in {"queue_2Dd", "queue_optimized", "queue_law", "queue_lpw"} THEN 1 ELSE 2

Known(structure) == structure # "other"

\* Mutant: the width to switch to is not looked at.
MaxWidthGiven(max, s) ==
    CASE max = "width" -> s.w
      [] max = "four" -> 4 * s.w
      [] max = "most" -> 65535
      [] max = "raised" -> s.b
      [] max = "unless_given" -> s.b

\* The max_width that main passes to DS_NEW, and those that take none.
MaxWidth(max, s) ==
    CASE max = "width" -> s.w
      [] max = "four" -> 4 * s.w
      [] max = "most" -> 65535
      [] max = "raised" -> Larger(s.b, s.e)
      [] max = "unless_given" -> IF s.e > s.w /\ s.b = 0 THEN s.e ELSE s.b

\* The structure as main creates it.  It has room for max_width sub-structures,
\* and for width in any case.
NewStructure(options, n, s) ==
    LET size == Sized(options.structure, n, s)
    IN  [width |-> size.width, depth |-> size.depth,
         relaxation_bound |-> size.relaxation_bound,
         max_width |-> Larger(MaxWidth(options.max, s), size.width),
         built |-> size.width]
=============================================================================
