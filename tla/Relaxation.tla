------------------------------ MODULE Relaxation ----------------------------
(***************************************************************************)
(* How the 2D structures choose their width and depth.  Each create_*      *)
(* function takes both, a relaxation bound and a k_mode that says which of *)
(* them are fixed:                                                         *)
(*                                                                         *)
(*   0  width and depth are fixed, and give the bound                      *)
(*   1  the width is fixed, the depth follows from the bound               *)
(*   2  the depth is fixed, the width follows from the bound               *)
(*   3  as 1, with a width per thread                                      *)
(*                                                                         *)
(* The functions differ in factor, the relaxation that one more sub-       *)
(* structure costs per row: 1 for queues, 2 for stacks and counters with   *)
(* one window and for the counter with two, 3 for the stack with two.      *)
(***************************************************************************)
EXTENDS Integers

Shape(width, depth, bound) ==
    [width |-> width, depth |-> depth, relaxation_bound |-> bound]

\* width_t and depth_t have 16 bits in the optimized and the elastic structures
\* (word = 2^16).  In the others (word = 0) they are wider than the arguments.
Fit(word, x) == IF word = 0 THEN x ELSE x % word

\* A single sub-structure is not relaxed.
Single(word, bound) == Shape(1, Fit(word, bound), 0)

\* Mutant: a bound too small for one row per sub-structure is not kept.
FixedWidthAnyway(word, factor, width, bound) ==
    IF width < 2 THEN Single(word, bound)
    ELSE LET depth == Fit(word, bound \div (factor * (width - 1)))
         IN  Shape(width, IF depth < 1 THEN 1 ELSE depth, bound)

\* A bound that does not leave the others one row each makes them fewer.
FixedWidth(word, factor, width, bound) ==
    IF width < 2 THEN Single(word, bound)
    ELSE LET depth == Fit(word, bound \div (factor * (width - 1)))
         IN  IF depth < 1 THEN Shape(Fit(word, bound \div factor + 1), 1, bound)
             ELSE Shape(width, depth, bound)

FixedDepth(word, factor, depth, bound) ==
    LET width == Fit(word, bound \div (factor * depth) + 1)
    IN  IF width < 1 THEN Single(word, bound) ELSE Shape(width, depth, bound)

\* An unknown mode leaves everything as it was given.
Dimensions(word, factor, num_threads, width, depth, k_mode, bound) ==
    CASE k_mode = 3 -> FixedWidth(word, factor, Fit(word, num_threads * width), bound)
      [] k_mode = 2 -> FixedDepth(word, factor, depth, bound)
      [] k_mode = 1 -> FixedWidth(word, factor, width, bound)
      [] k_mode = 0 -> Shape(width, depth, factor * depth * (width - 1))
      [] OTHER -> Shape(width, depth, bound)

-----------------------------------------------------------------------------
Word == 65536

create_queue_2Dd(n, w, d, m, k) == Dimensions(0, 1, n, w, d, m, k)
create_stack_2Dc(n, w, d, m, k) == Dimensions(0, 2, n, w, d, m, k)
create_stack_2Dd(n, w, d, m, k) == Dimensions(0, 3, n, w, d, m, k)
create_counter_2Dc(n, w, d, m, k) == Dimensions(0, 2, n, w, d, m, k)
create_counter_2Dd(n, w, d, m, k) == Dimensions(0, 2, n, w, d, m, k)
create_queue_optimized(n, w, d, m, k) == Dimensions(Word, 1, n, w, d, m, k)
create_queue_law(n, w, d, m, k) == Dimensions(Word, 1, n, w, d, m, k)
create_queue_lpw(n, w, d, m, k) == Dimensions(Word, 1, n, w, d, m, k)
create_stack_optimized(n, w, d, m, k) == Dimensions(Word, 2, n, w, d, m, k)
create_stack_elastic(n, w, d, m, k) == Dimensions(Word, 2, n, w, d, m, k)

-----------------------------------------------------------------------------
\* The dimensions keep the bound they come with: moving all rows of all other
\* sub-structures past an item is within it.
Honours(factor, size) ==
    factor * size.depth * (size.width - 1) <= size.relaxation_bound

\* There is a sub-structure, and it has a row: a window that is shifted by its
\* depth moves.
Usable(size) == size.width >= 1 /\ size.depth >= 1
=============================================================================
