---------------------------- MODULE DriverProofs ----------------------------
(***************************************************************************)
(* The barriers of the benchmark drivers, for every number of threads,     *)
(* every command line and all drivers of the repository: what they keep    *)
(* apart, and what the size check at the end therefore finds.  First, the  *)
(* dimensions of a 2D structure keep the relaxation bound, for every mode, *)
(* width, depth, number of threads and bound that the drivers accept.      *)
(***************************************************************************)
EXTENDS Driver, FiniteSetTheorems, WellFoundedInduction, TLAPS

-----------------------------------------------------------------------------
\* Division of natural numbers, as the proofs below use it.
LEMMA DivBounds ==
    ASSUME NEW a \in Nat, NEW b \in Nat \ {0}
    PROVE  /\ a \div b \in Nat
           /\ b * (a \div b) <= a
           /\ a < b * (a \div b) + b
  BY SMT

\* A product of positive numbers is one.
LEMMA ProductPositive ==
    ASSUME NEW a \in Nat \ {0}, NEW b \in Nat \ {0}
    PROVE  a * b \in Nat \ {0}
  BY SMT

\* Multiplication as the proofs below regroup it.
LEMMA Regroup ==
    ASSUME NEW a \in Nat, NEW b \in Nat, NEW c \in Nat
    PROVE  /\ a * b * c = (a * b) * c
           /\ a * b * c = (a * c) * b
           /\ a * b \in Nat
           /\ a * b * c \in Nat
  BY SMT

\* A factor is at most the product.
LEMMA AtMostProduct ==
    ASSUME NEW a \in Nat \ {0}, NEW b \in Nat, NEW c \in Nat, a * b <= c
    PROVE  b <= c
  BY SMT

\* Dividing less than n times a number by it comes to less than n.
LEMMA SmallerQuotient ==
    ASSUME NEW a \in Nat \ {0}, NEW n \in Nat, NEW q \in Nat, NEW c \in Nat,
           c < a * n, a * q <= c
    PROVE  q < n
  BY SMT

\* What is said of the dimensions a create_* function comes to.
Good(factor, bound, dim) ==
    /\ dim.width \in Nat /\ dim.depth \in Nat /\ dim.relaxation_bound \in Nat
    /\ Usable(dim)
    /\ Honours(factor, dim)
    /\ dim.relaxation_bound <= bound

\* The arguments fit the types of the structure.
FitsIn(word, x) == word = 0 \/ x < word

\* A number that fits is stored as it is.
LEMMA FitsIsFit ==
    ASSUME NEW word \in Nat, NEW x \in Nat, FitsIn(word, x)
    PROVE  Fit(word, x) = x
  BY SMT DEF Fit, FitsIn

\* What is stored is a number that fits.
LEMMA FitType ==
    ASSUME NEW word \in Nat, NEW x \in Nat
    PROVE  Fit(word, x) \in Nat /\ FitsIn(word, Fit(word, x))
  BY SMT DEF Fit, FitsIn

\* One sub-structure, as deep as the bound, is not relaxed.
LEMMA SingleGood ==
    ASSUME NEW word \in Nat, NEW factor \in Nat \ {0}, NEW bound \in Nat \ {0},
           FitsIn(word, bound)
    PROVE  Good(factor, bound, Single(word, bound))
<1>1. Single(word, bound) = Shape(1, bound, 0)
  BY FitsIsFit DEF Single
<1>2. factor * bound * (1 - 1) = 0
  BY SMT
<1> QED
  BY <1>1, <1>2 DEF Shape, Good, Usable, Honours

\* Modes 1 and 3: the depth that the bound leaves to a fixed width, and the
\* smaller width when it leaves none, keep the bound.
LEMMA FixedWidthGood ==
    ASSUME NEW word \in Nat, NEW factor \in Nat \ {0}, NEW width \in Nat,
           NEW bound \in Nat \ {0}, FitsIn(word, width), FitsIn(word, bound)
    PROVE  Good(factor, bound, FixedWidth(word, factor, width, bound))
<1>1. CASE width < 2
  BY <1>1, SingleGood DEF FixedWidth
<1>2. CASE width >= 2
  <2> DEFINE depth == bound \div (factor * (width - 1))
  <2>1. width - 1 \in Nat \ {0}
    BY <1>2
  <2>2. factor * (width - 1) \in Nat \ {0}
    BY <2>1, ProductPositive
  <2>3. /\ depth \in Nat
        /\ (factor * (width - 1)) * depth <= bound
        /\ bound < (factor * (width - 1)) * depth + factor * (width - 1)
    BY <2>2, DivBounds
  <2>4. depth <= bound
    BY <2>2, <2>3, AtMostProduct
  <2>5. Fit(word, depth) = depth
    BY <2>3, <2>4, FitsIsFit DEF FitsIn
  <2> HIDE DEF depth
  <2>6. CASE depth < 1
    <3> DEFINE others == bound \div factor
    <3>1. depth = 0
      BY <2>3, <2>6
    <3>2. bound < factor * (width - 1)
      BY <2>2, <2>3, <3>1
    <3>3. others \in Nat /\ factor * others <= bound
      BY DivBounds
    <3>4. others < width - 1
      BY <2>1, <3>2, <3>3, SmallerQuotient
    <3>5. Fit(word, others + 1) = others + 1
      BY <3>3, <3>4, FitsIsFit DEF FitsIn
    <3>6. FixedWidth(word, factor, width, bound) = Shape(others + 1, 1, bound)
      BY <1>2, <2>5, <2>6, <3>5 DEF FixedWidth, depth
    <3> HIDE DEF others
    <3>7. factor * 1 * (others + 1 - 1) = factor * others
      BY <3>3, SMT
    <3> QED
      BY <3>3, <3>6, <3>7 DEF Shape, Good, Usable, Honours
  <2>7. CASE depth >= 1
    <3>1. FixedWidth(word, factor, width, bound) = Shape(width, depth, bound)
      BY <1>2, <2>3, <2>5, <2>7 DEF FixedWidth, depth
    <3>2. factor * depth * (width - 1) = (factor * (width - 1)) * depth
      BY <2>1, <2>3, Regroup
    <3> QED
      BY <1>2, <2>3, <2>7, <3>1, <3>2 DEF Shape, Good, Usable, Honours
  <2> QED
    BY <2>3, <2>6, <2>7
<1> QED
  BY <1>1, <1>2

\* Mode 2: the width that the bound leaves to a fixed depth keeps the bound.
LEMMA FixedDepthGood ==
    ASSUME NEW word \in Nat, NEW factor \in Nat \ {0}, NEW depth \in Nat \ {0},
           NEW bound \in Nat \ {0}, FitsIn(word, bound)
    PROVE  Good(factor, bound, FixedDepth(word, factor, depth, bound))
<1> DEFINE others == bound \div (factor * depth)
           width == Fit(word, others + 1)
<1>1. others \in Nat /\ (factor * depth) * others <= bound
  BY ProductPositive, DivBounds
<1> HIDE DEF others
<1>2. others + 1 \in Nat /\ width \in Nat
  <2>1. others + 1 \in Nat
    BY <1>1
  <2> QED
    BY ONLY <2>1, word \in Nat, FitType
<1>3. CASE width < 1
  <2>1. FixedDepth(word, factor, depth, bound) = Single(word, bound)
    BY <1>3 DEF FixedDepth, others
  <2> QED
    BY <2>1, SingleGood
<1>4. CASE width >= 1
  <2>1. FixedDepth(word, factor, depth, bound) = Shape(width, depth, bound)
    BY <1>2, <1>4 DEF FixedDepth, others
  <2>2. others <= bound
    BY <1>1, ProductPositive, AtMostProduct
  <2>3. width = others + 1
    <3>1. CASE FitsIn(word, others + 1)
      BY <1>1, <3>1, FitsIsFit
    <3>2. CASE ~FitsIn(word, others + 1)
      <4>1. word # 0 /\ word = others + 1
        BY <1>1, <2>2, <3>2 DEF FitsIn
      <4>2. width = 0
        BY <1>1, <4>1, SMT DEF Fit
      <4> QED
        BY <1>4, <4>2
    <3> QED
      BY <3>1, <3>2
  <2> HIDE DEF width
  <2>4. factor * depth * (width - 1) = (factor * depth) * others
    BY <1>1, <2>3, SMT
  <2> QED
    BY <1>1, <1>4, <2>1, <2>3, <2>4 DEF Shape, Good, Usable, Honours
<1> QED
  BY <1>2, <1>3, <1>4

\* The dimensions are numbers as well.
LEMMA DimensionsGood ==
    ASSUME NEW word \in Nat, NEW factor \in Nat \ {0}, NEW num_threads \in Nat,
           NEW width \in Nat \ {0}, NEW depth \in Nat \ {0}, NEW k_mode \in 0 .. 3,
           NEW bound \in Nat \ {0}, FitsIn(word, width), FitsIn(word, bound)
    PROVE  LET dim == Dimensions(word, factor, num_threads, width, depth, k_mode, bound)
           IN  /\ k_mode # 0 => Good(factor, bound, dim)
               /\ k_mode = 0 => Good(factor, dim.relaxation_bound, dim)
<1> DEFINE dim == Dimensions(word, factor, num_threads, width, depth, k_mode, bound)
<1> SUFFICES /\ k_mode # 0 => Good(factor, bound, dim)
             /\ k_mode = 0 => Good(factor, dim.relaxation_bound, dim)
  OBVIOUS
<1>1. CASE k_mode = 3
  <2>1. dim = FixedWidth(word, factor, Fit(word, num_threads * width), bound)
    BY <1>1 DEF Dimensions
  <2>2. num_threads * width \in Nat
    BY SMT
  <2>3. /\ Fit(word, num_threads * width) \in Nat
        /\ FitsIn(word, Fit(word, num_threads * width))
    BY <2>2, FitType
  <2> QED
    BY <1>1, <2>1, <2>3, FixedWidthGood
<1>2. CASE k_mode = 2
  BY <1>2, FixedDepthGood DEF Dimensions
<1>3. CASE k_mode = 1
  <2>1. dim = FixedWidth(word, factor, width, bound)
    BY <1>3 DEF Dimensions
  <2> QED
    BY <1>3, <2>1, FixedWidthGood
<1>4. CASE k_mode = 0
  <2>1. dim = Shape(width, depth, factor * depth * (width - 1))
    BY <1>4 DEF Dimensions
  <2>2. width - 1 \in Nat
    OBVIOUS
  <2>3. factor * depth * (width - 1) \in Nat
    BY <2>2, Regroup
  <2> QED
    BY <1>4, <2>1, <2>2, <2>3 DEF Shape, Good, Usable, Honours
<1> QED
  BY <1>1, <1>2, <1>3, <1>4

\* create_queue, create_stack and create_counter of the 2D structures: with a
\* width, a depth and a bound of at least 1, as the options of the drivers
\* give them, that fit the types of the structure, every k_mode comes to at
\* least one sub-structure and one row, and to factor * depth * (width - 1)
\* within the bound the structure then reports.  In the modes that start from
\* a bound that is at most the bound asked for.
THEOREM DimensionsKeepBound ==
    ASSUME NEW word \in Nat, NEW factor \in Nat \ {0}, NEW num_threads \in Nat,
           NEW width \in Nat \ {0}, NEW depth \in Nat \ {0}, NEW k_mode \in 0 .. 3,
           NEW bound \in Nat \ {0}, FitsIn(word, width), FitsIn(word, bound)
    PROVE  LET dim == Dimensions(word, factor, num_threads, width, depth, k_mode, bound)
           IN  /\ Usable(dim)
               /\ Honours(factor, dim)
               /\ k_mode # 0 => dim.relaxation_bound <= bound
  BY DimensionsGood DEF Good

-----------------------------------------------------------------------------
\* The programs of the drivers, and where their steps are.
LoopOps == {"updates", "timed", "scheduled"}
ResizeOps == {"depth", "width", "elastic_depth", "elastic_width"}

\* test: the fill lies before the barrier at fence, the first measurement
\* between it and the start, the loop right after the start and before another
\* barrier, the second measurement after that, and the totals come last.
Fenced(test, fence, start) ==
    /\ fence \in 1 .. Len(test) /\ start \in 1 .. Len(test)
    /\ fence < start /\ start + 3 <= Len(test)
    /\ test[fence].op = "barrier" /\ test[start].op = "global"
    /\ test[start + 2].op = "barrier"
    /\ \A i \in 1 .. Len(test) :
          /\ test[i].op = "fill" => i < fence
          /\ test[i].op = "before" => fence < i /\ i < start
          /\ test[i].op = "global" => i = start
          /\ test[i].op \in LoopOps <=> i = start + 1
          /\ test[i].op = "size" => start + 2 < i /\ i < Len(test)
          /\ test[i].op = "publish" <=> i = Len(test)

TestSound(test) ==
    /\ Len(test) \in Nat
    /\ \E fence, start \in Nat : Fenced(test, fence, start)

Has(test, op) == \E i \in 1 .. Len(test) : test[i].op = op

\* main: options first, the workers created before the structure is resized,
\* and joined before the check.
Staged(steps, create, join) ==
    /\ create \in 1 .. Len(steps) /\ join \in 1 .. Len(steps)
    /\ 1 < create /\ create < join
    /\ steps[create].op = "create" /\ steps[join].op = "join"
    /\ \A i \in 1 .. Len(steps) :
          /\ steps[i].op # "barrier"
          /\ steps[i].op = "options" <=> i = 1
          /\ steps[i].op = "create" => i = create
          /\ steps[i].op = "put_depth" => i < create
          /\ steps[i].op \in ResizeOps => create < i
          /\ steps[i].op \in {"assert", "warn"} => join < i

MainSound(steps) ==
    /\ Len(steps) \in Nat
    /\ \E create, join \in Nat : Staged(steps, create, join)

\* What main asks of the width: nothing; the width given for the second half;
\* or the width it started from, scaled.
KeepsWidthAt(step) == step.op \notin {"width", "elastic_width"}
SwitchesWidthAt(step) == step.op # "width"
ScalesWidthAt(step) ==
    /\ step.op # "elastic_width"
    /\ step.op = "width" => \/ step.times \in {1, 2} /\ step.over = 1
                            \/ step.times = 1 /\ step.over \in {2, 4}
KeepsWidth(steps) == \A i \in 1 .. Len(steps) : KeepsWidthAt(steps[i])
SwitchesWidth(steps) == \A i \in 1 .. Len(steps) : SwitchesWidthAt(steps[i])
ScalesWidth(steps) == \A i \in 1 .. Len(steps) : ScalesWidthAt(steps[i])

\* The checks of main after join.
OnlyChecks(steps, checks) ==
    \A i \in 1 .. Len(steps) : steps[i].op \in {"assert", "warn"} => steps[i].op \in checks

LEMMA StepsOps ==
    ASSUME NEW ops, Len(ops) \in Nat
    PROVE  /\ Len(Steps(ops)) = Len(ops)
           /\ \A i \in 1 .. Len(ops) : Steps(ops)[i].op = ops[i]
  BY DEF Steps, Do

\* The five forms of test.

LEMMA TestFilled ==
    ASSUME NEW loop \in LoopOps
    PROVE  LET test == Test(None, Fill, loop, Size, None)
           IN  TestSound(test) /\ Has(test, "fill") /\ Has(test, "size")
<1> DEFINE ops == None \o <<"barrier">> \o Fill \o <<"barrier">> \o Before(Size)
                  \o <<"global", loop, "barrier">> \o Size \o <<"barrier">> \o None
                  \o <<"publish">>
<1>1. /\ Len(ops) = 10
      /\ ops[1] = "barrier" /\ ops[2] = "fill" /\ ops[3] = "barrier" /\ ops[4] = "before"
      /\ ops[5] = "global" /\ ops[6] = loop /\ ops[7] = "barrier" /\ ops[8] = "size"
      /\ ops[9] = "barrier" /\ ops[10] = "publish"
  BY DEF None, Attach, Fill, Size, Fits, Before
<1> HIDE DEF ops
<1>2. loop \notin {"attach", "barrier", "fill", "before", "global", "size", "fits", "publish"}
  BY DEF LoopOps
<1>3. ASSUME NEW i \in 1 .. Len(ops)
      PROVE  /\ ops[i] = "fill" => i < 3
             /\ ops[i] = "before" => 3 < i /\ i < 5
             /\ ops[i] = "global" => i = 5
             /\ ops[i] \in LoopOps <=> i = 6
             /\ ops[i] = "size" => 7 < i /\ i < Len(ops)
             /\ ops[i] = "publish" <=> i = Len(ops)
  <2>1. i \in 1 .. 10
    BY <1>1
  <2> QED
    BY <1>1, <1>2, <2>1 DEF LoopOps
<1>4. TestSound(Steps(ops)) /\ Has(Steps(ops), "fill") /\ Has(Steps(ops), "size")
  <2> DEFINE test == Steps(ops)
  <2>1. Len(test) = 10 /\ \A i \in 1 .. 10 : test[i].op = ops[i]
    BY <1>1, StepsOps
  <2> HIDE DEF test
  <2>2. Fenced(test, 3, 5)
    BY <1>1, <1>3, <2>1 DEF Fenced
  <2>3. TestSound(test)
    BY <2>1, <2>2 DEF TestSound
  <2>4. Has(test, "fill")
    <3>1. 2 \in 1 .. Len(test) /\ test[2].op = "fill"
      BY <1>1, <2>1
    <3> QED
      BY <3>1 DEF Has
  <2>5. Has(test, "size")
    <3>1. 8 \in 1 .. Len(test) /\ test[8].op = "size"
      BY <1>1, <2>1
    <3> QED
      BY <3>1 DEF Has
  <2> QED
    BY <2>3, <2>4, <2>5 DEF test
<1> QED
  BY <1>4 DEF Test, ops

LEMMA TestTimed ==
    ASSUME NEW loop \in LoopOps
    PROVE  LET test == Test(None, Fill, loop, Size, Fits)
           IN  TestSound(test) /\ Has(test, "fill") /\ Has(test, "size")
<1> DEFINE ops == None \o <<"barrier">> \o Fill \o <<"barrier">> \o Before(Size)
                  \o <<"global", loop, "barrier">> \o Size \o <<"barrier">> \o Fits
                  \o <<"publish">>
<1>1. /\ Len(ops) = 11
      /\ ops[1] = "barrier" /\ ops[2] = "fill" /\ ops[3] = "barrier" /\ ops[4] = "before"
      /\ ops[5] = "global" /\ ops[6] = loop /\ ops[7] = "barrier" /\ ops[8] = "size"
      /\ ops[9] = "barrier" /\ ops[10] = "fits" /\ ops[11] = "publish"
  BY DEF None, Attach, Fill, Size, Fits, Before
<1> HIDE DEF ops
<1>2. loop \notin {"attach", "barrier", "fill", "before", "global", "size", "fits", "publish"}
  BY DEF LoopOps
<1>3. ASSUME NEW i \in 1 .. Len(ops)
      PROVE  /\ ops[i] = "fill" => i < 3
             /\ ops[i] = "before" => 3 < i /\ i < 5
             /\ ops[i] = "global" => i = 5
             /\ ops[i] \in LoopOps <=> i = 6
             /\ ops[i] = "size" => 7 < i /\ i < Len(ops)
             /\ ops[i] = "publish" <=> i = Len(ops)
  <2>1. i \in 1 .. 11
    BY <1>1
  <2> QED
    BY <1>1, <1>2, <2>1 DEF LoopOps
<1>4. TestSound(Steps(ops)) /\ Has(Steps(ops), "fill") /\ Has(Steps(ops), "size")
  <2> DEFINE test == Steps(ops)
  <2>1. Len(test) = 11 /\ \A i \in 1 .. 11 : test[i].op = ops[i]
    BY <1>1, StepsOps
  <2> HIDE DEF test
  <2>2. Fenced(test, 3, 5)
    BY <1>1, <1>3, <2>1 DEF Fenced
  <2>3. TestSound(test)
    BY <2>1, <2>2 DEF TestSound
  <2>4. Has(test, "fill")
    <3>1. 2 \in 1 .. Len(test) /\ test[2].op = "fill"
      BY <1>1, <2>1
    <3> QED
      BY <3>1 DEF Has
  <2>5. Has(test, "size")
    <3>1. 8 \in 1 .. Len(test) /\ test[8].op = "size"
      BY <1>1, <2>1
    <3> QED
      BY <3>1 DEF Has
  <2> QED
    BY <2>3, <2>4, <2>5 DEF test
<1> QED
  BY <1>4 DEF Test, ops

LEMMA TestAttached ==
    ASSUME NEW loop \in LoopOps
    PROVE  LET test == Test(Attach, Fill, loop, Size, None)
           IN  TestSound(test) /\ Has(test, "fill") /\ Has(test, "size")
<1> DEFINE ops == Attach \o <<"barrier">> \o Fill \o <<"barrier">> \o Before(Size)
                  \o <<"global", loop, "barrier">> \o Size \o <<"barrier">> \o None
                  \o <<"publish">>
<1>1. /\ Len(ops) = 11
      /\ ops[1] = "attach" /\ ops[2] = "barrier" /\ ops[3] = "fill" /\ ops[4] = "barrier"
      /\ ops[5] = "before" /\ ops[6] = "global" /\ ops[7] = loop /\ ops[8] = "barrier"
      /\ ops[9] = "size" /\ ops[10] = "barrier" /\ ops[11] = "publish"
  BY DEF None, Attach, Fill, Size, Fits, Before
<1> HIDE DEF ops
<1>2. loop \notin {"attach", "barrier", "fill", "before", "global", "size", "fits", "publish"}
  BY DEF LoopOps
<1>3. ASSUME NEW i \in 1 .. Len(ops)
      PROVE  /\ ops[i] = "fill" => i < 4
             /\ ops[i] = "before" => 4 < i /\ i < 6
             /\ ops[i] = "global" => i = 6
             /\ ops[i] \in LoopOps <=> i = 7
             /\ ops[i] = "size" => 8 < i /\ i < Len(ops)
             /\ ops[i] = "publish" <=> i = Len(ops)
  <2>1. i \in 1 .. 11
    BY <1>1
  <2> QED
    BY <1>1, <1>2, <2>1 DEF LoopOps
<1>4. TestSound(Steps(ops)) /\ Has(Steps(ops), "fill") /\ Has(Steps(ops), "size")
  <2> DEFINE test == Steps(ops)
  <2>1. Len(test) = 11 /\ \A i \in 1 .. 11 : test[i].op = ops[i]
    BY <1>1, StepsOps
  <2> HIDE DEF test
  <2>2. Fenced(test, 4, 6)
    BY <1>1, <1>3, <2>1 DEF Fenced
  <2>3. TestSound(test)
    BY <2>1, <2>2 DEF TestSound
  <2>4. Has(test, "fill")
    <3>1. 3 \in 1 .. Len(test) /\ test[3].op = "fill"
      BY <1>1, <2>1
    <3> QED
      BY <3>1 DEF Has
  <2>5. Has(test, "size")
    <3>1. 9 \in 1 .. Len(test) /\ test[9].op = "size"
      BY <1>1, <2>1
    <3> QED
      BY <3>1 DEF Has
  <2> QED
    BY <2>3, <2>4, <2>5 DEF test
<1> QED
  BY <1>4 DEF Test, ops

LEMMA TestUnmeasured ==
    ASSUME NEW loop \in LoopOps
    PROVE  LET test == Test(Attach, Fill, loop, None, None)
           IN  TestSound(test)
<1> DEFINE ops == Attach \o <<"barrier">> \o Fill \o <<"barrier">> \o Before(None)
                  \o <<"global", loop, "barrier">> \o None \o <<"barrier">> \o None
                  \o <<"publish">>
<1>1. /\ Len(ops) = 9
      /\ ops[1] = "attach" /\ ops[2] = "barrier" /\ ops[3] = "fill" /\ ops[4] = "barrier"
      /\ ops[5] = "global" /\ ops[6] = loop /\ ops[7] = "barrier" /\ ops[8] = "barrier"
      /\ ops[9] = "publish"
  BY DEF None, Attach, Fill, Size, Fits, Before
<1> HIDE DEF ops
<1>2. loop \notin {"attach", "barrier", "fill", "before", "global", "size", "fits", "publish"}
  BY DEF LoopOps
<1>3. ASSUME NEW i \in 1 .. Len(ops)
      PROVE  /\ ops[i] = "fill" => i < 4
             /\ ops[i] = "before" => 4 < i /\ i < 5
             /\ ops[i] = "global" => i = 5
             /\ ops[i] \in LoopOps <=> i = 6
             /\ ops[i] = "size" => 7 < i /\ i < Len(ops)
             /\ ops[i] = "publish" <=> i = Len(ops)
  <2>1. i \in 1 .. 9
    BY <1>1
  <2> QED
    BY <1>1, <1>2, <2>1 DEF LoopOps
<1>4. TestSound(Steps(ops))
  <2> DEFINE test == Steps(ops)
  <2>1. Len(test) = 9 /\ \A i \in 1 .. 9 : test[i].op = ops[i]
    BY <1>1, StepsOps
  <2> HIDE DEF test
  <2>2. Fenced(test, 4, 5)
    BY <1>1, <1>3, <2>1 DEF Fenced
  <2>3. TestSound(test)
    BY <2>1, <2>2 DEF TestSound
  <2> QED
    BY <2>3 DEF test
<1> QED
  BY <1>4 DEF Test, ops

LEMMA TestUnfilled ==
    ASSUME NEW loop \in LoopOps
    PROVE  LET test == Test(None, None, loop, Size, None)
           IN  TestSound(test)
<1> DEFINE ops == None \o <<"barrier">> \o None \o <<"barrier">> \o Before(Size)
                  \o <<"global", loop, "barrier">> \o Size \o <<"barrier">> \o None
                  \o <<"publish">>
<1>1. /\ Len(ops) = 9
      /\ ops[1] = "barrier" /\ ops[2] = "barrier" /\ ops[3] = "before" /\ ops[4] = "global"
      /\ ops[5] = loop /\ ops[6] = "barrier" /\ ops[7] = "size" /\ ops[8] = "barrier"
      /\ ops[9] = "publish"
  BY DEF None, Attach, Fill, Size, Fits, Before
<1> HIDE DEF ops
<1>2. loop \notin {"attach", "barrier", "fill", "before", "global", "size", "fits", "publish"}
  BY DEF LoopOps
<1>3. ASSUME NEW i \in 1 .. Len(ops)
      PROVE  /\ ops[i] = "fill" => i < 2
             /\ ops[i] = "before" => 2 < i /\ i < 4
             /\ ops[i] = "global" => i = 4
             /\ ops[i] \in LoopOps <=> i = 5
             /\ ops[i] = "size" => 6 < i /\ i < Len(ops)
             /\ ops[i] = "publish" <=> i = Len(ops)
  <2>1. i \in 1 .. 9
    BY <1>1
  <2> QED
    BY <1>1, <1>2, <2>1 DEF LoopOps
<1>4. TestSound(Steps(ops))
  <2> DEFINE test == Steps(ops)
  <2>1. Len(test) = 9 /\ \A i \in 1 .. 9 : test[i].op = ops[i]
    BY <1>1, StepsOps
  <2> HIDE DEF test
  <2>2. Fenced(test, 2, 4)
    BY <1>1, <1>3, <2>1 DEF Fenced
  <2>3. TestSound(test)
    BY <2>1, <2>2 DEF TestSound
  <2> QED
    BY <2>3 DEF test
<1> QED
  BY <1>4 DEF Test, ops

\* The six forms of main.
LEMMA MainPlain ==
    ASSUME NEW kind, NEW check \in {"assert", "warn"}
    PROVE  LET m == Main(kind, None, <<check>>)
           IN  /\ MainSound(m.steps) /\ KeepsWidth(m.steps) /\ m.kind = kind
               /\ OnlyChecks(m.steps, {check})
<1> DEFINE m == Main(kind, None, <<check>>)
           steps == m.steps
<1>0. m.kind = kind
  BY DEF Main, PutDepthOne
<1>1. /\ Len(steps) = 6
      /\ steps[1].op = "options" /\ steps[2].op = "create" /\ steps[3].op = "global"
      /\ steps[4].op = "stop" /\ steps[5].op = "join" /\ steps[6].op = check
  BY DEF Main, PutDepthOne, Steps, Do, None, Switch, ManySwitches, Scale
<1> HIDE DEF m, steps
<1>3. Staged(steps, 2, 5)
  <2>1. ASSUME NEW i \in 1 .. Len(steps)
        PROVE  /\ steps[i].op # "barrier"
               /\ steps[i].op = "options" <=> i = 1
               /\ steps[i].op = "create" => i = 2
               /\ steps[i].op = "put_depth" => i < 2
               /\ steps[i].op \in ResizeOps => 2 < i
               /\ steps[i].op \in {"assert", "warn"} => 5 < i
    <3>1. i \in 1 .. 6
      BY <1>1
    <3> QED
      BY <1>1, <3>1 DEF ResizeOps
  <2> QED
    BY <1>1, <2>1 DEF Staged
<1>4. MainSound(steps)
  BY <1>1, <1>3 DEF MainSound
<1>5. KeepsWidth(steps)
  <2> SUFFICES ASSUME NEW i \in 1 .. 6
               PROVE  KeepsWidthAt(steps[i])
    BY <1>1 DEF KeepsWidth
  <2> QED
    BY <1>1 DEF KeepsWidthAt
<1>6. OnlyChecks(steps, {check})
  <2> SUFFICES ASSUME NEW i \in 1 .. 6
               PROVE  steps[i].op \in {"assert", "warn"} => steps[i].op \in {check}
    BY <1>1 DEF OnlyChecks
  <2> QED
    BY <1>1
<1> QED
  BY <1>0, <1>4, <1>5, <1>6 DEF m, steps

LEMMA MainUnchecked ==
    ASSUME NEW kind
    PROVE  LET m == Main(kind, None, None)
           IN  /\ MainSound(m.steps) /\ KeepsWidth(m.steps) /\ m.kind = kind
               /\ OnlyChecks(m.steps, {})
<1> DEFINE m == Main(kind, None, None)
           steps == m.steps
<1>0. m.kind = kind
  BY DEF Main, PutDepthOne
<1>1. /\ Len(steps) = 5
      /\ steps[1].op = "options" /\ steps[2].op = "create" /\ steps[3].op = "global"
      /\ steps[4].op = "stop" /\ steps[5].op = "join"
  BY DEF Main, PutDepthOne, Steps, Do, None, Switch, ManySwitches, Scale
<1> HIDE DEF m, steps
<1>3. Staged(steps, 2, 5)
  <2>1. ASSUME NEW i \in 1 .. Len(steps)
        PROVE  /\ steps[i].op # "barrier"
               /\ steps[i].op = "options" <=> i = 1
               /\ steps[i].op = "create" => i = 2
               /\ steps[i].op = "put_depth" => i < 2
               /\ steps[i].op \in ResizeOps => 2 < i
               /\ steps[i].op \in {"assert", "warn"} => 5 < i
    <3>1. i \in 1 .. 5
      BY <1>1
    <3> QED
      BY <1>1, <3>1 DEF ResizeOps
  <2> QED
    BY <1>1, <2>1 DEF Staged
<1>4. MainSound(steps)
  BY <1>1, <1>3 DEF MainSound
<1>5. KeepsWidth(steps)
  <2> SUFFICES ASSUME NEW i \in 1 .. 5
               PROVE  KeepsWidthAt(steps[i])
    BY <1>1 DEF KeepsWidth
  <2> QED
    BY <1>1 DEF KeepsWidthAt
<1>6. OnlyChecks(steps, {})
  <2> SUFFICES ASSUME NEW i \in 1 .. 5
               PROVE  steps[i].op \in {"assert", "warn"} => steps[i].op \in {}
    BY <1>1 DEF OnlyChecks
  <2> QED
    BY <1>1
<1> QED
  BY <1>0, <1>4, <1>5, <1>6 DEF m, steps

LEMMA MainSwitch ==
    ASSUME NEW kind
    PROVE  LET m == Main(kind, Switch, <<"assert">>)
           IN  /\ MainSound(m.steps) /\ SwitchesWidth(m.steps) /\ m.kind = kind
               /\ OnlyChecks(m.steps, {"assert"})
<1> DEFINE m == Main(kind, Switch, <<"assert">>)
           steps == m.steps
<1>0. m.kind = kind
  BY DEF Main, PutDepthOne
<1>1. /\ Len(steps) = 8
      /\ steps[1].op = "options" /\ steps[2].op = "create" /\ steps[3].op = "global"
      /\ steps[4].op = "elastic_depth" /\ steps[5].op = "elastic_width" /\ steps[6].op = "stop"
      /\ steps[7].op = "join" /\ steps[8].op = "assert"
  BY DEF Main, PutDepthOne, Steps, Do, None, Switch, ManySwitches, Scale
<1> HIDE DEF m, steps
<1>3. Staged(steps, 2, 7)
  <2>1. ASSUME NEW i \in 1 .. Len(steps)
        PROVE  /\ steps[i].op # "barrier"
               /\ steps[i].op = "options" <=> i = 1
               /\ steps[i].op = "create" => i = 2
               /\ steps[i].op = "put_depth" => i < 2
               /\ steps[i].op \in ResizeOps => 2 < i
               /\ steps[i].op \in {"assert", "warn"} => 7 < i
    <3>1. i \in 1 .. 8
      BY <1>1
    <3> QED
      BY <1>1, <3>1 DEF ResizeOps
  <2> QED
    BY <1>1, <2>1 DEF Staged
<1>4. MainSound(steps)
  BY <1>1, <1>3 DEF MainSound
<1>5. SwitchesWidth(steps)
  <2> SUFFICES ASSUME NEW i \in 1 .. 8
               PROVE  SwitchesWidthAt(steps[i])
    BY <1>1 DEF SwitchesWidth
  <2> QED
    BY <1>1 DEF SwitchesWidthAt
<1>6. OnlyChecks(steps, {"assert"})
  <2> SUFFICES ASSUME NEW i \in 1 .. 8
               PROVE  steps[i].op \in {"assert", "warn"} => steps[i].op \in {"assert"}
    BY <1>1 DEF OnlyChecks
  <2> QED
    BY <1>1
<1> QED
  BY <1>0, <1>4, <1>5, <1>6 DEF m, steps

LEMMA MainSwitchChecked ==
    ASSUME NEW kind
    PROVE  LET m == Main(kind, Switch, <<"assert", "elastic_is">>)
           IN  /\ MainSound(m.steps) /\ SwitchesWidth(m.steps) /\ m.kind = kind
               /\ OnlyChecks(m.steps, {"assert"})
<1> DEFINE m == Main(kind, Switch, <<"assert", "elastic_is">>)
           steps == m.steps
<1>0. m.kind = kind
  BY DEF Main, PutDepthOne
<1>1. /\ Len(steps) = 9
      /\ steps[1].op = "options" /\ steps[2].op = "create" /\ steps[3].op = "global"
      /\ steps[4].op = "elastic_depth" /\ steps[5].op = "elastic_width" /\ steps[6].op = "stop"
      /\ steps[7].op = "join" /\ steps[8].op = "assert" /\ steps[9].op = "elastic_is"
  BY DEF Main, PutDepthOne, Steps, Do, None, Switch, ManySwitches, Scale
<1> HIDE DEF m, steps
<1>3. Staged(steps, 2, 7)
  <2>1. ASSUME NEW i \in 1 .. Len(steps)
        PROVE  /\ steps[i].op # "barrier"
               /\ steps[i].op = "options" <=> i = 1
               /\ steps[i].op = "create" => i = 2
               /\ steps[i].op = "put_depth" => i < 2
               /\ steps[i].op \in ResizeOps => 2 < i
               /\ steps[i].op \in {"assert", "warn"} => 7 < i
    <3>1. i \in 1 .. 9
      BY <1>1
    <3> QED
      BY <1>1, <3>1 DEF ResizeOps
  <2> QED
    BY <1>1, <2>1 DEF Staged
<1>4. MainSound(steps)
  BY <1>1, <1>3 DEF MainSound
<1>5. SwitchesWidth(steps)
  <2> SUFFICES ASSUME NEW i \in 1 .. 9
               PROVE  SwitchesWidthAt(steps[i])
    BY <1>1 DEF SwitchesWidth
  <2> QED
    BY <1>1 DEF SwitchesWidthAt
<1>6. OnlyChecks(steps, {"assert"})
  <2> SUFFICES ASSUME NEW i \in 1 .. 9
               PROVE  steps[i].op \in {"assert", "warn"} => steps[i].op \in {"assert"}
    BY <1>1 DEF OnlyChecks
  <2> QED
    BY <1>1
<1> QED
  BY <1>0, <1>4, <1>5, <1>6 DEF m, steps

LEMMA MainMany ==
    ASSUME NEW kind
    PROVE  LET m == Main(kind, ManySwitches, <<"assert">>)
           IN  /\ MainSound(m.steps) /\ ScalesWidth(m.steps) /\ m.kind = kind
               /\ OnlyChecks(m.steps, {"assert"})
<1> DEFINE m == Main(kind, ManySwitches, <<"assert">>)
           steps == m.steps
<1>0. m.kind = kind
  BY DEF Main, PutDepthOne
<1>1. /\ Len(steps) = 18
      /\ steps[1].op = "options" /\ steps[2].op = "create" /\ steps[3].op = "global"
      /\ steps[4].op = "depth" /\ steps[5].op = "depth" /\ steps[6].op = "depth"
      /\ steps[7].op = "width" /\ steps[8].op = "width" /\ steps[9].op = "width"
      /\ steps[10].op = "depth" /\ steps[11].op = "width" /\ steps[12].op = "depth"
      /\ steps[13].op = "width" /\ steps[14].op = "depth" /\ steps[15].op = "width"
      /\ steps[16].op = "stop" /\ steps[17].op = "join" /\ steps[18].op = "assert"
  BY DEF Main, PutDepthOne, Steps, Do, None, Switch, ManySwitches, Scale
<1>2. /\ steps[7].times = 1 /\ steps[7].over = 4
      /\ steps[8].times = 2 /\ steps[8].over = 1
      /\ steps[9].times = 1 /\ steps[9].over = 1
      /\ steps[11].times = 2 /\ steps[11].over = 1
      /\ steps[13].times = 1 /\ steps[13].over = 2
      /\ steps[15].times = 1 /\ steps[15].over = 1
  BY DEF Main, Steps, Do, ManySwitches, Scale
<1> HIDE DEF m, steps
<1>3. Staged(steps, 2, 17)
  <2>1. ASSUME NEW i \in 1 .. Len(steps)
        PROVE  /\ steps[i].op # "barrier"
               /\ steps[i].op = "options" <=> i = 1
               /\ steps[i].op = "create" => i = 2
               /\ steps[i].op = "put_depth" => i < 2
               /\ steps[i].op \in ResizeOps => 2 < i
               /\ steps[i].op \in {"assert", "warn"} => 17 < i
    <3>1. i \in 1 .. 18
      BY <1>1
    <3> QED
      BY <1>1, <3>1 DEF ResizeOps
  <2> QED
    BY <1>1, <2>1 DEF Staged
<1>4. MainSound(steps)
  BY <1>1, <1>3 DEF MainSound
<1>5. ScalesWidth(steps)
  <2> SUFFICES ASSUME NEW i \in 1 .. 18
               PROVE  ScalesWidthAt(steps[i])
    BY <1>1 DEF ScalesWidth
  <2> QED
    BY <1>1, <1>2 DEF ScalesWidthAt
<1>6. OnlyChecks(steps, {"assert"})
  <2> SUFFICES ASSUME NEW i \in 1 .. 18
               PROVE  steps[i].op \in {"assert", "warn"} => steps[i].op \in {"assert"}
    BY <1>1 DEF OnlyChecks
  <2> QED
    BY <1>1
<1> QED
  BY <1>0, <1>4, <1>5, <1>6 DEF m, steps

LEMMA MainPutDepth ==
    ASSUME NEW kind
    PROVE  LET m == PutDepthOne(Main(kind, None, <<"assert">>))
           IN  /\ MainSound(m.steps) /\ KeepsWidth(m.steps) /\ m.kind = kind
               /\ OnlyChecks(m.steps, {"assert"})
<1> DEFINE m == PutDepthOne(Main(kind, None, <<"assert">>))
           steps == m.steps
<1>0. m.kind = kind
  BY DEF Main, PutDepthOne
<1>1. /\ Len(steps) = 7
      /\ steps[1].op = "options" /\ steps[2].op = "put_depth" /\ steps[3].op = "create"
      /\ steps[4].op = "global" /\ steps[5].op = "stop" /\ steps[6].op = "join"
      /\ steps[7].op = "assert"
  BY DEF Main, PutDepthOne, Steps, Do, None, Switch, ManySwitches, Scale
<1> HIDE DEF m, steps
<1>3. Staged(steps, 3, 6)
  <2>1. ASSUME NEW i \in 1 .. Len(steps)
        PROVE  /\ steps[i].op # "barrier"
               /\ steps[i].op = "options" <=> i = 1
               /\ steps[i].op = "create" => i = 3
               /\ steps[i].op = "put_depth" => i < 3
               /\ steps[i].op \in ResizeOps => 3 < i
               /\ steps[i].op \in {"assert", "warn"} => 6 < i
    <3>1. i \in 1 .. 7
      BY <1>1
    <3> QED
      BY <1>1, <3>1 DEF ResizeOps
  <2> QED
    BY <1>1, <2>1 DEF Staged
<1>4. MainSound(steps)
  BY <1>1, <1>3 DEF MainSound
<1>5. KeepsWidth(steps)
  <2> SUFFICES ASSUME NEW i \in 1 .. 7
               PROVE  KeepsWidthAt(steps[i])
    BY <1>1 DEF KeepsWidth
  <2> QED
    BY <1>1 DEF KeepsWidthAt
<1>6. OnlyChecks(steps, {"assert"})
  <2> SUFFICES ASSUME NEW i \in 1 .. 7
               PROVE  steps[i].op \in {"assert", "warn"} => steps[i].op \in {"assert"}
    BY <1>1 DEF OnlyChecks
  <2> QED
    BY <1>1
<1> QED
  BY <1>0, <1>4, <1>5, <1>6 DEF m, steps

-----------------------------------------------------------------------------
\* What holds of every driver of the repository.  A size is only checked where
\* the elements are filled in, the loop counts what it does, and the structure
\* is measured.
Structures ==
    {"queue_2Dd", "queue_optimized", "queue_law", "queue_lpw", "stack_2Dc",
     "stack_optimized", "stack_elastic", "counter_2Dc", "other"}

OptionsSound(options) ==
    /\ options.structure \in Structures
    /\ options.max \in {"width", "four", "most", "raised", "unless_given"}
    /\ Known(options.structure) =>
          \A x \in {"k", "l", "w"} : x \in DOMAIN options.rules /\ options.rules[x] = "positive"
    /\ Known(options.structure) => "m" \in DOMAIN options.rules /\ options.rules["m"] = "mode"

DriverSound(d) ==
    /\ TestSound(d.test) /\ MainSound(d.main.steps) /\ OptionsSound(d.options)
    /\ d.main.kind \in {"container", "counter", "single_cas", "single_faa"}
    /\ \/ KeepsWidth(d.main.steps)
       \/ SwitchesWidth(d.main.steps) /\ d.options.max \in {"raised", "unless_given"}
       \/ ScalesWidth(d.main.steps) /\ d.options.max = "four"
    /\ \/ /\ Has(d.test, "fill") /\ Has(d.test, "size")
          /\ d.main.kind \in {"container", "counter"}
       \/ OnlyChecks(d.main.steps, {"warn"}) /\ d.main.kind # "container"
       \/ OnlyChecks(d.main.steps, {})

LEMMA OptionsTwoD ==
    ASSUME NEW structure \in Structures,
           NEW max \in {"width", "four", "most", "raised", "unless_given"}
    PROVE  /\ OptionsSound(Options(structure, TwoD, max))
           /\ OptionsSound(Options(structure, TwoD ++ Elastic, max))
           /\ Options(structure, TwoD, max).max = max
           /\ Options(structure, TwoD ++ Elastic, max).max = max
  BY DEF OptionsSound, Options, Workload, TwoD, Elastic, Rules, ++

LEMMA OptionsOther ==
    ASSUME NEW rules, NEW max \in {"width", "four", "most", "raised", "unless_given"}
    PROVE  OptionsSound(Options("other", rules, max))
  BY DEF OptionsSound, Options, Known, Structures

LEMMA Assemble ==
    ASSUME NEW test, NEW options, NEW main_
    PROVE  LET d == Driver(test, options, main_)
           IN  d.test = test /\ d.options = options /\ d.main = main_
  BY DEF Driver

LEMMA DriversAreSound ==
    ASSUME NEW d \in AllDrivers
    PROVE  DriverSound(d)
<1> USE DEF DriverSound
<1>1. CASE d = Driver(test_D2c_counter, options_D2c_counter,
                    main_D2c_counter)
  BY <1>1, Assemble, TestFilled, OptionsTwoD, MainPlain
  DEF LoopOps, Structures, test_D2c_counter, options_D2c_counter,
      main_D2c_counter
<1>2. CASE d = Driver(test_D2c_deque, options_D2c_deque,
                    main_D2c_deque)
  BY <1>2, Assemble, TestAttached, OptionsOther, MainPlain
  DEF LoopOps, Structures, test_D2c_deque, options_D2c_deque,
      main_D2c_deque
<1>3. CASE d = Driver(test_D2c_stack, options_D2c_stack,
                    main_D2c_stack)
  BY <1>3, Assemble, TestFilled, OptionsTwoD, MainPlain
  DEF LoopOps, Structures, test_D2c_stack, options_D2c_stack,
      main_D2c_stack
<1>4. CASE d = Driver(test_D2c_stack_over_time, options_D2c_stack_over_time,
                    main_D2c_stack_over_time)
  BY <1>4, Assemble, TestTimed, OptionsTwoD, MainPlain
  DEF LoopOps, Structures, test_D2c_stack_over_time, options_D2c_stack_over_time,
      main_D2c_stack_over_time
<1>5. CASE d = Driver(test_D2d_deque, options_D2d_deque,
                    main_D2d_deque)
  BY <1>5, Assemble, TestAttached, OptionsOther, MainPlain
  DEF LoopOps, Structures, test_D2d_deque, options_D2d_deque,
      main_D2d_deque
<1>6. CASE d = Driver(test_D2d_queue_over_time, options_D2d_queue_over_time,
                    main_D2d_queue_over_time)
  BY <1>6, Assemble, TestTimed, OptionsTwoD, MainPlain
  DEF LoopOps, Structures, test_D2d_queue_over_time, options_D2d_queue_over_time,
      main_D2d_queue_over_time
<1>7. CASE d = Driver(test_D2d_simple_test, options_D2d_simple_test,
                    main_D2d_simple_test)
  BY <1>7, Assemble, TestFilled, OptionsTwoD, MainPlain
  DEF LoopOps, Structures, test_D2d_simple_test, options_D2d_simple_test,
      main_D2d_simple_test
<1>8. CASE d = Driver(test_D2c_stack_optimized, options_D2c_stack_optimized,
                    main_D2c_stack_optimized)
  BY <1>8, Assemble, TestFilled, OptionsTwoD, MainPlain
  DEF LoopOps, Structures, test_D2c_stack_optimized, options_D2c_stack_optimized,
      main_D2c_stack_optimized
<1>9. CASE d = Driver(test_D2c_stack_optimized_many_switches, options_D2c_stack_optimized_many_switches,
                    main_D2c_stack_optimized_many_switches)
  BY <1>9, Assemble, TestTimed, OptionsTwoD, MainMany
  DEF LoopOps, Structures, test_D2c_stack_optimized_many_switches, options_D2c_stack_optimized_many_switches,
      main_D2c_stack_optimized_many_switches
<1>10. CASE d = Driver(test_D2c_stack_optimized_rt_benchmark, options_D2c_stack_optimized_rt_benchmark,
                    main_D2c_stack_optimized_rt_benchmark)
  BY <1>10, Assemble, TestTimed, OptionsTwoD, MainPlain
  DEF LoopOps, Structures, test_D2c_stack_optimized_rt_benchmark, options_D2c_stack_optimized_rt_benchmark,
      main_D2c_stack_optimized_rt_benchmark
<1>11. CASE d = Driver(test_D2c_stack_optimized_switch_middle, options_D2c_stack_optimized_switch_middle,
                    main_D2c_stack_optimized_switch_middle)
  BY <1>11, Assemble, TestFilled, OptionsTwoD, MainSwitch
  DEF LoopOps, Structures, test_D2c_stack_optimized_switch_middle, options_D2c_stack_optimized_switch_middle,
      main_D2c_stack_optimized_switch_middle
<1>12. CASE d = Driver(test_D2d_queue_optimized, options_D2d_queue_optimized,
                    main_D2d_queue_optimized)
  BY <1>12, Assemble, TestAttached, OptionsTwoD, MainPlain
  DEF LoopOps, Structures, test_D2d_queue_optimized, options_D2d_queue_optimized,
      main_D2d_queue_optimized
<1>13. CASE d = Driver(test_D2c_stack_elastic_lpw, options_D2c_stack_elastic_lpw,
                    main_D2c_stack_elastic_lpw)
  BY <1>13, Assemble, TestFilled, OptionsTwoD, MainPlain
  DEF LoopOps, Structures, test_D2c_stack_elastic_lpw, options_D2c_stack_elastic_lpw,
      main_D2c_stack_elastic_lpw
<1>14. CASE d = Driver(test_D2c_stack_elastic_lpw_many_switches, options_D2c_stack_elastic_lpw_many_switches,
                    main_D2c_stack_elastic_lpw_many_switches)
  BY <1>14, Assemble, TestTimed, OptionsTwoD, MainMany
  DEF LoopOps, Structures, test_D2c_stack_elastic_lpw_many_switches, options_D2c_stack_elastic_lpw_many_switches,
      main_D2c_stack_elastic_lpw_many_switches
<1>15. CASE d = Driver(test_D2c_stack_elastic_lpw_rt_benchmark, options_D2c_stack_elastic_lpw_rt_benchmark,
                    main_D2c_stack_elastic_lpw_rt_benchmark)
  BY <1>15, Assemble, TestTimed, OptionsTwoD, MainPlain
  DEF LoopOps, Structures, test_D2c_stack_elastic_lpw_rt_benchmark, options_D2c_stack_elastic_lpw_rt_benchmark,
      main_D2c_stack_elastic_lpw_rt_benchmark
<1>16. CASE d = Driver(test_D2c_stack_elastic_lpw_switch_middle, options_D2c_stack_elastic_lpw_switch_middle,
                    main_D2c_stack_elastic_lpw_switch_middle)
  BY <1>16, Assemble, TestFilled, OptionsTwoD, MainSwitch
  DEF LoopOps, Structures, test_D2c_stack_elastic_lpw_switch_middle, options_D2c_stack_elastic_lpw_switch_middle,
      main_D2c_stack_elastic_lpw_switch_middle
<1>17. CASE d = Driver(test_D2d_queue_elastic_law, options_D2d_queue_elastic_law,
                    main_D2d_queue_elastic_law)
  BY <1>17, Assemble, TestAttached, OptionsTwoD, MainPlain
  DEF LoopOps, Structures, test_D2d_queue_elastic_law, options_D2d_queue_elastic_law,
      main_D2d_queue_elastic_law
<1>18. CASE d = Driver(test_D2d_queue_elastic_law_controller, options_D2d_queue_elastic_law_controller,
                    main_D2d_queue_elastic_law_controller)
  BY <1>18, Assemble, TestFilled, OptionsTwoD, MainPlain
  DEF LoopOps, Structures, test_D2d_queue_elastic_law_controller, options_D2d_queue_elastic_law_controller,
      main_D2d_queue_elastic_law_controller
<1>19. CASE d = Driver(test_D2d_queue_elastic_law_diff_depths, options_D2d_queue_elastic_law_diff_depths,
                    main_D2d_queue_elastic_law_diff_depths)
  BY <1>19, Assemble, TestFilled, OptionsTwoD, MainPutDepth
  DEF LoopOps, Structures, test_D2d_queue_elastic_law_diff_depths, options_D2d_queue_elastic_law_diff_depths,
      main_D2d_queue_elastic_law_diff_depths
<1>20. CASE d = Driver(test_D2d_queue_elastic_law_many_switches, options_D2d_queue_elastic_law_many_switches,
                    main_D2d_queue_elastic_law_many_switches)
  BY <1>20, Assemble, TestTimed, OptionsTwoD, MainMany
  DEF LoopOps, Structures, test_D2d_queue_elastic_law_many_switches, options_D2d_queue_elastic_law_many_switches,
      main_D2d_queue_elastic_law_many_switches
<1>21. CASE d = Driver(test_D2d_queue_elastic_law_over_time, options_D2d_queue_elastic_law_over_time,
                    main_D2d_queue_elastic_law_over_time)
  BY <1>21, Assemble, TestTimed, OptionsTwoD, MainPlain
  DEF LoopOps, Structures, test_D2d_queue_elastic_law_over_time, options_D2d_queue_elastic_law_over_time,
      main_D2d_queue_elastic_law_over_time
<1>22. CASE d = Driver(test_D2d_queue_elastic_law_switch_middle, options_D2d_queue_elastic_law_switch_middle,
                    main_D2d_queue_elastic_law_switch_middle)
  BY <1>22, Assemble, TestFilled, OptionsTwoD, MainSwitchChecked
  DEF LoopOps, Structures, test_D2d_queue_elastic_law_switch_middle, options_D2d_queue_elastic_law_switch_middle,
      main_D2d_queue_elastic_law_switch_middle
<1>23. CASE d = Driver(test_D2d_queue_elastic_law_variable_workload, options_D2d_queue_elastic_law_variable_workload,
                    main_D2d_queue_elastic_law_variable_workload)
  BY <1>23, Assemble, TestTimed, OptionsTwoD, MainPlain
  DEF LoopOps, Structures, test_D2d_queue_elastic_law_variable_workload, options_D2d_queue_elastic_law_variable_workload,
      main_D2d_queue_elastic_law_variable_workload
<1>24. CASE d = Driver(test_D2d_queue_elastic_lpw, options_D2d_queue_elastic_lpw,
                    main_D2d_queue_elastic_lpw)
  BY <1>24, Assemble, TestFilled, OptionsTwoD, MainPlain
  DEF LoopOps, Structures, test_D2d_queue_elastic_lpw, options_D2d_queue_elastic_lpw,
      main_D2d_queue_elastic_lpw
<1>25. CASE d = Driver(test_D2d_queue_elastic_lpw_controller, options_D2d_queue_elastic_lpw_controller,
                    main_D2d_queue_elastic_lpw_controller)
  BY <1>25, Assemble, TestFilled, OptionsTwoD, MainPlain
  DEF LoopOps, Structures, test_D2d_queue_elastic_lpw_controller, options_D2d_queue_elastic_lpw_controller,
      main_D2d_queue_elastic_lpw_controller
<1>26. CASE d = Driver(test_D2d_queue_elastic_lpw_diff_depths, options_D2d_queue_elastic_lpw_diff_depths,
                    main_D2d_queue_elastic_lpw_diff_depths)
  BY <1>26, Assemble, TestFilled, OptionsTwoD, MainPutDepth
  DEF LoopOps, Structures, test_D2d_queue_elastic_lpw_diff_depths, options_D2d_queue_elastic_lpw_diff_depths,
      main_D2d_queue_elastic_lpw_diff_depths
<1>27. CASE d = Driver(test_D2d_queue_elastic_lpw_many_switches, options_D2d_queue_elastic_lpw_many_switches,
                    main_D2d_queue_elastic_lpw_many_switches)
  BY <1>27, Assemble, TestTimed, OptionsTwoD, MainMany
  DEF LoopOps, Structures, test_D2d_queue_elastic_lpw_many_switches, options_D2d_queue_elastic_lpw_many_switches,
      main_D2d_queue_elastic_lpw_many_switches
<1>28. CASE d = Driver(test_D2d_queue_elastic_lpw_over_time, options_D2d_queue_elastic_lpw_over_time,
                    main_D2d_queue_elastic_lpw_over_time)
  BY <1>28, Assemble, TestTimed, OptionsTwoD, MainPlain
  DEF LoopOps, Structures, test_D2d_queue_elastic_lpw_over_time, options_D2d_queue_elastic_lpw_over_time,
      main_D2d_queue_elastic_lpw_over_time
<1>29. CASE d = Driver(test_D2d_queue_elastic_lpw_switch_middle, options_D2d_queue_elastic_lpw_switch_middle,
                    main_D2d_queue_elastic_lpw_switch_middle)
  BY <1>29, Assemble, TestFilled, OptionsTwoD, MainSwitchChecked
  DEF LoopOps, Structures, test_D2d_queue_elastic_lpw_switch_middle, options_D2d_queue_elastic_lpw_switch_middle,
      main_D2d_queue_elastic_lpw_switch_middle
<1>30. CASE d = Driver(test_D2d_queue_elastic_lpw_variable_workload, options_D2d_queue_elastic_lpw_variable_workload,
                    main_D2d_queue_elastic_lpw_variable_workload)
  BY <1>30, Assemble, TestTimed, OptionsTwoD, MainPlain
  DEF LoopOps, Structures, test_D2d_queue_elastic_lpw_variable_workload, options_D2d_queue_elastic_lpw_variable_workload,
      main_D2d_queue_elastic_lpw_variable_workload
<1>31. CASE d = Driver(test_multi_counter, options_multi_counter,
                    main_multi_counter)
  BY <1>31, Assemble, TestFilled, OptionsOther, MainPlain
  DEF LoopOps, Structures, test_multi_counter, options_multi_counter,
      main_multi_counter
<1>32. CASE d = Driver(test_multi_counter_faa, options_multi_counter_faa,
                    main_multi_counter_faa)
  BY <1>32, Assemble, TestFilled, OptionsOther, MainPlain
  DEF LoopOps, Structures, test_multi_counter_faa, options_multi_counter_faa,
      main_multi_counter_faa
<1>33. CASE d = Driver(test_multi_queue, options_multi_queue,
                    main_multi_queue)
  BY <1>33, Assemble, TestFilled, OptionsOther, MainPlain
  DEF LoopOps, Structures, test_multi_queue, options_multi_queue,
      main_multi_queue
<1>34. CASE d = Driver(test_multi_stack, options_multi_stack,
                    main_multi_stack)
  BY <1>34, Assemble, TestFilled, OptionsOther, MainPlain
  DEF LoopOps, Structures, test_multi_stack, options_multi_stack,
      main_multi_stack
<1>35. CASE d = Driver(test_queue_dra, options_queue_dra,
                    main_queue_dra)
  BY <1>35, Assemble, TestFilled, OptionsOther, MainPlain
  DEF LoopOps, Structures, test_queue_dra, options_queue_dra,
      main_queue_dra
<1>36. CASE d = Driver(test_queue_k_segment, options_queue_k_segment,
                    main_queue_k_segment)
  BY <1>36, Assemble, TestFilled, OptionsOther, MainPlain
  DEF LoopOps, Structures, test_queue_k_segment, options_queue_k_segment,
      main_queue_k_segment
<1>37. CASE d = Driver(test_queue_lcrq, options_queue_lcrq,
                    main_queue_lcrq)
  BY <1>37, Assemble, TestUnmeasured, OptionsOther, MainUnchecked
  DEF LoopOps, Structures, test_queue_lcrq, options_queue_lcrq,
      main_queue_lcrq
<1>38. CASE d = Driver(test_queue_ms, options_queue_ms,
                    main_queue_ms)
  BY <1>38, Assemble, TestFilled, OptionsTwoD, MainPlain
  DEF LoopOps, Structures, test_queue_ms, options_queue_ms,
      main_queue_ms
<1>39. CASE d = Driver(test_queue_wf, options_queue_wf,
                    main_queue_wf)
  BY <1>39, Assemble, TestUnmeasured, OptionsOther, MainUnchecked
  DEF LoopOps, Structures, test_queue_wf, options_queue_wf,
      main_queue_wf
<1>40. CASE d = Driver(test_single_cas, options_single_cas,
                    main_single_cas)
  BY <1>40, Assemble, TestUnfilled, OptionsOther, MainPlain
  DEF LoopOps, Structures, test_single_cas, options_single_cas,
      main_single_cas
<1>41. CASE d = Driver(test_single_faa, options_single_faa,
                    main_single_faa)
  BY <1>41, Assemble, TestUnfilled, OptionsOther, MainPlain
  DEF LoopOps, Structures, test_single_faa, options_single_faa,
      main_single_faa
<1>42. CASE d = Driver(test_stack_dra, options_stack_dra,
                    main_stack_dra)
  BY <1>42, Assemble, TestFilled, OptionsOther, MainPlain
  DEF LoopOps, Structures, test_stack_dra, options_stack_dra,
      main_stack_dra
<1>43. CASE d = Driver(test_stack_elimination, options_stack_elimination,
                    main_stack_elimination)
  BY <1>43, Assemble, TestFilled, OptionsOther, MainPlain
  DEF LoopOps, Structures, test_stack_elimination, options_stack_elimination,
      main_stack_elimination
<1>44. CASE d = Driver(test_stack_k_segment, options_stack_k_segment,
                    main_stack_k_segment)
  BY <1>44, Assemble, TestFilled, OptionsOther, MainPlain
  DEF LoopOps, Structures, test_stack_k_segment, options_stack_k_segment,
      main_stack_k_segment
<1>45. CASE d = Driver(test_stack_treiber, options_stack_treiber,
                    main_stack_treiber)
  BY <1>45, Assemble, TestFilled, OptionsOther, MainPlain
  DEF LoopOps, Structures, test_stack_treiber, options_stack_treiber,
      main_stack_treiber
<1> QED
  BY <1>1, <1>2, <1>3, <1>4, <1>5, <1>6, <1>7, <1>8, <1>9, <1>10, <1>11, <1>12,
     <1>13, <1>14, <1>15, <1>16, <1>17, <1>18, <1>19, <1>20, <1>21, <1>22, <1>23, <1>24,
     <1>25, <1>26, <1>27, <1>28, <1>29, <1>30, <1>31, <1>32, <1>33, <1>34, <1>35, <1>36,
     <1>37, <1>38, <1>39, <1>40, <1>41, <1>42, <1>43, <1>44, <1>45
  DEF AllDrivers

-----------------------------------------------------------------------------
\* The barriers.  What a thread is at, as a function of its driver.
Barriers == {"barrier", "global"}

OpAt(d, p, i) ==
    IF p = main THEN d.main.steps[i].op
    ELSE IF i > Len(d.test) THEN "barrier" ELSE d.test[i].op

LengthOf(d, p) == IF p = main THEN Len(d.main.steps) ELSE Len(d.test) + N

LEMMA ProgramIs ==
    ASSUME NEW p, NEW i
    PROVE  Program(p, i).op = OpAt(driver, p, i) /\ Length(p) = LengthOf(driver, p)
  BY DEF Program, Length, OpAt, LengthOf, Do

BType ==
    /\ driver \in AllDrivers
    /\ pc \in [Procs -> Nat]
    /\ asleep \in SUBSET Procs
    /\ crossing \in [Barriers -> Nat]

Awake(p) == p \in Procs /\ pc[p] \in 1 .. LengthOf(driver, p) /\ p \notin asleep
Waits(b) == {q \in asleep : OpAt(driver, q, pc[q]) = b}

\* What a step means to the barriers: a thread that is at none moves on, a
\* worker is created, a thread arrives, or the last one does; or nothing.
Quiet == UNCHANGED <<driver, pc, asleep, crossing>>

Moves(p) ==
    /\ Awake(p) /\ OpAt(driver, p, pc[p]) \notin Barriers
    /\ pc' = [pc EXCEPT ![p] = @ + 1]
    /\ UNCHANGED <<driver, asleep, crossing>>

Starts(t) ==
    /\ t \in Workers /\ pc[t] = 0 /\ pc' = [pc EXCEPT ![t] = 1]
    /\ UNCHANGED <<driver, asleep, crossing>>

Arrives(p, b) ==
    /\ Awake(p) /\ OpAt(driver, p, pc[p]) = b
    /\ crossing[b] + 1 < Count(b)
    /\ crossing' = [crossing EXCEPT ![b] = @ + 1]
    /\ asleep' = asleep \cup {p}
    /\ UNCHANGED <<driver, pc>>

Opens(p, b) ==
    /\ Awake(p) /\ OpAt(driver, p, pc[p]) = b
    /\ crossing[b] + 1 >= Count(b)
    /\ crossing' = [crossing EXCEPT ![b] = 0]
    /\ asleep' = asleep \ Waits(b)
    /\ pc' = [q \in Procs |-> pc[q] + (IF q \in Waits(b) \cup {p} THEN 1 ELSE 0)]
    /\ UNCHANGED driver

BStep ==
    \/ Quiet
    \/ \E p \in Procs : Moves(p)
    \/ \E t \in Workers : Starts(t)
    \/ \E p \in Procs, b \in Barriers : Arrives(p, b) \/ Opens(p, b)

LEMMA ProcsFacts == main \in Procs /\ Workers \subseteq Procs /\ main \notin Workers
                    /\ Procs = Workers \cup {main} /\ \A t \in Workers : t # main
  BY DriverAssumption DEF Procs, Workers, main

LEMMA AtIs ==
    ASSUME BType, NEW p \in Procs, NEW op, At(p, op)
    PROVE  Awake(p) /\ OpAt(driver, p, pc[p]) = op
<1>1. TestSound(driver.test) /\ MainSound(driver.main.steps)
  BY DriversAreSound DEF BType, DriverSound
<1>2. LengthOf(driver, p) \in Nat
  BY <1>1, DriverAssumption DEF LengthOf, TestSound, MainSound
<1>3. Length(p) = LengthOf(driver, p) /\ Program(p, pc[p]).op = OpAt(driver, p, pc[p])
  BY ProgramIs
<1>4. pc[p] \in Nat
  BY DEF BType
<1> QED
  BY <1>2, <1>3, <1>4 DEF At, Done, Awake

LEMMA CrossIs ==
    ASSUME BType, NEW p \in Procs, NEW b \in Barriers, Cross(p, b)
    PROVE  Arrives(p, b) \/ Opens(p, b)
<1>1. Awake(p) /\ OpAt(driver, p, pc[p]) = b
  BY AtIs DEF Cross
<1>2. {q \in asleep : Program(q, pc[q]).op = b} = Waits(b)
  BY ProgramIs DEF Waits
<1> QED
  BY <1>1, <1>2 DEF Cross, Arrives, Opens

LEMMA AdvanceIs ==
    ASSUME BType, NEW p \in Procs, NEW op, At(p, op), op \notin Barriers, Advance(p),
           UNCHANGED <<driver, asleep, crossing>>
    PROVE  Moves(p)
  BY AtIs DEF Advance, Moves

\* Every action is one of these steps.
LEMMA StepKinds ==
    ASSUME BType, [Next]_vars
    PROVE  BStep
<1> USE ProcsFacts
<1>1. ASSUME NEW t \in Workers, Worker(t) PROVE BStep
  <2>0. t \in Procs
    OBVIOUS
  <2>1. CASE Attaches(t)
    BY <2>0, <2>1, AdvanceIs DEF Attaches, BStep, Barriers
  <2>2. CASE Fills(t)
    <3>1. At(t, "fill") /\ UNCHANGED <<driver, asleep, crossing>> /\ (UNCHANGED pc \/ Advance(t))
      BY <2>2 DEF Fills
    <3> QED
      BY <2>0, <3>1, AdvanceIs DEF BStep, Barriers, Quiet
  <2>3. CASE LoopTest(t)
    <3>1. /\ At(t, "updates") \/ At(t, "timed") \/ At(t, "scheduled")
          /\ UNCHANGED <<driver, asleep, crossing>> /\ (UNCHANGED pc \/ Advance(t))
      BY <2>3 DEF LoopTest, Looping
    <3> QED
      BY <2>0, <3>1, AdvanceIs DEF BStep, Barriers, Quiet
  <2>4. CASE PeriodTest(t)
    <3>1. At(t, "scheduled") /\ UNCHANGED <<driver, asleep, crossing>> /\ (UNCHANGED pc \/ Advance(t))
      BY <2>4 DEF PeriodTest
    <3> QED
      BY <2>0, <3>1, AdvanceIs DEF BStep, Barriers, Quiet
  <2>5. CASE LoopOperation(t)
    BY <2>5 DEF LoopOperation, BStep, Quiet
  <2>6. CASE Timestamp(t)
    BY <2>6 DEF Timestamp, BStep, Quiet
  <2>7. CASE Measure(t)
    <3>1. /\ At(t, "before") \/ At(t, "size")
          /\ UNCHANGED <<driver, asleep, crossing>> /\ Advance(t)
      BY <2>7 DEF Measure, Measuring
    <3> QED
      BY <2>0, <3>1, AdvanceIs DEF BStep, Barriers
  <2>8. CASE TimestampsFit(t)
    BY <2>0, <2>8, AdvanceIs DEF TimestampsFit, BStep, Barriers
  <2>9. CASE Publish(t)
    BY <2>0, <2>9, AdvanceIs DEF Publish, BStep, Barriers
  <2> QED
    BY <1>1, <2>1, <2>2, <2>3, <2>4, <2>5, <2>6, <2>7, <2>8, <2>9 DEF Worker
<1>2. ASSUME NEW p \in Procs, NEW b \in {"barrier", "global"}, Cross(p, b) PROVE BStep
  BY <1>2, CrossIs DEF BStep, Barriers
<1>3. CASE MainThread
  <2>1. CASE Configure
    <3>1. At(main, "options") /\ UNCHANGED <<driver, asleep, crossing>> /\ (UNCHANGED pc \/ Advance(main))
      BY <2>1 DEF Configure
    <3> QED
      BY <3>1, AdvanceIs DEF BStep, Barriers, Quiet
  <2>2. CASE Create
    <3>1. /\ At(main, "create") /\ UNCHANGED <<driver, asleep, crossing>>
          /\ UNCHANGED pc \/ Advance(main) \/ \E t \in Workers : pc[t] = 0 /\ pc' = [pc EXCEPT ![t] = 1]
      BY <2>2 DEF Create
    <3> QED
      BY <3>1, AdvanceIs DEF BStep, Barriers, Quiet, Starts
  <2>3. CASE ResizeDepth
    <3>1. /\ At(main, "put_depth") \/ At(main, "depth") \/ At(main, "elastic_depth")
          /\ UNCHANGED <<driver, asleep, crossing>> /\ Advance(main)
      BY <2>3 DEF ResizeDepth
    <3> QED
      BY <3>1, AdvanceIs DEF BStep, Barriers
  <2>4. CASE ResizeWidth
    <3>1. /\ At(main, "width") \/ At(main, "elastic_width")
          /\ UNCHANGED <<driver, asleep, crossing>> /\ Advance(main)
      BY <2>4 DEF ResizeWidth
    <3> QED
      BY <3>1, AdvanceIs DEF BStep, Barriers
  <2>5. CASE Stop
    BY <2>5, AdvanceIs DEF Stop, BStep, Barriers
  <2>6. CASE Join
    BY <2>6, AdvanceIs DEF Join, BStep, Barriers
  <2>7. CASE Check
    <3>1. /\ At(main, "assert") \/ At(main, "elastic_is") \/ At(main, "warn")
          /\ UNCHANGED <<driver, asleep, crossing>> /\ Advance(main)
      BY <2>7 DEF Check
    <3> QED
      BY <3>1, AdvanceIs DEF BStep, Barriers
  <2> QED
    BY <1>3, <2>1, <2>2, <2>3, <2>4, <2>5, <2>6, <2>7 DEF MainThread
<1>4. CASE UNCHANGED vars
  BY <1>4 DEF vars, BStep, Quiet
<1> QED
  BY <1>1, <1>2, <1>3, <1>4 DEF Next

-----------------------------------------------------------------------------
\* The invariant of the barriers: who sleeps is at a barrier and is counted;
\* the workers have passed the same barriers, and all threads the start, or
\* none.
Passed(p) == \E i \in Nat : 1 <= i /\ i < pc[p] /\ OpAt(driver, p, i) = "global"

Sleepers ==
    \A q \in asleep :
        pc[q] \in 1 .. LengthOf(driver, q) /\ OpAt(driver, q, pc[q]) \in Barriers
Counts == \A b \in Barriers : crossing[b] = Cardinality(Waits(b))
Together ==
    \A t, u \in Workers : \A i \in Nat :
        (i >= 1 /\ OpAt(driver, t, i) = "barrier") => (pc[t] > i <=> pc[u] > i)
StartTogether == \A p, q \in Procs : Passed(p) <=> Passed(q)

BarrierInv == BType /\ Sleepers /\ Counts /\ Together /\ StartTogether

LEMMA WorkersAlike ==
    ASSUME NEW d, NEW t \in Workers, NEW u \in Workers, NEW i
    PROVE  OpAt(d, t, i) = OpAt(d, u, i)
  BY ProcsFacts DEF OpAt

LEMMA MainNoBarrier ==
    ASSUME BType, NEW i \in 1 .. LengthOf(driver, main)
    PROVE  OpAt(driver, main, i) # "barrier"
<1>1. MainSound(driver.main.steps)
  BY DriversAreSound DEF BType, DriverSound
<1> QED
  BY <1>1 DEF MainSound, Staged, OpAt, LengthOf

LEMMA FiniteThreads ==
    /\ IsFiniteSet(Workers) /\ Cardinality(Workers) = N
    /\ IsFiniteSet(Procs) /\ Cardinality(Procs) = N + 1
  BY DriverAssumption, FS_Interval DEF Workers, Procs

LEMMA WaitsFinite ==
    ASSUME BType, NEW b
    PROVE  IsFiniteSet(Waits(b)) /\ Cardinality(Waits(b)) \in Nat
<1>1. Waits(b) \in SUBSET Procs
  BY DEF Waits, BType
<1> QED
  BY <1>1, FiniteThreads, FS_Subset, FS_CardinalityType

LEMMA BTypeStep ==
    ASSUME BType, BStep
    PROVE  BType' /\ driver' = driver
<1> USE ProcsFacts
<1>1. CASE Quiet
  BY <1>1 DEF Quiet, BType
<1>2. ASSUME NEW p \in Procs, Moves(p) PROVE BType' /\ driver' = driver
  BY <1>2 DEF Moves, BType
<1>3. ASSUME NEW t \in Workers, Starts(t) PROVE BType' /\ driver' = driver
  BY <1>3 DEF Starts, BType
<1>4. ASSUME NEW p \in Procs, NEW b \in Barriers, Arrives(p, b) PROVE BType' /\ driver' = driver
  BY <1>4 DEF Arrives, BType
<1>5. ASSUME NEW p \in Procs, NEW b \in Barriers, Opens(p, b) PROVE BType' /\ driver' = driver
  BY <1>5 DEF Opens, BType
<1> QED
  BY <1>1, <1>2, <1>3, <1>4, <1>5 DEF BStep

\* A barrier opens when all threads that cross it are there, at the same step
\* if it is the workers' one.
LEMMA OpensForAll ==
    ASSUME BarrierInv, NEW p \in Procs, NEW b \in Barriers, Opens(p, b)
    PROVE  /\ b = "barrier" => Waits(b) \cup {p} = Workers
           /\ b = "global" => Waits(b) \cup {p} = Procs
<1> DEFINE all == Waits(b) \cup {p}
<1>0. BType /\ Sleepers /\ Counts
  BY DEF BarrierInv
<1>1. p \notin Waits(b) /\ Waits(b) \subseteq Procs
  BY <1>0 DEF Opens, Awake, Waits, BType
<1>2. Cardinality(all) = Cardinality(Waits(b)) + 1 /\ IsFiniteSet(all)
  BY <1>0, <1>1, WaitsFinite, FS_AddElement
<1>3. Cardinality(all) >= Count(b)
  BY <1>0, <1>2 DEF Opens, Counts
<1>4. Cardinality(all) \in Nat
  BY <1>2, FS_CardinalityType
<1> HIDE DEF all
<1>5. CASE b = "global"
  <2>1. all \in SUBSET Procs
    BY <1>1 DEF all
  <2>2. Cardinality(all) = Cardinality(Procs)
    BY <1>3, <1>4, <1>5, <2>1, FiniteThreads, FS_Subset, DriverAssumption DEF Count
  <2> QED
    BY <1>5, <2>1, <2>2, FiniteThreads, FS_Subset DEF all
<1>6. CASE b = "barrier"
  <2>1. ASSUME NEW q \in all PROVE q \in Workers
    <3>1. q \in Procs /\ pc[q] \in 1 .. LengthOf(driver, q) /\ OpAt(driver, q, pc[q]) = "barrier"
      BY <1>0, <1>1, <1>6 DEF all, Opens, Awake, Waits, Sleepers
    <3> QED
      BY <1>0, <3>1, ProcsFacts, MainNoBarrier
  <2>2. all \in SUBSET Workers
    BY <2>1
  <2>3. Cardinality(all) = Cardinality(Workers)
    BY <1>3, <1>4, <1>6, <2>2, FiniteThreads, FS_Subset, DriverAssumption DEF Count
  <2> QED
    BY <1>6, <2>2, <2>3, FiniteThreads, FS_Subset DEF all
<1> QED
  BY <1>5, <1>6 DEF Barriers, all

\* At the workers' barrier all workers are at the same step.
LEMMA OneStep ==
    ASSUME BarrierInv, NEW t \in Workers, NEW u \in Workers,
           pc[t] >= 1, pc[u] >= 1,
           OpAt(driver, t, pc[t]) = "barrier", OpAt(driver, u, pc[u]) = "barrier"
    PROVE  pc[t] = pc[u]
<1>1. pc[t] \in Nat /\ pc[u] \in Nat
  BY ProcsFacts DEF BarrierInv, BType
<1> QED
  BY <1>1 DEF BarrierInv, Together

\* Passing a step that is not a global barrier does not start a thread.
LEMMA PassedOther ==
    ASSUME BType, BType', driver' = driver, NEW q \in Procs,
           \/ pc'[q] = pc[q]
           \/ pc[q] = 0 /\ pc'[q] = 1
           \/ pc'[q] = pc[q] + 1 /\ OpAt(driver, q, pc[q]) # "global"
    PROVE  Passed(q)' <=> Passed(q)
<1>1. pc[q] \in Nat /\ pc'[q] \in Nat
  BY DEF BType
<1> QED
  BY <1>1 DEF Passed

LEMMA PassedGlobal ==
    ASSUME BType, driver' = driver, NEW q \in Procs, pc[q] >= 1,
           pc'[q] = pc[q] + 1, OpAt(driver, q, pc[q]) = "global"
    PROVE  Passed(q)'
<1>1. pc[q] \in Nat
  BY DEF BType
<1> QED
  BY <1>1 DEF Passed

LEMMA MovesKeeps ==
    ASSUME BarrierInv, BType', NEW p \in Procs, Moves(p)
    PROVE  BarrierInv'
<1>0. BType /\ Sleepers /\ Counts /\ Together /\ StartTogether
  BY DEF BarrierInv
<1>1. /\ driver' = driver /\ asleep' = asleep /\ crossing' = crossing
      /\ p \notin asleep /\ pc[p] \in Nat /\ pc[p] >= 1
      /\ OpAt(driver, p, pc[p]) \notin Barriers
      /\ pc'[p] = pc[p] + 1 /\ \A q \in Procs : q # p => pc'[q] = pc[q]
  BY <1>0 DEF Moves, Awake, BType
<1>2. \A q \in asleep : pc'[q] = pc[q]
  BY <1>0, <1>1 DEF BType
<1>3. Sleepers'
  BY <1>0, <1>1, <1>2 DEF Sleepers
<1>4. ASSUME NEW b \in Barriers PROVE Waits(b)' = Waits(b)
  BY <1>1, <1>2 DEF Waits
<1>5. Counts'
  BY <1>0, <1>1, <1>4 DEF Counts
<1>6. Together'
  <2> SUFFICES ASSUME NEW t \in Workers, NEW u \in Workers, NEW i \in Nat, i >= 1,
                      OpAt(driver, t, i) = "barrier"
               PROVE  pc'[t] > i <=> pc'[u] > i
    BY <1>1 DEF Together
  <2>1. pc[t] > i <=> pc[u] > i
    BY <1>0 DEF Together
  <2>2. ASSUME NEW v \in Workers PROVE pc'[v] > i <=> pc[v] > i
    <3>1. v \in Procs /\ pc[v] \in Nat /\ OpAt(driver, v, i) = "barrier"
      BY <1>0, ProcsFacts, WorkersAlike DEF BType
    <3>2. CASE v = p
      <4>1. i # pc[p]
        BY <1>1, <3>1, <3>2 DEF Barriers
      <4> QED
        BY <1>1, <3>2, <4>1
    <3>3. CASE v # p
      BY <1>1, <3>1, <3>3
    <3> QED
      BY <3>2, <3>3
  <2> QED
    BY <2>1, <2>2
<1>7. StartTogether'
  <2>1. ASSUME NEW q \in Procs PROVE Passed(q)' <=> Passed(q)
    <3>1. pc'[q] = pc[q] \/ (pc'[q] = pc[q] + 1 /\ OpAt(driver, q, pc[q]) # "global")
      BY <1>1 DEF Barriers
    <3> QED
      BY <1>0, <1>1, <3>1, PassedOther
  <2> QED
    BY <1>0, <2>1 DEF StartTogether
<1> QED
  BY <1>3, <1>5, <1>6, <1>7 DEF BarrierInv

LEMMA StartsKeeps ==
    ASSUME BarrierInv, BType', NEW p \in Workers, Starts(p)
    PROVE  BarrierInv'
<1>0. BType /\ Sleepers /\ Counts /\ Together /\ StartTogether /\ p \in Procs
  BY ProcsFacts DEF BarrierInv
<1>1. /\ driver' = driver /\ asleep' = asleep /\ crossing' = crossing
      /\ pc[p] = 0 /\ pc'[p] = 1 /\ \A q \in Procs : q # p => pc'[q] = pc[q]
  BY <1>0 DEF Starts, BType
<1>2. \A q \in asleep : pc'[q] = pc[q]
  <2>1. \A q \in asleep : q \in Procs /\ pc[q] # 0
    BY <1>0 DEF Sleepers, BType
  <2> QED
    BY <1>1, <2>1
<1>3. Sleepers'
  BY <1>0, <1>1, <1>2 DEF Sleepers
<1>4. ASSUME NEW b \in Barriers PROVE Waits(b)' = Waits(b)
  BY <1>1, <1>2 DEF Waits
<1>5. Counts'
  BY <1>0, <1>1, <1>4 DEF Counts
<1>6. Together'
  <2> SUFFICES ASSUME NEW t \in Workers, NEW u \in Workers, NEW i \in Nat, i >= 1,
                      OpAt(driver, t, i) = "barrier"
               PROVE  pc'[t] > i <=> pc'[u] > i
    BY <1>1 DEF Together
  <2>1. pc[t] > i <=> pc[u] > i
    BY <1>0 DEF Together
  <2>2. ASSUME NEW v \in Workers PROVE pc'[v] > i <=> pc[v] > i
    <3>1. v \in Procs /\ pc[v] \in Nat
      BY <1>0, ProcsFacts DEF BType
    <3> QED
      BY <1>1, <3>1
  <2> QED
    BY <2>1, <2>2
<1>7. StartTogether'
  <2>1. ASSUME NEW q \in Procs PROVE Passed(q)' <=> Passed(q)
    <3>1. pc'[q] = pc[q] \/ (pc[q] = 0 /\ pc'[q] = 1)
      BY <1>1
    <3> QED
      BY <1>0, <1>1, <3>1, PassedOther
  <2> QED
    BY <1>0, <2>1 DEF StartTogether
<1> QED
  BY <1>3, <1>5, <1>6, <1>7 DEF BarrierInv

LEMMA ArrivesKeeps ==
    ASSUME BarrierInv, BType', NEW p \in Procs, NEW b \in Barriers, Arrives(p, b)
    PROVE  BarrierInv'
<1>0. BType /\ Sleepers /\ Counts /\ Together /\ StartTogether
  BY DEF BarrierInv
<1>1. /\ driver' = driver /\ pc' = pc /\ asleep' = asleep \cup {p}
      /\ p \notin asleep /\ pc[p] \in 1 .. LengthOf(driver, p) /\ OpAt(driver, p, pc[p]) = b
      /\ crossing'[b] = crossing[b] + 1
      /\ \A c \in Barriers : c # b => crossing'[c] = crossing[c]
  BY <1>0 DEF Arrives, Awake, BType
<1>2. Sleepers'
  BY <1>0, <1>1 DEF Sleepers
<1>3. Counts'
  <2> SUFFICES ASSUME NEW c \in Barriers PROVE crossing'[c] = Cardinality(Waits(c)')
    BY DEF Counts
  <2>1. CASE c = b
    <3>1. Waits(b)' = Waits(b) \cup {p} /\ p \notin Waits(b)
      BY <1>1 DEF Waits
    <3>2. IsFiniteSet(Waits(b))
      BY <1>0, WaitsFinite
    <3>3. Cardinality(Waits(b) \cup {p}) = Cardinality(Waits(b)) + 1
      BY <3>1, <3>2, FS_AddElement
    <3>4. crossing[b] = Cardinality(Waits(b))
      BY <1>0 DEF Counts
    <3> QED
      BY <1>1, <2>1, <3>1, <3>3, <3>4
  <2>2. CASE c # b
    <3>1. Waits(c)' = Waits(c)
      BY <1>1, <2>2 DEF Waits
    <3> QED
      BY <1>0, <1>1, <2>2, <3>1 DEF Counts
  <2> QED
    BY <2>1, <2>2
<1>4. Together' /\ StartTogether'
  BY <1>0, <1>1 DEF Together, StartTogether, Passed
<1> QED
  BY <1>2, <1>3, <1>4 DEF BarrierInv

LEMMA OpensKeeps ==
    ASSUME BarrierInv, BType', NEW p \in Procs, NEW b \in Barriers, Opens(p, b)
    PROVE  BarrierInv'
<1> DEFINE all == Waits(b) \cup {p}
<1>0. BType /\ Sleepers /\ Counts /\ Together /\ StartTogether
  BY DEF BarrierInv
<1>1. /\ driver' = driver /\ asleep' = asleep \ Waits(b)
      /\ p \notin asleep /\ pc[p] \in 1 .. LengthOf(driver, p) /\ OpAt(driver, p, pc[p]) = b
      /\ crossing'[b] = 0
      /\ \A c \in Barriers : c # b => crossing'[c] = crossing[c]
  BY <1>0 DEF Opens, Awake, BType
<1>2. /\ \A q \in all : q \in Procs /\ pc'[q] = pc[q] + 1 /\ pc[q] \in Nat /\ pc[q] >= 1
                       /\ OpAt(driver, q, pc[q]) = b
      /\ \A q \in Procs \ all : pc'[q] = pc[q]
  <2>1. \A q \in all : q \in Procs /\ pc[q] \in Nat /\ pc[q] >= 1 /\ OpAt(driver, q, pc[q]) = b
    BY <1>0, <1>1 DEF Waits, Sleepers, BType
  <2>2. \A q \in Procs : pc'[q] = pc[q] + (IF q \in all THEN 1 ELSE 0)
    BY DEF Opens
  <2> HIDE DEF all
  <2>3. \A q \in Procs : pc[q] \in Nat
    BY <1>0 DEF BType
  <2> QED
    BY <2>1, <2>2, <2>3
<1>3. \A q \in asleep' : q \in asleep /\ q \in Procs \ all
  BY <1>0, <1>1 DEF BType
<1>4. Sleepers'
  BY <1>0, <1>1, <1>2, <1>3 DEF Sleepers
<1>5. Counts'
  <2> SUFFICES ASSUME NEW c \in Barriers PROVE crossing'[c] = Cardinality(Waits(c)')
    BY DEF Counts
  <2>1. CASE c = b
    <3>1. Waits(b)' = {}
      BY <1>1, <1>2, <1>3 DEF Waits
    <3> QED
      BY <1>1, <2>1, <3>1, FS_EmptySet
  <2>2. CASE c # b
    <3>1. Waits(c)' = Waits(c)
      <4>1. \A q \in Waits(c) : q \in asleep' /\ pc'[q] = pc[q]
        BY <1>1, <1>2, <1>3, <2>2 DEF Waits
      <4>2. \A q \in Waits(c)' : q \in Waits(c)
        BY <1>1, <1>2, <1>3 DEF Waits
      <4> QED
        BY <1>1, <4>1, <4>2 DEF Waits
    <3> QED
      BY <1>0, <1>1, <2>2, <3>1 DEF Counts
  <2> QED
    BY <2>1, <2>2
<1>6. CASE b = "barrier"
  <2>1. all = Workers
    BY <1>6, OpensForAll
  <2> HIDE DEF all
  <2>2. Together'
    <3>1. \A t, u \in Workers : pc'[t] = pc'[u]
      BY <1>2, <1>6, <2>1, OneStep
    <3> QED
      BY <3>1 DEF Together
  <2>3. StartTogether'
    <3>1. ASSUME NEW q \in Procs PROVE Passed(q)' <=> Passed(q)
      BY <1>0, <1>1, <1>2, <1>6, PassedOther
    <3> QED
      BY <1>0, <3>1 DEF StartTogether
  <2> QED
    BY <1>4, <1>5, <2>2, <2>3 DEF BarrierInv
<1>7. CASE b = "global"
  <2>1. all = Procs
    BY <1>7, OpensForAll
  <2> HIDE DEF all
  <2>2. Together'
    <3> SUFFICES ASSUME NEW t \in Workers, NEW u \in Workers, NEW i \in Nat, i >= 1,
                        OpAt(driver, t, i) = "barrier"
                 PROVE  pc'[t] > i <=> pc'[u] > i
      BY <1>1 DEF Together
    <3>1. pc[t] > i <=> pc[u] > i
      BY <1>0 DEF Together
    <3>2. ASSUME NEW v \in Workers PROVE pc'[v] > i <=> pc[v] > i
      <4>1. v \in all /\ OpAt(driver, v, i) = "barrier"
        BY <2>1, ProcsFacts, WorkersAlike
      <4>2. pc[v] # i
        BY <1>2, <1>7, <4>1
      <4> QED
        BY <1>2, <4>1, <4>2
    <3> QED
      BY <3>1, <3>2
  <2>3. StartTogether'
    BY <1>0, <1>1, <1>2, <1>7, <2>1, PassedGlobal DEF StartTogether
  <2> QED
    BY <1>4, <1>5, <2>2, <2>3 DEF BarrierInv
<1> QED
  BY <1>6, <1>7 DEF Barriers

LEMMA BarrierStep ==
    ASSUME BarrierInv, [Next]_vars
    PROVE  BarrierInv'
<1>1. BStep
  BY StepKinds DEF BarrierInv
<1>2. BType'
  BY <1>1, BTypeStep DEF BarrierInv
<1>3. CASE Quiet
  <2>1. BarrierInv' <=> BarrierInv
    BY <1>3 DEF Quiet, BarrierInv, BType, Sleepers, Counts, Waits, Together, StartTogether, Passed
  <2> QED
    BY <2>1
<1> QED
  BY <1>1, <1>2, <1>3, MovesKeeps, StartsKeeps, ArrivesKeeps, OpensKeeps DEF BStep

LEMMA BarrierInit ==
    ASSUME Init
    PROVE  BarrierInv
<1>1. BType
  BY InvocationsAssumption, ProcsFacts DEF Init, BType, Barriers
<1>2. asleep = {} /\ \A t \in Workers : pc[t] = 0
  BY ProcsFacts DEF Init
<1>3. Counts
  <2>1. \A b \in Barriers : Waits(b) = {} /\ crossing[b] = 0
    BY <1>2 DEF Waits, Init, Barriers
  <2> QED
    BY <2>1, FS_EmptySet DEF Counts
<1>4. \A p \in Procs : ~Passed(p)
  <2>1. \A p \in Procs : pc[p] \in {0, 1}
    BY DEF Init
  <2> QED
    BY <2>1 DEF Passed
<1> QED
  BY <1>1, <1>2, <1>3, <1>4 DEF BarrierInv, Sleepers, Together, StartTogether

\* The barriers of the drivers hold, for any number of workers.
THEOREM BarriersHold == Spec => []BarrierInv
<1>1. Init => BarrierInv
  BY BarrierInit
<1>2. BarrierInv /\ [Next]_vars => BarrierInv'
  BY BarrierStep
<1> QED
  BY <1>1, <1>2, PTL DEF Spec

-----------------------------------------------------------------------------
\* Where a worker is, by the shape of its test.
LEMMA WorkerAt ==
    ASSUME BType, NEW t \in Workers, NEW op, op # "barrier", At(t, op)
    PROVE  pc[t] \in 1 .. Len(driver.test) /\ driver.test[pc[t]].op = op
<1>1. Awake(t) /\ OpAt(driver, t, pc[t]) = op /\ t # main
  BY ProcsFacts, AtIs
<1>2. TestSound(driver.test)
  BY DriversAreSound DEF BType, DriverSound
<1> QED
  BY <1>1, <1>2 DEF Awake, OpAt, LengthOf, TestSound

\* Behind a barrier of the workers, no worker is before it.
LEMMA BarrierParts ==
    ASSUME BarrierInv, NEW i \in 1 .. Len(driver.test), driver.test[i].op = "barrier",
           NEW t \in Workers, NEW u \in Workers
    PROVE  pc[t] > i <=> pc[u] > i
<1>1. TestSound(driver.test)
  BY DriversAreSound DEF BarrierInv, BType, DriverSound
<1>2. OpAt(driver, t, i) = "barrier" /\ i \in Nat /\ i >= 1
  BY <1>1, ProcsFacts DEF OpAt, TestSound
<1> QED
  BY <1>2 DEF BarrierInv, Together

\* A worker has started when it is behind the global barrier of test.
LEMMA StartedWhen ==
    ASSUME BarrierInv, NEW fence \in Nat, NEW start \in Nat, Fenced(driver.test, fence, start),
           NEW t \in Workers, pc[t] \in 1 .. Len(driver.test)
    PROVE  Passed(t) <=> pc[t] > start
<1>1. t # main /\ pc[t] \in Nat /\ Len(driver.test) \in Nat
  <2>1. TestSound(driver.test)
    BY DriversAreSound DEF BarrierInv, BType, DriverSound
  <2> QED
    BY <2>1, ProcsFacts DEF BarrierInv, BType, TestSound
<1>2. ASSUME NEW i \in 1 .. Len(driver.test) PROVE OpAt(driver, t, i) = driver.test[i].op
  BY <1>1, <1>2 DEF OpAt
<1>3. /\ start \in 1 .. Len(driver.test) /\ driver.test[start].op = "global"
      /\ \A i \in 1 .. Len(driver.test) : driver.test[i].op = "global" => i = start
  BY DEF Fenced
<1>4. ASSUME Passed(t) PROVE pc[t] > start
  <2>1. PICK i \in Nat : 1 <= i /\ i < pc[t] /\ OpAt(driver, t, i) = "global"
    BY <1>4 DEF Passed
  <2>2. i \in 1 .. Len(driver.test)
    BY <1>1, <2>1
  <2> QED
    BY <1>2, <1>3, <2>1, <2>2
<1>5. ASSUME pc[t] > start PROVE Passed(t)
  <2>1. 1 <= start /\ start < pc[t] /\ OpAt(driver, t, start) = "global"
    BY <1>1, <1>2, <1>3, <1>5
  <2> QED
    BY <2>1 DEF Passed
<1> QED
  BY <1>4, <1>5

\* What Fenced says of the places of the steps.
LEMMA FencedIs ==
    ASSUME NEW test, Len(test) \in Nat, NEW fence \in Nat, NEW start \in Nat,
           Fenced(test, fence, start)
    PROVE  /\ fence \in 1 .. Len(test) /\ start \in 1 .. Len(test) /\ fence < start
           /\ start + 2 \in 1 .. Len(test)
           /\ test[fence].op = "barrier" /\ test[start + 2].op = "barrier"
           /\ \A i \in 1 .. Len(test) :
                 /\ test[i].op = "fill" => i < fence
                 /\ test[i].op = "before" => fence < i /\ i < start
                 /\ test[i].op \in LoopOps <=> i = start + 1
                 /\ test[i].op = "size" => start + 2 < i /\ i < Len(test)
<1>1. /\ fence \in 1 .. Len(test) /\ start \in 1 .. Len(test) /\ fence < start
      /\ start + 3 <= Len(test)
      /\ test[fence].op = "barrier" /\ test[start + 2].op = "barrier"
  BY DEF Fenced
<1>2. \A i \in 1 .. Len(test) :
         /\ test[i].op = "fill" => i < fence
         /\ test[i].op = "before" => fence < i /\ i < start
         /\ test[i].op \in LoopOps <=> i = start + 1
         /\ test[i].op = "size" => start + 2 < i /\ i < Len(test)
  BY DEF Fenced
<1>3. start + 2 \in 1 .. Len(test)
  BY <1>1
<1> QED
  BY <1>1, <1>2, <1>3

LEMMA RestFollows ==
    ASSUME BarrierInv
    PROVE  MeasuredAtRest
<1>0. BType /\ TestSound(driver.test) /\ 0 \in Workers
  BY DriversAreSound, DriverAssumption DEF BarrierInv, BType, DriverSound, Workers
<1>1. PICK fence \in Nat, start \in Nat : Fenced(driver.test, fence, start)
  BY <1>0 DEF TestSound
<1> DEFINE test == driver.test
<1>2. /\ fence \in 1 .. Len(test) /\ start \in 1 .. Len(test) /\ Len(test) \in Nat
      /\ fence < start /\ start + 2 \in 1 .. Len(test)
      /\ test[fence].op = "barrier" /\ test[start + 2].op = "barrier"
      /\ \A i \in 1 .. Len(test) :
            /\ test[i].op = "fill" => i < fence
            /\ test[i].op = "before" => fence < i /\ i < start
            /\ test[i].op \in LoopOps <=> i = start + 1
            /\ test[i].op = "size" => start + 2 < i /\ i < Len(test)
  <2>1. Len(test) \in Nat
    BY <1>0 DEF TestSound
  <2> HIDE DEF test
  <2>2. Fenced(test, fence, start)
    BY <1>1 DEF test
  <2> QED
    BY <2>1, <2>2, FencedIs
<1> SUFFICES ASSUME Measuring(0), NEW t \in Workers
             PROVE  ~Looping(t) /\ ~At(t, "fill")
  BY DEF MeasuredAtRest
<1>3. pc[0] \in 1 .. Len(test) /\ test[pc[0]].op \in {"before", "size"}
  BY <1>0, WorkerAt DEF Measuring
<1>4. Looping(t) => pc[t] \in 1 .. Len(test) /\ test[pc[t]].op \in LoopOps
  BY <1>0, WorkerAt DEF Looping, LoopOps
<1>5. At(t, "fill") => pc[t] \in 1 .. Len(test) /\ test[pc[t]].op = "fill"
  BY <1>0, WorkerAt
<1>6. pc[0] > fence <=> pc[t] > fence
  BY <1>0, <1>2, BarrierParts
<1>7. pc[0] > start + 2 <=> pc[t] > start + 2
  BY <1>0, <1>2, BarrierParts
<1>8. Passed(0) <=> Passed(t)
  BY <1>0, ProcsFacts DEF BarrierInv, StartTogether
<1>9. pc[0] > start <=> Passed(0)
  BY <1>0, <1>1, <1>3, StartedWhen
<1>10. pc[t] \in 1 .. Len(test) => (pc[t] > start <=> Passed(t))
  BY <1>1, StartedWhen
<1>11. pc[0] \in Nat /\ pc[t] \in Nat
  BY <1>0, ProcsFacts DEF BType
<1> HIDE DEF test
<1>12. CASE test[pc[0]].op = "before"
  BY <1>2, <1>3, <1>4, <1>5, <1>6, <1>8, <1>9, <1>10, <1>11, <1>12
<1>13. CASE test[pc[0]].op = "size"
  BY <1>2, <1>3, <1>4, <1>5, <1>7, <1>11, <1>13
<1> QED
  BY <1>3, <1>12, <1>13

\* Worker 0 measures a structure at rest in every driver, for any number of
\* workers: barrier_cross counts to num_threads or to num_threads + 1, so
\* nobody is in the fill or in the loop while it reads the size.
THEOREM MeasuresAtRest == Spec => []MeasuredAtRest
<1>1. BarrierInv => MeasuredAtRest
  BY RestFollows
<1> QED
  BY <1>1, BarriersHold, PTL

-----------------------------------------------------------------------------
\* The command line.  The numbers fit the 16 bits of width_t and depth_t, four
\* times the width as well, and a width that is given is not 0.
InRange ==
    \A call \in Invocations :
        /\ \A x \in DOMAIN call.given : 4 * call.given[x] < Word
        /\ "w" \in DOMAIN call.given => call.given["w"] > 0

Letters == {"i", "r", "u", "p", "w", "l", "m", "k", "b", "c", "e"}
Configured(d, given) == Normalise(Parse(d.options.rules, given), "p" \in DOMAIN given)

\* The settings that the dimensions depend on.
SettingsGood(d, s) ==
    /\ s.w \in Nat /\ s.l \in Nat /\ s.k \in Nat /\ s.m \in Nat
    /\ s.b \in Nat /\ s.c \in Nat /\ s.e \in Nat
    /\ s.w >= 1 /\ s.w < Word
    /\ Known(d.options.structure) =>
          s.k >= 1 /\ s.l >= 1 /\ s.k < Word /\ s.m \in 0 .. 3

LEMMA DefaultsAre ==
    /\ DOMAIN Defaults = Letters
    /\ \A x \in Letters : Defaults[x] \in Nat
    /\ Defaults["w"] = 1 /\ Defaults["l"] = 1 /\ Defaults["k"] = 1 /\ Defaults["m"] = 0
  BY DriverAssumption DEF Defaults, Letters

LEMMA ParseType ==
    ASSUME NEW rules, NEW given, \A x \in DOMAIN given : given[x] \in Nat
    PROVE  Parse(rules, given) \in [Letters -> Nat]
  BY DefaultsAre DEF Parse

LEMMA NormaliseKeeps ==
    ASSUME NEW s \in [Letters -> Nat], NEW explicit
    PROVE  LET n == Normalise(s, explicit)
           IN  /\ n.w = s["w"] /\ n.l = s["l"] /\ n.k = s["k"] /\ n.m = s["m"]
               /\ n.b = s["b"] /\ n.c = s["c"] /\ n.e = s["e"]
  BY DEF Normalise, Letters

LEMMA ConfiguredGood ==
    ASSUME InRange, NEW call \in Invocations
    PROVE  SettingsGood(call.driver, Configured(call.driver, call.given))
<1> DEFINE rules == call.driver.options.rules
           given == call.given
           s == Parse(rules, given)
           n == Configured(call.driver, given)
<1>0. Word = 65536
  BY DEF Word
<1>1. \A x \in DOMAIN given : given[x] \in Nat /\ given[x] < 65536
  BY InvocationsAssumption, <1>0 DEF InRange
<1>2. s \in [Letters -> Nat]
  BY <1>1, ParseType
<1>3. /\ n.w = s["w"] /\ n.l = s["l"] /\ n.k = s["k"] /\ n.m = s["m"]
      /\ n.b = s["b"] /\ n.c = s["c"] /\ n.e = s["e"]
  BY <1>2, NormaliseKeeps DEF Configured
<1>4. ASSUME NEW x \in Letters
      PROVE  /\ s[x] = Defaults[x] \/ (x \in DOMAIN given /\ s[x] = given[x])
             /\ (x \in DOMAIN given /\ s[x] = given[x]) => s[x] < 65536
             /\ (x \in DOMAIN rules /\ rules[x] = "positive" /\ Defaults[x] = 1) => s[x] >= 1
             /\ (x \in DOMAIN rules /\ rules[x] = "mode" /\ Defaults[x] = 0) => s[x] <= 3
  <2>1. s[x] = IF x \in DOMAIN rules \cap DOMAIN given /\ Stores(rules[x], given[x])
               THEN given[x] ELSE Defaults[x]
    BY DefaultsAre DEF Parse
  <2> HIDE DEF s, rules, given
  <2>2. s[x] = Defaults[x] \/ (x \in DOMAIN given /\ s[x] = given[x])
    BY <2>1
  <2>3. (x \in DOMAIN rules /\ rules[x] = "positive" /\ Defaults[x] = 1) => s[x] >= 1
    BY <1>1, <2>1 DEF Stores
  <2>4. (x \in DOMAIN rules /\ rules[x] = "mode" /\ Defaults[x] = 0) => s[x] <= 3
    BY <1>1, <2>1 DEF Stores
  <2> QED
    BY <1>1, <2>2, <2>3, <2>4
<1>5. "w" \in DOMAIN given => given["w"] > 0
  BY DEF InRange
<1>6. OptionsSound(call.driver.options)
  BY InvocationsAssumption, DriversAreSound DEF DriverSound
<1>7. Known(call.driver.options.structure) =>
         /\ \A x \in {"k", "l", "w"} : x \in DOMAIN rules /\ rules[x] = "positive"
         /\ "m" \in DOMAIN rules /\ rules["m"] = "mode"
  BY <1>6 DEF OptionsSound
<1>8. \A x \in Letters : s[x] \in Nat
  BY <1>2
<1> HIDE DEF s, rules, n, given
<1>9. s["w"] >= 1 /\ s["w"] < 65536
  BY <1>4, <1>5, <1>8, DefaultsAre DEF Letters
<1>10. Known(call.driver.options.structure) =>
         s["k"] >= 1 /\ s["l"] >= 1 /\ s["k"] < 65536 /\ s["m"] \in 0 .. 3
  BY <1>4, <1>7, <1>8, DefaultsAre DEF Letters
<1>11. SettingsGood(call.driver, n)
  BY <1>0, <1>3, <1>8, <1>9, <1>10 DEF SettingsGood, Letters
<1> QED
  BY <1>11 DEF n, given

\* The structure that is created.
LEMMA SizedIs ==
    ASSUME NEW structure \in Structures, NEW s, structure # "other" => s.m \in 0 .. 3
    PROVE  /\ structure # "other" =>
                \E word \in {0, Word} :
                   Sized(structure, N, s)
                   = Dimensions(word, Factor(structure), N, s.w, s.l, s.m, s.k)
           /\ structure = "other" => Sized(structure, N, s) = Shape(s.w, s.l, s.k)
<1>1. structure # "other" => s.m % 256 = s.m
  BY SMT
<1> QED
  BY <1>1 DEF Sized, Structures, Factor, create_queue_2Dd, create_queue_optimized,
     create_queue_law, create_queue_lpw, create_stack_2Dc, create_stack_optimized,
     create_stack_elastic, create_counter_2Dc

Fields == {"width", "depth", "relaxation_bound", "max_width", "built"}
BoundNow(d, s, dim) ==
    Known(d.options.structure) =>
        /\ dim.depth \in Nat /\ dim.relaxation_bound \in Nat
        /\ Usable(dim)
        /\ Honours(Factor(d.options.structure), dim)
        /\ s.m # 0 => dim.relaxation_bound <= s.k

\* The switch to a width that was not allocated, which WidthAllocated leaves out.
Unallocated(d, s, dim) ==
    /\ d.options.max = "unless_given"
    /\ s.b \in 1 .. s.e - 1 \/ (s.b = 0 /\ s.e \in dim.built + 1 .. s.w)

WidthNow(d, s, dim) ==
    /\ DOMAIN dim = Fields
    /\ dim.width \in Nat /\ dim.max_width \in Nat /\ dim.built \in Nat
    /\ dim.built <= dim.max_width /\ MaxWidth(d.options.max, s) <= dim.max_width
    /\ ~Unallocated(d, s, dim) =>
          /\ dim.width <= dim.max_width
          /\ dim.width >= 1 \/ (d.options.max = "four" /\ s.w < 4)

LEMMA MaxWidthType ==
    ASSUME NEW d \in AllDrivers, NEW s, SettingsGood(d, s)
    PROVE  MaxWidth(d.options.max, s) \in Nat
<1>1. d.options.max \in {"width", "four", "most", "raised", "unless_given"}
  BY DriversAreSound DEF DriverSound, OptionsSound
<1> QED
  BY <1>1 DEF MaxWidth, Larger, SettingsGood

LEMMA SizedGood ==
    ASSUME NEW word \in {0, Word}, NEW factor \in {1, 2}, NEW w \in Nat \ {0}, w < Word,
           NEW l \in Nat \ {0}, NEW m \in 0 .. 3, NEW k \in Nat \ {0}, k < Word,
           NEW dim, dim = Dimensions(word, factor, N, w, l, m, k)
    PROVE  /\ m # 0 => Good(factor, k, dim)
           /\ m = 0 => Good(factor, dim.relaxation_bound, dim)
<1>1. word \in Nat /\ FitsIn(word, w) /\ FitsIn(word, k) /\ factor \in Nat \ {0} /\ N \in Nat
  BY DriverAssumption DEF FitsIn, Word
<1> QED
  BY <1>1, DimensionsGood

LEMMA CreatedGood ==
    ASSUME NEW d \in AllDrivers, NEW s, SettingsGood(d, s)
    PROVE  /\ BoundNow(d, s, NewStructure(d.options, N, s))
           /\ WidthNow(d, s, NewStructure(d.options, N, s))
<1> DEFINE structure == d.options.structure
           dim == Sized(structure, N, s)
           new == NewStructure(d.options, N, s)
<1>1. structure \in Structures
  BY DriversAreSound DEF DriverSound, OptionsSound
<1>2. /\ s.w \in Nat \ {0} /\ s.l \in Nat /\ s.k \in Nat /\ s.w < 65536
      /\ structure # "other" => /\ s.l \in Nat \ {0} /\ s.k \in Nat \ {0}
                                /\ s.k < 65536 /\ s.m \in 0 .. 3
  BY DEF SettingsGood, Known, Word
<1>3. Factor(structure) \in {1, 2}
  BY DEF Factor
<1>4. ASSUME structure # "other"
      PROVE  /\ s.m # 0 => Good(Factor(structure), s.k, dim)
             /\ s.m = 0 => Good(Factor(structure), dim.relaxation_bound, dim)
  <2>1. PICK word \in {0, Word} :
           dim = Dimensions(word, Factor(structure), N, s.w, s.l, s.m, s.k)
    BY <1>1, <1>2, <1>4, SizedIs
  <2> HIDE DEF structure, dim
  <2>2. s.w < Word /\ s.k < Word
    BY <1>2, <1>4 DEF Word
  <2>3. /\ s.w \in Nat \ {0} /\ s.l \in Nat \ {0} /\ s.k \in Nat \ {0} /\ s.m \in 0 .. 3
        /\ Factor(structure) \in {1, 2}
    BY <1>2, <1>3, <1>4 DEF structure
  <2> QED
    BY ONLY <2>1, <2>2, <2>3, SizedGood
<1>5. /\ structure # "other" =>
            /\ s.m # 0 => Good(Factor(structure), s.k, dim)
            /\ s.m = 0 => Good(Factor(structure), dim.relaxation_bound, dim)
      /\ structure = "other" => dim = Shape(s.w, s.l, s.k)
  BY <1>1, <1>4, SizedIs
<1>6. dim.width \in Nat /\ dim.width >= 1
  BY <1>2, <1>5 DEF Good, Usable, Shape
<1>7. MaxWidth(d.options.max, s) \in Nat
  BY MaxWidthType
<1> DEFINE most == MaxWidth(d.options.max, s)
<1>8. new = [width |-> dim.width, depth |-> dim.depth,
             relaxation_bound |-> dim.relaxation_bound,
             max_width |-> Larger(most, dim.width), built |-> dim.width]
  BY DEF NewStructure
<1> HIDE DEF dim, new, most
<1>9. BoundNow(d, s, new)
  BY <1>5, <1>8 DEF BoundNow, Known, Good, Usable, Honours, structure
<1>10. WidthNow(d, s, new)
  <2>1. /\ Larger(most, dim.width) \in Nat /\ most <= Larger(most, dim.width)
        /\ dim.width <= Larger(most, dim.width)
    BY <1>6, <1>7 DEF Larger, most
  <2> QED
    BY <1>6, <1>8, <2>1 DEF WidthNow, Fields, most
<1> QED
  BY <1>9, <1>10 DEF new

\* The invariant of the settings and the dimensions.  Up to create, the
\* dimensions are those of the structure that was created, perhaps with the
\* depth 1 of put_depth.
ConfigInv ==
    /\ pc[main] >= 1
    /\ pc[main] = 1 => /\ dims = <<>>
                       /\ \E call \in Invocations : driver = call.driver /\ settings = call.given
    /\ pc[main] > 1 =>
          /\ SettingsGood(driver, settings)
          /\ WidthNow(driver, settings, dims)
          /\ \A i \in 1 .. LengthOf(driver, main) :
                (OpAt(driver, main, i) = "create" /\ pc[main] <= i) => BoundNow(driver, settings, dims)

LEMMA MainSteps ==
    ASSUME BType, NEW i \in 1 .. LengthOf(driver, main)
    PROVE  /\ OpAt(driver, main, i) = "options" <=> i = 1
           /\ \A c \in 1 .. LengthOf(driver, main) : OpAt(driver, main, c) = "create" =>
                 /\ OpAt(driver, main, i) = "put_depth" => i < c
                 /\ OpAt(driver, main, i) \in ResizeOps => c < i
<1>1. MainSound(driver.main.steps)
  BY DriversAreSound DEF BType, DriverSound
<1>2. LengthOf(driver, main) = Len(driver.main.steps)
      /\ \A c : OpAt(driver, main, c) = driver.main.steps[c].op
  BY DEF LengthOf, OpAt
<1>3. PICK create \in Nat, join \in Nat : Staged(driver.main.steps, create, join)
  BY <1>1 DEF MainSound
<1> QED
  BY <1>2, <1>3 DEF Staged

\* Only Configure, ResizeDepth and ResizeWidth touch the settings and the
\* dimensions; the first is the first step of main.
LEMMA ElsewhereSame ==
    ASSUME BType, [Next]_vars, ~Configure, ~ResizeDepth, ~ResizeWidth
    PROVE  /\ UNCHANGED <<settings, dims>>
           /\ pc'[main] = pc[main] \/ (pc'[main] = pc[main] + 1 /\ pc[main] # 1)
<1> USE ProcsFacts
<1>0. pc \in [Procs -> Nat]
  BY DEF BType
<1>1. ASSUME NEW t \in Workers, Worker(t) PROVE UNCHANGED <<settings, dims>> /\ pc'[main] = pc[main]
  <2>1. UNCHANGED <<settings, dims>> /\ (UNCHANGED pc \/ Advance(t))
    BY <1>1 DEF Worker, Attaches, Fills, LoopTest, PeriodTest, LoopOperation, Timestamp, Measure,
                TimestampsFit, Publish
  <2> QED
    BY <1>0, <2>1 DEF Advance
<1>2. ASSUME NEW op, At(main, op), op # "options" PROVE pc[main] # 1
  <2>1. Awake(main) /\ OpAt(driver, main, pc[main]) = op
    BY <1>2, AtIs
  <2> QED
    BY <1>2, <2>1, MainSteps DEF Awake
<1>3. ASSUME NEW p \in Procs, NEW b \in Barriers, Cross(p, b)
      PROVE  /\ UNCHANGED <<settings, dims>>
             /\ pc'[main] = pc[main] \/ (pc'[main] = pc[main] + 1 /\ OpAt(driver, main, pc[main]) = b)
  <2>1. Arrives(p, b) \/ Opens(p, b)
    BY <1>3, CrossIs
  <2>2. UNCHANGED <<settings, dims>>
    BY <1>3 DEF Cross
  <2>3. CASE Arrives(p, b)
    BY <2>2, <2>3 DEF Arrives
  <2>4. CASE Opens(p, b)
    <3>1. pc'[main] = pc[main] + (IF main \in Waits(b) \cup {p} THEN 1 ELSE 0)
      BY <2>4 DEF Opens
    <3>2. main \in Waits(b) \cup {p} => OpAt(driver, main, pc[main]) = b
      BY <2>4 DEF Opens, Waits
    <3>3. pc[main] \in Nat
      BY <1>0
    <3> QED
      BY <2>2, <3>1, <3>2, <3>3
  <2> QED
    BY <2>1, <2>3, <2>4
<1>4. CASE Create \/ Stop \/ Join \/ Check
  <2>1. /\ UNCHANGED <<settings, dims>>
        /\ \E op : At(main, op) /\ op # "options"
        /\ UNCHANGED pc \/ Advance(main) \/ \E t \in Workers : pc' = [pc EXCEPT ![t] = 1]
    BY <1>4 DEF Create, Stop, Join, Check
  <2>2. pc[main] # 1
    BY <1>2, <2>1
  <2> QED
    BY <1>0, <2>1, <2>2 DEF Advance
<1>5. CASE UNCHANGED vars
  BY <1>5 DEF vars
<1>6. 1 \in 1 .. LengthOf(driver, main) /\ OpAt(driver, main, 1) \notin Barriers
  <2>1. MainSound(driver.main.steps)
    BY DriversAreSound DEF BType, DriverSound
  <2>2. Len(driver.main.steps) \in Nat /\ Len(driver.main.steps) >= 1
    BY <2>1 DEF MainSound, Staged
  <2>3. 1 \in 1 .. LengthOf(driver, main)
    BY <2>2 DEF LengthOf
  <2> QED
    BY <2>3, MainSteps DEF Barriers
<1> QED
  BY <1>1, <1>3, <1>4, <1>5, <1>6 DEF Next, MainThread, Barriers

LEMMA ConfigInit ==
    ASSUME Init
    PROVE  ConfigInv
  BY ProcsFacts DEF Init, ConfigInv

LEMMA ConfigureKeeps ==
    ASSUME InRange, BType, ConfigInv, Configure
    PROVE  ConfigInv'
<1>0. pc[main] = 1 /\ driver' = driver /\ pc[main] \in Nat
  <2>1. Awake(main) /\ OpAt(driver, main, pc[main]) = "options"
    BY ProcsFacts, AtIs DEF Configure
  <2> QED
    BY <2>1, MainSteps, ProcsFacts DEF Awake, Configure, BType
<1>1. PICK call \in Invocations : driver = call.driver /\ settings = call.given
  BY <1>0 DEF ConfigInv
<1>2. CASE UNCHANGED <<pc, settings, dims>>
  BY <1>0, <1>2 DEF ConfigInv
<1>3. CASE /\ settings' = Configured(driver, settings)
           /\ dims' = NewStructure(driver.options, N, Configured(driver, settings))
           /\ Advance(main)
  <2>1. SettingsGood(driver, settings')
    BY <1>1, <1>3, ConfiguredGood
  <2>2. driver \in AllDrivers
    BY DEF BType
  <2>3. /\ BoundNow(driver, settings', dims')
        /\ WidthNow(driver, settings', dims')
    BY <1>3, <2>1, <2>2, CreatedGood
  <2>4. pc'[main] = 2
    BY <1>0, <1>3, ProcsFacts DEF Advance, BType
  <2> QED
    BY <1>0, <2>1, <2>3, <2>4 DEF ConfigInv
<1> QED
  BY <1>2, <1>3 DEF Configure, Configured

\* A depth of 1 keeps what a larger depth keeps.
LEMMA ShallowerHonours ==
    ASSUME NEW factor \in Nat \ {0}, NEW depth \in Nat, depth >= 1, NEW others \in Nat,
           NEW bound \in Nat, factor * depth * others <= bound
    PROVE  factor * 1 * others <= bound
<1>1. PICK more \in Nat : depth = more + 1
  <2>1. depth - 1 \in Nat /\ depth = (depth - 1) + 1
    OBVIOUS
  <2> QED
    BY <2>1
<1>2. factor * depth * others = factor * 1 * others + factor * more * others
  BY <1>1, SMT
<1>3. factor * more * others \in Nat /\ factor * 1 * others \in Nat
  BY Regroup
<1> QED
  BY <1>2, <1>3

LEMMA ResizeDepthKeeps ==
    ASSUME BType, ConfigInv, ResizeDepth
    PROVE  ConfigInv'
<1>0. /\ Awake(main) /\ driver' = driver /\ settings' = settings /\ pc'[main] = pc[main] + 1
      /\ pc[main] \in 1 .. LengthOf(driver, main)
      /\ OpAt(driver, main, pc[main]) \in {"put_depth", "depth", "elastic_depth"}
      /\ OpAt(driver, main, pc[main]) = "put_depth" => dims' = [dims EXCEPT !.depth = 1]
      /\ \E n : dims' = [dims EXCEPT !.depth = n]
  <2>1. \E op \in {"put_depth", "depth", "elastic_depth"} : At(main, op)
    BY DEF ResizeDepth
  <2>2. Awake(main) /\ OpAt(driver, main, pc[main]) \in {"put_depth", "depth", "elastic_depth"}
    BY <2>1, ProcsFacts, AtIs
  <2>3. OpAt(driver, main, pc[main]) = "put_depth" => dims' = [dims EXCEPT !.depth = 1]
    BY ProcsFacts, AtIs DEF ResizeDepth
  <2>4. \E n : dims' = [dims EXCEPT !.depth = n]
    BY DEF ResizeDepth
  <2>5. driver' = driver /\ settings' = settings /\ Advance(main)
    BY DEF ResizeDepth
  <2>6. pc'[main] = pc[main] + 1
    BY <2>5, ProcsFacts DEF Advance, BType
  <2> QED
    BY <2>2, <2>3, <2>4, <2>5, <2>6 DEF Awake
<1>1. pc[main] \in Nat /\ pc[main] > 1
  BY <1>0, MainSteps
<1>2. /\ SettingsGood(driver, settings) /\ WidthNow(driver, settings, dims)
      /\ \A i \in 1 .. LengthOf(driver, main) :
            (OpAt(driver, main, i) = "create" /\ pc[main] <= i) => BoundNow(driver, settings, dims)
  BY <1>1 DEF ConfigInv
<1>3. /\ DOMAIN dims' = Fields /\ dims'.width = dims.width /\ dims'.max_width = dims.max_width
      /\ dims'.built = dims.built /\ dims'.relaxation_bound = dims.relaxation_bound
  BY <1>0, <1>2 DEF WidthNow, Fields
<1>4. WidthNow(driver, settings, dims')
  BY <1>2, <1>3 DEF WidthNow, Unallocated
<1>5. ASSUME NEW i \in 1 .. LengthOf(driver, main), OpAt(driver, main, i) = "create",
             pc[main] + 1 <= i
      PROVE  BoundNow(driver, settings, dims')
  <2>1. OpAt(driver, main, pc[main]) = "put_depth"
    BY <1>0, <1>1, <1>5, MainSteps DEF ResizeOps
  <2>2. dims'.depth = 1
    BY <1>0, <1>2, <2>1 DEF WidthNow, Fields
  <2>3. BoundNow(driver, settings, dims) /\ dims.width \in Nat
    BY <1>1, <1>2, <1>5 DEF WidthNow
  <2> SUFFICES ASSUME Known(driver.options.structure)
               PROVE  BoundNow(driver, settings, dims')
    BY DEF BoundNow
  <2>4. /\ dims.depth \in Nat /\ dims.depth >= 1 /\ dims.relaxation_bound \in Nat
        /\ dims.width - 1 \in Nat
        /\ Factor(driver.options.structure) * dims.depth * (dims.width - 1) <= dims.relaxation_bound
    BY <2>3 DEF BoundNow, Usable, Honours
  <2>5. Factor(driver.options.structure) \in Nat \ {0}
    BY DEF Factor
  <2>6. Factor(driver.options.structure) * 1 * (dims.width - 1) <= dims.relaxation_bound
    BY <2>4, <2>5, ShallowerHonours
  <2> QED
    BY <1>3, <2>2, <2>3, <2>6 DEF BoundNow, Usable, Honours
<1> QED
  BY <1>0, <1>1, <1>2, <1>4, <1>5 DEF ConfigInv

\* A scaled width is within four times the width, and not 0 from 4 on.
LEMMA ScaledWidth ==
    ASSUME NEW w \in Nat, w >= 1, NEW times, NEW over,
           \/ times \in {1, 2} /\ over = 1
           \/ times = 1 /\ over \in {2, 4}
    PROVE  /\ (w * times) \div over \in Nat
           /\ (w * times) \div over <= 4 * w
           /\ (w * times) \div over >= 1 \/ w < 4
<1>1. CASE over = 1
  BY <1>1
<1>2. CASE over = 2
  BY <1>2
<1>3. CASE over = 4
  BY <1>3
<1> QED
  BY <1>1, <1>2, <1>3

LEMMA ResizeWidthKeeps ==
    ASSUME BType, ConfigInv, ResizeWidth
    PROVE  ConfigInv'
<1> DEFINE by == driver.main.steps[pc[main]]
           width == IF by.op = "width" THEN (settings.w * by.times) \div by.over
                    ELSE IF settings.e = 0 THEN dims.width ELSE settings.e
<1>0. /\ Awake(main) /\ driver' = driver /\ settings' = settings /\ pc'[main] = pc[main] + 1
      /\ pc[main] \in 1 .. LengthOf(driver, main)
      /\ OpAt(driver, main, pc[main]) \in {"width", "elastic_width"}
      /\ OpAt(driver, main, pc[main]) = by.op
      /\ dims' = dims \/ dims' = [dims EXCEPT !.width = width]
  <2>1. \E op \in {"width", "elastic_width"} : At(main, op)
    BY DEF ResizeWidth
  <2>2. Awake(main) /\ OpAt(driver, main, pc[main]) \in {"width", "elastic_width"}
    BY <2>1, ProcsFacts, AtIs
  <2>3. Program(main, pc[main]) = by /\ OpAt(driver, main, pc[main]) = by.op
    BY DEF Program, OpAt
  <2>4. dims' = dims \/ dims' = [dims EXCEPT !.width = width]
    BY <2>3 DEF ResizeWidth
  <2>5. driver' = driver /\ settings' = settings /\ Advance(main)
    BY DEF ResizeWidth
  <2>6. pc'[main] = pc[main] + 1
    BY <2>5, ProcsFacts DEF Advance, BType
  <2> QED
    BY <2>2, <2>3, <2>4, <2>5, <2>6 DEF Awake
<1>1. pc[main] \in Nat /\ pc[main] > 1
  BY <1>0, MainSteps
<1>2. SettingsGood(driver, settings) /\ WidthNow(driver, settings, dims)
  BY <1>1 DEF ConfigInv
<1>3. /\ \/ by.op = "elastic_width" /\ driver.options.max \in {"raised", "unless_given"}
         \/ /\ by.op = "width" /\ driver.options.max = "four"
            /\ \/ by.times \in {1, 2} /\ by.over = 1
               \/ by.times = 1 /\ by.over \in {2, 4}
  <2>1. DriverSound(driver) /\ pc[main] \in 1 .. Len(driver.main.steps)
    BY <1>0, DriversAreSound DEF BType, LengthOf
  <2>2. \/ KeepsWidthAt(by)
        \/ SwitchesWidthAt(by) /\ driver.options.max \in {"raised", "unless_given"}
        \/ ScalesWidthAt(by) /\ driver.options.max = "four"
    BY <2>1 DEF DriverSound, KeepsWidth, SwitchesWidth, ScalesWidth
  <2> QED
    BY <1>0, <2>2 DEF KeepsWidthAt, SwitchesWidthAt, ScalesWidthAt
<1>4. /\ width \in Nat
      /\ ~Unallocated(driver, settings, dims) =>
            /\ width <= dims.max_width
            /\ width >= 1 \/ (driver.options.max = "four" /\ settings.w < 4)
  <2>1. /\ settings.w \in Nat /\ settings.w >= 1 /\ settings.b \in Nat /\ settings.e \in Nat
        /\ dims.width \in Nat /\ dims.max_width \in Nat /\ dims.built \in Nat
        /\ dims.built <= dims.max_width
        /\ MaxWidth(driver.options.max, settings) <= dims.max_width
        /\ ~Unallocated(driver, settings, dims) =>
              /\ dims.width <= dims.max_width
              /\ dims.width >= 1 \/ (driver.options.max = "four" /\ settings.w < 4)
    BY <1>2 DEF SettingsGood, WidthNow
  <2>2. CASE by.op = "width"
    <3>1. /\ width \in Nat /\ width <= 4 * settings.w /\ (width >= 1 \/ settings.w < 4)
      BY <1>3, <2>1, <2>2, ScaledWidth
    <3>2. MaxWidth(driver.options.max, settings) = 4 * settings.w /\ driver.options.max = "four"
      BY <1>3, <2>2 DEF MaxWidth
    <3> HIDE DEF width
    <3> QED
      BY <2>1, <3>1, <3>2
  <2>3. CASE by.op # "width" /\ settings.e = 0
    BY <1>3, <2>1, <2>3
  <2>4. CASE by.op # "width" /\ settings.e # 0
    <3>1. width = settings.e
      BY <2>4
    <3>2. CASE driver.options.max = "raised"
      <4>1. MaxWidth(driver.options.max, settings) = Larger(settings.b, settings.e)
        BY <3>2 DEF MaxWidth
      <4> QED
        BY <2>1, <2>4, <3>1, <3>2, <4>1 DEF Larger
    <3>3. CASE driver.options.max = "unless_given"
      <4>1. MaxWidth(driver.options.max, settings)
            = IF settings.e > settings.w /\ settings.b = 0 THEN settings.e ELSE settings.b
        BY <3>3 DEF MaxWidth
      <4> QED
        BY <2>1, <2>4, <3>1, <3>3, <4>1 DEF Unallocated
    <3> QED
      BY <1>3, <2>4, <3>2, <3>3
  <2> QED
    BY <2>2, <2>3, <2>4
<1> HIDE DEF width
<1>5. WidthNow(driver, settings, dims')
  <2>1. CASE dims' = dims
    BY <1>2, <2>1
  <2>2. CASE dims' = [dims EXCEPT !.width = width]
    <3>1. /\ DOMAIN dims' = Fields /\ dims'.width = width /\ dims'.max_width = dims.max_width
          /\ dims'.built = dims.built
      BY <1>2, <2>2 DEF WidthNow, Fields
    <3> QED
      BY <1>2, <1>4, <3>1 DEF WidthNow, Unallocated
  <2> QED
    BY <1>0, <2>1, <2>2
<1>6. ASSUME NEW i \in 1 .. LengthOf(driver, main), OpAt(driver, main, i) = "create",
             pc[main] + 1 <= i
      PROVE  FALSE
  BY <1>0, <1>1, <1>6, MainSteps DEF ResizeOps
<1> QED
  BY <1>0, <1>1, <1>2, <1>5, <1>6 DEF ConfigInv

LEMMA ConfigStep ==
    ASSUME InRange, BType, ConfigInv, [Next]_vars
    PROVE  ConfigInv'
<1>1. CASE ~Configure /\ ~ResizeDepth /\ ~ResizeWidth
  <2>1. /\ settings' = settings /\ dims' = dims
        /\ pc'[main] = pc[main] \/ (pc'[main] = pc[main] + 1 /\ pc[main] # 1)
    BY <1>1, ElsewhereSame
  <2>2. driver' = driver /\ pc[main] \in Nat
    BY StepKinds, BTypeStep, ProcsFacts DEF BType
  <2> QED
    BY <2>1, <2>2 DEF ConfigInv
<1> QED
  BY <1>1, ConfigureKeeps, ResizeDepthKeeps, ResizeWidthKeeps

LEMMA BoundFollows ==
    ASSUME BType, ConfigInv
    PROVE  BoundHonoured
<1> SUFFICES ASSUME At(main, "create") PROVE BoundHonoured
  BY DEF BoundHonoured
<1>1. /\ pc[main] \in 1 .. LengthOf(driver, main) /\ OpAt(driver, main, pc[main]) = "create"
  BY ProcsFacts, AtIs DEF Awake
<1>2. pc[main] > 1 /\ pc[main] <= pc[main]
  BY <1>1, MainSteps
<1>3. BoundNow(driver, settings, dims)
  BY <1>1, <1>2 DEF ConfigInv
<1> QED
  BY <1>3 DEF BoundHonoured, BoundNow

LEMMA WidthFollows ==
    ASSUME BType, ConfigInv
    PROVE  WidthAllocated
<1>1. pc[main] \in Nat
  BY ProcsFacts DEF BType
<1>2. dims = <<>> \/ WidthNow(driver, settings, dims)
  BY <1>1 DEF ConfigInv
<1> QED
  BY <1>2 DEF WidthAllocated, WidthNow, Unallocated

LEMMA ConfigHolds == InRange => (Spec => [](BType /\ ConfigInv))
<1> SUFFICES ASSUME InRange PROVE Spec => [](BType /\ ConfigInv)
  OBVIOUS
<1>1. Init => BType /\ ConfigInv
  BY BarrierInit, ConfigInit DEF BarrierInv
<1>2. (BType /\ ConfigInv) /\ [Next]_vars => (BType /\ ConfigInv)'
  BY StepKinds, BTypeStep, ConfigStep
<1> QED
  BY <1>1, <1>2, PTL DEF Spec

\* Whatever main reads from a command line in range, the structure it creates
\* has a sub-structure and a row, keeps the relaxation bound it reports, and
\* that is at most the bound asked for: through the rules of getopt, the
\* rounding, create_* in every k_mode and the 16 bits of the elastic types.
THEOREM BoundIsHonoured == InRange => (Spec => []BoundHonoured)
<1>1. BType /\ ConfigInv => BoundHonoured
  BY BoundFollows
<1> QED
  BY <1>1, ConfigHolds, PTL

\* With a command line in range no driver asks for sub-structures that were not
\* allocated, whatever main does to the width while the workers run, but for the
\* cases that WidthAllocated names.
THEOREM WidthIsAllocated == InRange => (Spec => []WidthAllocated)
<1>1. BType /\ ConfigInv => WidthAllocated
  BY WidthFollows
<1> QED
  BY <1>1, ConfigHolds, PTL

-----------------------------------------------------------------------------
(***************************************************************************)
(* Sums over the workers.  Total folds over a set in an order that CHOOSE  *)
(* fixes; these lemmas show that the order does not matter.  Facts about   *)
(* all sets are proved from the smallest size for which they fail.         *)
(***************************************************************************)
Smaller == {ss \in Nat \X Nat : ss[1] < ss[2]}

LEMMA SmallestElement ==
    ASSUME NEW T, T \subseteq Nat, T # {}
    PROVE  \E x \in T : \A y \in T : x <= y
<1>1. IsWellFoundedOn(Smaller, Nat)
  BY NatLessThanWellFounded DEF OpToRel, Smaller
<1>2. PICK x \in T : \A y \in T : ~ (<<y, x>> \in Smaller)
  BY <1>1, WFMin
<1>3. ASSUME NEW y \in T PROVE x <= y
  <2>1. ~ (<<y, x>> \in Smaller)
    BY <1>2
  <2>2. ~(y < x)
    BY <2>1 DEF Smaller
  <2> QED
    BY <2>2
<1> QED
  BY <1>2, <1>3

AnyOf(s) == CHOOSE x \in s : TRUE

\* h adds up f over every subset of S that has at most k elements.
Adds(S, f, k, h) ==
    /\ h \in [SUBSET S -> Int]
    /\ \A s \in SUBSET S : Cardinality(s) <= k =>
          h[s] = IF s = {} THEN 0 ELSE h[s \ {AnyOf(s)}] + f[AnyOf(s)]

LEMMA AnyOfIn ==
    ASSUME NEW s, s # {}
    PROVE  AnyOf(s) \in s
  BY DEF AnyOf

LEMMA Remove ==
    ASSUME NEW S, IsFiniteSet(S), NEW s \in SUBSET S, NEW x \in s
    PROVE  /\ s \ {x} \in SUBSET S
           /\ Cardinality(s) \in Nat /\ Cardinality(s \ {x}) \in Nat
           /\ Cardinality(s \ {x}) = Cardinality(s) - 1
<1>1. IsFiniteSet(s)
  BY FS_Subset
<1> QED
  BY <1>1, FS_RemoveElement, FS_CardinalityType

LEMMA AddsExist ==
    ASSUME NEW S, IsFiniteSet(S), NEW f \in [S -> Int]
    PROVE  \A k \in Nat : \E h : Adds(S, f, k, h)
<1> SUFFICES ASSUME ~ \A k \in Nat : \E h : Adds(S, f, k, h) PROVE FALSE
  OBVIOUS
<1> DEFINE T == {k \in Nat : ~ \E h : Adds(S, f, k, h)}
<1>1. PICK k \in T : \A y \in T : k <= y
  <2>1. T # {} /\ T \subseteq Nat
    OBVIOUS
  <2> HIDE DEF T
  <2> QED
    BY <2>1, SmallestElement
<1>2. k \in Nat /\ ~ \E h : Adds(S, f, k, h)
  OBVIOUS
<1>3. \A y \in Nat : y < k => \E h : Adds(S, f, y, h)
  BY <1>1, <1>2
<1> HIDE DEF T
<1>4. ASSUME NEW s \in SUBSET S PROVE Cardinality(s) \in Nat /\ (Cardinality(s) = 0 <=> s = {})
  BY FS_Subset, FS_CardinalityType, FS_EmptySet
<1>5. CASE k = 0
  <2> DEFINE h == [s \in SUBSET S |-> 0]
  <2>1. h \in [SUBSET S -> Int]
    OBVIOUS
  <2>2. ASSUME NEW s \in SUBSET S, Cardinality(s) <= k PROVE s = {} /\ h[s] = 0
    BY <1>4, <1>5, <2>2
  <2> HIDE DEF h
  <2> QED
    BY <1>2, <2>1, <2>2 DEF Adds
<1>6. CASE k # 0
  <2>0. k - 1 \in Nat /\ k - 1 < k
    BY <1>2, <1>6
  <2>1. PICK g : Adds(S, f, k - 1, g)
    BY <1>3, <2>0
  <2> DEFINE h == [s \in SUBSET S |-> IF s = {} THEN 0 ELSE g[s \ {AnyOf(s)}] + f[AnyOf(s)]]
  <2>2. ASSUME NEW s \in SUBSET S, s # {}
        PROVE  /\ AnyOf(s) \in S /\ s \ {AnyOf(s)} \in SUBSET S
               /\ Cardinality(s \ {AnyOf(s)}) = Cardinality(s) - 1
    BY <2>2, AnyOfIn, Remove
  <2>3. g \in [SUBSET S -> Int]
    BY <2>1 DEF Adds
  <2>4. h \in [SUBSET S -> Int]
    <3> SUFFICES ASSUME NEW s \in SUBSET S, s # {} PROVE g[s \ {AnyOf(s)}] + f[AnyOf(s)] \in Int
      OBVIOUS
    <3>1. g[s \ {AnyOf(s)}] \in Int /\ f[AnyOf(s)] \in Int
      BY <2>2, <2>3
    <3> QED
      BY <3>1
  <2>5. ASSUME NEW s \in SUBSET S, Cardinality(s) <= k - 1 PROVE g[s] = h[s]
    BY <2>1, <2>5 DEF Adds
  <2>6. ASSUME NEW s \in SUBSET S, Cardinality(s) <= k
        PROVE  h[s] = IF s = {} THEN 0 ELSE h[s \ {AnyOf(s)}] + f[AnyOf(s)]
    <3>1. CASE s = {}
      BY <3>1
    <3>2. CASE s # {}
      <4>1. h[s] = g[s \ {AnyOf(s)}] + f[AnyOf(s)]
        BY <3>2
      <4> HIDE DEF h
      <4>2. Cardinality(s \ {AnyOf(s)}) <= k - 1
        BY <1>2, <1>4, <2>2, <2>6, <3>2
      <4>3. g[s \ {AnyOf(s)}] = h[s \ {AnyOf(s)}]
        BY <2>2, <2>5, <3>2, <4>2
      <4> QED
        BY <3>2, <4>1, <4>3
    <3> QED
      BY <3>1, <3>2
  <2> HIDE DEF h
  <2> QED
    BY <1>2, <2>4, <2>6 DEF Adds
<1> QED
  BY <1>5, <1>6

\* The recursive function in the definition of FoldSet.
IsFold(S, f, h) ==
    h = [s \in SUBSET S |-> IF s = {} THEN 0 ELSE h[s \ {AnyOf(s)}] + f[AnyOf(s)]]

LEMMA TotalFolds ==
    ASSUME NEW f \in [Workers -> Int]
    PROVE  \E h : IsFold(Workers, f, h) /\ Total(f) = h[Workers]
<1> DEFINE h == CHOOSE h : IsFold(Workers, f, h)
<1>1. Total(f) = h[Workers]
  BY DEF Total, FoldSet, MapThenFoldSet, IsFold, AnyOf
<1>2. \E g : IsFold(Workers, f, g)
  <2>1. PICK g : Adds(Workers, f, Cardinality(Workers), g)
    BY FiniteThreads, AddsExist, DriverAssumption
  <2>2. \A s \in SUBSET Workers : Cardinality(s) <= Cardinality(Workers)
    BY FiniteThreads, FS_Subset
  <2> QED
    BY <2>1, <2>2 DEF Adds, IsFold
<1>3. IsFold(Workers, f, h)
  BY <1>2
<1> QED
  BY <1>1, <1>3

\* A sum over every subset of the workers, whatever order the fold takes.
Sums(f, h) ==
    /\ h \in [SUBSET Workers -> Int]
    /\ h[{}] = 0
    /\ \A s \in SUBSET Workers : \A y \in s : h[s] = h[s \ {y}] + f[y]

LEMMA FoldIsInt ==
    ASSUME NEW f \in [Workers -> Int], NEW h, IsFold(Workers, f, h)
    PROVE  h \in [SUBSET Workers -> Int]
<1> DEFINE Bad == {s \in SUBSET Workers : h[s] \notin Int}
           T == {Cardinality(s) : s \in Bad}
<1>0. h = [s \in SUBSET Workers |-> h[s]]
  BY DEF IsFold
<1> SUFFICES ASSUME Bad # {} PROVE FALSE
  BY <1>0
<1>1. T # {} /\ T \subseteq Nat
  BY FiniteThreads, FS_Subset, FS_CardinalityType
<1> HIDE DEF T
<1>2. PICK k \in T : \A y \in T : k <= y
  BY <1>1, SmallestElement
<1>3. PICK s \in Bad : k = Cardinality(s)
  BY DEF T
<1>4. s \in SUBSET Workers /\ h[s] \notin Int
  OBVIOUS
<1>5. h[s] = IF s = {} THEN 0 ELSE h[s \ {AnyOf(s)}] + f[AnyOf(s)]
  BY <1>4 DEF IsFold
<1>6. s # {}
  BY <1>4, <1>5
<1>7. /\ AnyOf(s) \in Workers /\ s \ {AnyOf(s)} \in SUBSET Workers
      /\ Cardinality(s) \in Nat /\ Cardinality(s \ {AnyOf(s)}) = Cardinality(s) - 1
  BY <1>4, <1>6, AnyOfIn, Remove, FiniteThreads
<1>8. s \ {AnyOf(s)} \notin Bad
  <2>1. s \ {AnyOf(s)} \in Bad => Cardinality(s \ {AnyOf(s)}) \in T
    BY DEF T
  <2> HIDE DEF Bad
  <2> QED
    BY <1>2, <1>3, <1>7, <2>1
<1>9. h[s \ {AnyOf(s)}] \in Int /\ f[AnyOf(s)] \in Int
  BY <1>7, <1>8
<1> QED
  BY <1>4, <1>5, <1>6, <1>9

LEMMA FoldIsSum ==
    ASSUME NEW f \in [Workers -> Int], NEW h, IsFold(Workers, f, h)
    PROVE  Sums(f, h)
<1>0. h \in [SUBSET Workers -> Int]
  BY FoldIsInt
<1>1. ASSUME NEW s \in SUBSET Workers
      PROVE  h[s] = IF s = {} THEN 0 ELSE h[s \ {AnyOf(s)}] + f[AnyOf(s)]
  BY DEF IsFold
<1> DEFINE Bad == {s \in SUBSET Workers : \E y \in s : h[s] # h[s \ {y}] + f[y]}
           T == {Cardinality(s) : s \in Bad}
<1>2. h[{}] = 0
  BY <1>1
<1> SUFFICES ASSUME Bad # {} PROVE FALSE
  BY <1>0, <1>2 DEF Sums
<1>3. T # {} /\ T \subseteq Nat
  <2>1. Bad \subseteq SUBSET Workers
    OBVIOUS
  <2> HIDE DEF Bad
  <2> QED
    BY <2>1, FiniteThreads, FS_Subset, FS_CardinalityType
<1> HIDE DEF T
<1>4. PICK k \in T : \A z \in T : k <= z
  BY <1>3, SmallestElement
<1>5. PICK s \in Bad : k = Cardinality(s)
  BY DEF T
<1>6. s \in SUBSET Workers
  OBVIOUS
<1>7. PICK y \in s : h[s] # h[s \ {y}] + f[y]
  OBVIOUS
<1> DEFINE x == AnyOf(s)
<1>8. x \in s /\ h[s] = h[s \ {x}] + f[x]
  BY <1>1, <1>6, <1>7, AnyOfIn
<1>9. ASSUME NEW z \in s, NEW w \in s, z # w
      PROVE  h[s \ {z}] = h[(s \ {z}) \ {w}] + f[w]
  <2>1. s \ {z} \in SUBSET Workers /\ Cardinality(s \ {z}) = Cardinality(s) - 1 /\ Cardinality(s) \in Nat
    BY <1>6, Remove, FiniteThreads
  <2>2. s \ {z} \notin Bad
    <3>1. s \ {z} \in Bad => Cardinality(s \ {z}) \in T
      BY DEF T
    <3> HIDE DEF Bad
    <3> QED
      BY <1>4, <1>5, <2>1, <3>1
  <2> QED
    BY <1>9, <2>1, <2>2
<1> HIDE DEF x, Bad
<1>10. x # y
  BY <1>7, <1>8
<1>11. h[s \ {x}] = h[(s \ {x}) \ {y}] + f[y] /\ h[s \ {y}] = h[(s \ {y}) \ {x}] + f[x]
  BY <1>7, <1>8, <1>9, <1>10
<1>12. (s \ {x}) \ {y} = (s \ {y}) \ {x} /\ (s \ {x}) \ {y} \in SUBSET Workers
       /\ x \in Workers /\ y \in Workers
  BY <1>6, <1>7, <1>8
<1>13. h[(s \ {x}) \ {y}] \in Int /\ f[x] \in Int /\ f[y] \in Int
  BY <1>0, <1>12
<1>14. h[s \ {y}] = h[(s \ {x}) \ {y}] + f[x]
  BY <1>11, <1>12
<1>15. h[s] = (h[(s \ {x}) \ {y}] + f[y]) + f[x]
  BY <1>8, <1>11
<1>16. h[s] = h[s \ {y}] + f[y]
  BY <1>13, <1>14, <1>15
<1> QED
  BY <1>7, <1>16

LEMMA TotalSums ==
    ASSUME NEW f \in [Workers -> Int]
    PROVE  \E h : Sums(f, h) /\ Total(f) = h[Workers]
  BY TotalFolds, FoldIsSum

\* Sums of functions that agree on a set of workers are equal.
LEMMA SumsAgree ==
    ASSUME NEW f \in [Workers -> Int], NEW g \in [Workers -> Int],
           NEW h, NEW k, Sums(f, h), Sums(g, k),
           NEW r \in SUBSET Workers, \A t \in r : f[t] = g[t]
    PROVE  h[r] = k[r]
<1> DEFINE Bad == {s \in SUBSET r : h[s] # k[s]}
           T == {Cardinality(s) : s \in Bad}
<1> SUFFICES ASSUME Bad # {} PROVE FALSE
  OBVIOUS
<1>1. T # {} /\ T \subseteq Nat
  BY FiniteThreads, FS_Subset, FS_CardinalityType
<1> HIDE DEF T
<1>2. PICK c \in T : \A y \in T : c <= y
  BY <1>1, SmallestElement
<1>3. PICK s \in Bad : c = Cardinality(s)
  BY DEF T
<1>4. s \in SUBSET r /\ h[s] # k[s] /\ s \in SUBSET Workers
  OBVIOUS
<1>5. s # {}
  BY <1>4 DEF Sums
<1>6. PICK x \in s : TRUE
  BY <1>5
<1>7. s \ {x} \in SUBSET r /\ Cardinality(s) \in Nat /\ Cardinality(s \ {x}) = Cardinality(s) - 1
  BY <1>4, Remove, FiniteThreads
<1>8. h[s \ {x}] = k[s \ {x}]
  <2>1. s \ {x} \in Bad => Cardinality(s \ {x}) \in T
    BY DEF T
  <2>2. s \ {x} \notin Bad
    <3> HIDE DEF Bad
    <3> QED
      BY <1>2, <1>3, <1>7, <2>1
  <2> QED
    BY <1>7, <2>2
<1> HIDE DEF Bad
<1>9. h[s] = h[s \ {x}] + f[x] /\ k[s] = k[s \ {x}] + g[x] /\ f[x] = g[x]
  BY <1>4, <1>6 DEF Sums
<1> QED
  BY <1>4, <1>8, <1>9

LEMMA TotalType ==
    ASSUME NEW f \in [Workers -> Int]
    PROVE  Total(f) \in Int
<1>1. PICK h : Sums(f, h) /\ Total(f) = h[Workers]
  BY TotalSums
<1> QED
  BY <1>1 DEF Sums

\* One worker adds to what it has.
LEMMA TotalGrows ==
    ASSUME NEW f \in [Workers -> Int], NEW g \in [Workers -> Int], NEW t \in Workers, NEW by \in Int,
           g[t] = f[t] + by, \A u \in Workers : u # t => g[u] = f[u]
    PROVE  Total(g) = Total(f) + by
<1>1. PICK h : Sums(f, h) /\ Total(f) = h[Workers]
  BY TotalSums
<1>2. PICK k : Sums(g, k) /\ Total(g) = k[Workers]
  BY TotalSums
<1>3. h[Workers \ {t}] = k[Workers \ {t}] /\ h[Workers \ {t}] \in Int
  <2>1. Workers \ {t} \in SUBSET Workers /\ \A u \in Workers \ {t} : f[u] = g[u]
    OBVIOUS
  <2>2. h[Workers \ {t}] = k[Workers \ {t}]
    BY <1>1, <1>2, <2>1, SumsAgree
  <2>3. h[Workers \ {t}] \in Int
    BY <1>1, <2>1 DEF Sums
  <2> QED
    BY <2>2, <2>3
<1>4. h[Workers] = h[Workers \ {t}] + f[t] /\ k[Workers] = k[Workers \ {t}] + g[t]
  BY <1>1, <1>2 DEF Sums
<1>5. f[t] \in Int
  OBVIOUS
<1> QED
  BY <1>1, <1>2, <1>3, <1>4, <1>5

LEMMA TotalZero ==
    ASSUME NEW f \in [Workers -> Int], \A t \in Workers : f[t] = 0
    PROVE  Total(f) = 0
<1>1. PICK h : Sums(f, h) /\ Total(f) = h[Workers]
  BY TotalSums
<1> DEFINE k == [s \in SUBSET Workers |-> 0]
<1>2. Sums(f, k)
  BY DEF Sums
<1>3. k[Workers] = 0
  OBVIOUS
<1> HIDE DEF k
<1>4. h[Workers] = k[Workers]
  BY <1>1, <1>2, SumsAgree
<1> QED
  BY <1>1, <1>3, <1>4

\* The shares of the workers add up to the initial elements, also when they
\* cannot be shared evenly.
LEMMA DivMod ==
    ASSUME NEW a \in Nat, NEW b \in Nat \ {0}
    PROVE  /\ a \div b \in Nat /\ a % b \in Nat /\ a % b < b
           /\ a = b * (a \div b) + (a % b)
  BY SMT

LEMMA ShareType ==
    ASSUME settings.i \in Nat, NEW t \in Workers
    PROVE  Share(t) \in Nat
  BY DivMod, DriverAssumption DEF Share, initial, Workers

LEMMA OneMore ==
    ASSUME NEW j \in Nat, j >= 1, NEW q \in Nat
    PROVE  j * q = (j - 1) * q + q /\ j * q \in Nat /\ (j - 1) * q \in Nat
  BY SMT

LEMMA SharesAddUp ==
    ASSUME settings.i \in Nat
    PROVE  Total([t \in Workers |-> Share(t)]) = settings.i
<1> DEFINE q == settings.i \div N
           r == settings.i % N
           f == [t \in Workers |-> Share(t)]
<1>0. N \in Nat \ {0} /\ q \in Nat /\ r \in Nat /\ r < N /\ settings.i = N * q + r
  BY DivMod, DriverAssumption
<1>1. f \in [Workers -> Int]
  BY ShareType
<1>2. PICK h : Sums(f, h) /\ Total(f) = h[Workers]
  BY <1>1, TotalSums
<1>3. \A t \in Workers : f[t] = q + (IF t < r THEN 1 ELSE 0)
  BY DEF Share, initial
<1> HIDE DEF f, q, r
<1> DEFINE Least(j) == IF j < r THEN j ELSE r
           Bad == {j \in 0 .. N : h[0 .. j - 1] # j * q + Least(j)}
<1>4. Bad = {}
  <2> SUFFICES ASSUME Bad # {} PROVE FALSE
    OBVIOUS
  <2>1. Bad \subseteq Nat
    BY <1>0
  <2>2. PICK j \in Bad : \A y \in Bad : j <= y
    <3> HIDE DEF Bad
    <3> QED
      BY <2>1, SmallestElement
  <2>3. j \in 0 .. N /\ h[0 .. j - 1] # j * q + Least(j)
    OBVIOUS
  <2>4. j # 0
    <3>1. 0 .. 0 - 1 = {} /\ 0 * q = 0 /\ Least(0) = 0
      BY <1>0
    <3> QED
      BY <1>2, <2>3, <3>1 DEF Sums
  <2>5. j - 1 \in 0 .. N /\ j - 1 \notin Bad /\ j - 1 \in Nat /\ j \in Nat /\ j >= 1
    <3>1. j - 1 \in 0 .. N /\ j - 1 < j /\ j - 1 \in Nat /\ j \in Nat /\ j >= 1
      BY <1>0, <2>3, <2>4
    <3> HIDE DEF Bad
    <3> QED
      BY <2>2, <3>1
  <2>6. h[0 .. (j - 1) - 1] = (j - 1) * q + Least(j - 1)
    BY <2>5
  <2>7. /\ 0 .. j - 1 \in SUBSET Workers /\ j - 1 \in 0 .. j - 1 /\ j - 1 \in Workers
        /\ (0 .. j - 1) \ {j - 1} = 0 .. (j - 1) - 1
    BY <1>0, <2>3, <2>5 DEF Workers
  <2>8. h[0 .. j - 1] = h[0 .. (j - 1) - 1] + f[j - 1]
    <3> DEFINE part == 0 .. j - 1
    <3>1. part \in SUBSET Workers /\ j - 1 \in part /\ part \ {j - 1} = 0 .. (j - 1) - 1
      BY <2>7
    <3> HIDE DEF part
    <3>2. h[part] = h[part \ {j - 1}] + f[j - 1]
      BY <1>2, <3>1 DEF Sums
    <3> QED
      BY <3>1, <3>2 DEF part
  <2>9. f[j - 1] = q + (IF j - 1 < r THEN 1 ELSE 0)
    BY <1>3, <2>7
  <2>10. Least(j) = Least(j - 1) + (IF j - 1 < r THEN 1 ELSE 0)
    BY <1>0, <2>5
  <2>11. j * q = (j - 1) * q + q /\ j * q \in Nat /\ (j - 1) * q \in Nat
    BY <1>0, <2>5, OneMore
  <2>12. Least(j - 1) \in Nat
    BY <1>0, <2>5
  <2> HIDE DEF Least, Bad
  <2> QED
    BY <1>0, <2>3, <2>6, <2>8, <2>9, <2>10, <2>11, <2>12
<1>5. N \in 0 .. N /\ Least(N) = r /\ Workers = 0 .. N - 1
  BY <1>0 DEF Workers
<1>6. h[0 .. N - 1] = N * q + Least(N)
  BY <1>4, <1>5
<1> QED
  BY <1>0, <1>2, <1>5, <1>6 DEF f

-----------------------------------------------------------------------------
\* pow2roundup is a recursive function on Nat that halves its argument.
Half(x) == (x + 1) \div 2

\* g has the values of pow2roundup up to n.
RoundsUp(n, g) ==
    /\ g \in [Nat -> Nat]
    /\ \A x \in 0 .. n : g[x] = IF x <= 1 THEN 1 ELSE 2 * g[Half(x)]

LEMMA HalfIsLess ==
    ASSUME NEW x \in Nat, x > 1
    PROVE  Half(x) \in Nat /\ Half(x) < x
  BY DEF Half

LEMMA RoundsUpExists ==
    \A n \in Nat : \E g : RoundsUp(n, g)
<1> SUFFICES ASSUME ~ \A n \in Nat : \E g : RoundsUp(n, g) PROVE FALSE
  OBVIOUS
<1> DEFINE T == {n \in Nat : ~ \E g : RoundsUp(n, g)}
<1>1. PICK n \in T : \A y \in T : n <= y
  <2>1. T # {} /\ T \subseteq Nat
    OBVIOUS
  <2> HIDE DEF T
  <2> QED
    BY <2>1, SmallestElement
<1>2. n \in Nat /\ ~ \E g : RoundsUp(n, g)
  OBVIOUS
<1>3. \A y \in Nat : y < n => \E g : RoundsUp(y, g)
  BY <1>1, <1>2
<1> HIDE DEF T
<1>4. n > 1
  <2> SUFFICES ASSUME n <= 1 PROVE FALSE
    BY <1>2
  <2>1. RoundsUp(n, [x \in Nat |-> 1])
    BY <1>2 DEF RoundsUp
  <2> QED
    BY <1>2, <2>1
<1>5. PICK g : RoundsUp(n - 1, g)
  BY <1>2, <1>3, <1>4
<1> DEFINE k == [g EXCEPT ![n] = 2 * g[Half(n)]]
<1>6. g \in [Nat -> Nat] /\ Half(n) \in Nat /\ Half(n) < n
  BY <1>2, <1>4, <1>5, HalfIsLess DEF RoundsUp
<1>7. k \in [Nat -> Nat] /\ k[n] = 2 * g[Half(n)] /\ \A x \in Nat : x # n => k[x] = g[x]
  BY <1>2, <1>6
<1> HIDE DEF k
<1>8. ASSUME NEW x \in 0 .. n PROVE k[x] = IF x <= 1 THEN 1 ELSE 2 * k[Half(x)]
  <2>1. CASE x = n
    BY <1>2, <1>4, <1>6, <1>7, <2>1
  <2>2. CASE x # n
    <3>1. x \in 0 .. n - 1 /\ x \in Nat
      BY <1>2, <1>8, <2>2
    <3>2. x > 1 => Half(x) \in Nat /\ Half(x) # n
      BY <1>2, <3>1, HalfIsLess
    <3>3. g[x] = IF x <= 1 THEN 1 ELSE 2 * g[Half(x)]
      BY <1>5, <3>1 DEF RoundsUp
    <3> QED
      BY <1>7, <2>2, <3>1, <3>2, <3>3
  <2> QED
    BY <2>1, <2>2
<1> QED
  BY <1>2, <1>7, <1>8 DEF RoundsUp

LEMMA RoundsUpUnique ==
    ASSUME NEW m \in Nat, NEW n \in Nat, NEW g, NEW h, RoundsUp(m, g), RoundsUp(n, h),
           NEW x \in Nat, x <= m, x <= n
    PROVE  g[x] = h[x]
<1> DEFINE T == {y \in 0 .. x : g[y] # h[y]}
<1> SUFFICES ASSUME T # {} PROVE FALSE
  OBVIOUS
<1>1. PICK y \in T : \A z \in T : y <= z
  <2>1. T \subseteq Nat
    OBVIOUS
  <2> HIDE DEF T
  <2> QED
    BY <2>1, SmallestElement
<1>2. y \in 0 .. x /\ g[y] # h[y] /\ y \in 0 .. m /\ y \in 0 .. n /\ y \in Nat
  OBVIOUS
<1>3. /\ g[y] = IF y <= 1 THEN 1 ELSE 2 * g[Half(y)]
      /\ h[y] = IF y <= 1 THEN 1 ELSE 2 * h[Half(y)]
  BY <1>2 DEF RoundsUp
<1>4. y > 1
  BY <1>2, <1>3
<1>5. Half(y) \in Nat /\ Half(y) < y
  BY <1>2, <1>4, HalfIsLess
<1>6. Half(y) \notin T
  <2> HIDE DEF T
  <2> QED
    BY <1>1, <1>2, <1>5
<1>7. g[Half(y)] = h[Half(y)]
  BY <1>2, <1>5, <1>6
<1> QED
  BY <1>2, <1>3, <1>4, <1>7

LEMMA RoundupDefined ==
    /\ pow2roundup \in [Nat -> Nat]
    /\ \A x \in Nat : pow2roundup[x] = IF x <= 1 THEN 1 ELSE 2 * pow2roundup[Half(x)]
<1> DEFINE Is(g) == g = [x \in Nat |-> IF x <= 1 THEN 1 ELSE 2 * g[Half(x)]]
           upto(n) == CHOOSE g : RoundsUp(n, g)
           k == [x \in Nat |-> upto(x)[x]]
<1>1. ASSUME NEW n \in Nat PROVE RoundsUp(n, upto(n))
  BY RoundsUpExists
<1> HIDE DEF upto
<1>2. Is(k)
  <2>1. ASSUME NEW x \in Nat PROVE k[x] = IF x <= 1 THEN 1 ELSE 2 * k[Half(x)]
    <3>1. upto(x)[x] = IF x <= 1 THEN 1 ELSE 2 * upto(x)[Half(x)]
      BY <1>1 DEF RoundsUp
    <3>2. CASE x <= 1
      BY <3>1, <3>2
    <3>3. CASE x > 1
      <4>1. Half(x) \in Nat /\ Half(x) < x
        BY <3>3, HalfIsLess
      <4>2. upto(x)[Half(x)] = upto(Half(x))[Half(x)]
        BY <1>1, <4>1, RoundsUpUnique
      <4> QED
        BY <3>1, <3>3, <4>1, <4>2
    <3> QED
      BY <3>2, <3>3
  <2> QED
    BY <2>1
<1>3. pow2roundup = CHOOSE g : Is(g)
  BY DEF pow2roundup, Half
<1> HIDE DEF k
<1>4. Is(pow2roundup)
  BY <1>2, <1>3
<1>5. /\ pow2roundup = [x \in Nat |-> pow2roundup[x]]
      /\ \A x \in Nat : pow2roundup[x] = IF x <= 1 THEN 1 ELSE 2 * pow2roundup[Half(x)]
  BY <1>4
<1> DEFINE T == {x \in Nat : pow2roundup[x] \notin Nat}
<1>6. T = {}
  <2> SUFFICES ASSUME T # {} PROVE FALSE
    OBVIOUS
  <2>1. PICK y \in T : \A z \in T : y <= z
    <3>1. T \subseteq Nat
      OBVIOUS
    <3> HIDE DEF T
    <3> QED
      BY <3>1, SmallestElement
  <2>2. y \in Nat /\ pow2roundup[y] \notin Nat
    OBVIOUS
  <2>3. y > 1
    BY <1>5, <2>2
  <2>4. Half(y) \in Nat /\ Half(y) < y
    BY <2>2, <2>3, HalfIsLess
  <2>5. Half(y) \notin T
    <3> HIDE DEF T
    <3> QED
      BY <2>1, <2>2, <2>4
  <2>6. pow2roundup[Half(y)] \in Nat
    BY <2>4, <2>5
  <2> QED
    BY <1>5, <2>2, <2>3, <2>6
<1> QED
  BY <1>5, <1>6

-----------------------------------------------------------------------------
\* The books: what the workers filled in, put and removed.
Row == [filled : Nat, put : Nat, rem : Nat, left : Nat, batches : Nat, stamp : BOOLEAN,
        timeit : Nat, periods : Nat]

BookType ==
    /\ my \in [Workers -> Row]
    /\ shared \in [size_after : Int, put : [Workers -> Nat], rem : [Workers -> Nat]]
    /\ size \in Int

SameRow(t) ==
    my'[t].filled = my[t].filled /\ my'[t].put = my[t].put /\ my'[t].rem = my[t].rem

\* The steps that make the books or are known by them.
Special == {"fill", "size", "publish", "join", "options"}

\* The other steps, for the program counters and for the books.
PcCalm ==
    \A p \in Procs :
        \/ pc'[p] = pc[p]
        \/ p \in Workers /\ pc[p] = 0 /\ pc'[p] = 1 /\ pc[main] # 1
        \/ /\ pc[p] \in 1 .. LengthOf(driver, p) /\ pc'[p] = pc[p] + 1
           /\ OpAt(driver, p, pc[p]) \notin Special

Calm ==
    /\ UNCHANGED <<driver, settings, size, shared>>
    /\ my' \in [Workers -> Row] /\ \A t \in Workers : SameRow(t)
    /\ PcCalm

LEMMA CalmMove ==
    ASSUME BType, NEW p \in Procs, NEW op, At(p, op), op \notin Special,
           UNCHANGED pc \/ Advance(p)
    PROVE  PcCalm
<1>1. Awake(p) /\ OpAt(driver, p, pc[p]) = op /\ pc \in [Procs -> Nat]
  BY AtIs DEF BType
<1> QED
  BY <1>1 DEF PcCalm, Advance, Awake

LEMMA CalmCross ==
    ASSUME BType, Sleepers, NEW p \in Procs, NEW b \in Barriers, Cross(p, b)
    PROVE  PcCalm
<1>1. Arrives(p, b) \/ Opens(p, b)
  BY CrossIs
<1>2. CASE Arrives(p, b)
  BY <1>2 DEF Arrives, PcCalm
<1>3. CASE Opens(p, b)
  <2> SUFFICES ASSUME NEW q \in Procs
               PROVE  \/ pc'[q] = pc[q]
                      \/ /\ pc[q] \in 1 .. LengthOf(driver, q) /\ pc'[q] = pc[q] + 1
                         /\ OpAt(driver, q, pc[q]) \notin Special
    BY DEF PcCalm
  <2>1. pc'[q] = pc[q] + (IF q \in Waits(b) \cup {p} THEN 1 ELSE 0) /\ pc[q] \in Nat
    BY <1>3 DEF Opens, BType
  <2>2. q \in Waits(b) \cup {p} => pc[q] \in 1 .. LengthOf(driver, q) /\ OpAt(driver, q, pc[q]) = b
    BY <1>3 DEF Opens, Awake, Waits, Sleepers
  <2>3. b \notin Special
    BY DEF Barriers, Special
  <2> QED
    BY <2>1, <2>2, <2>3
<1> QED
  BY <1>1, <1>2, <1>3

LEMMA RowsSame ==
    ASSUME BookType, UNCHANGED my
    PROVE  my' \in [Workers -> Row] /\ \A t \in Workers : SameRow(t)
  BY DEF BookType, SameRow

LEMMA CalmWorker ==
    ASSUME BType, BookType, NEW t \in Workers,
           Attaches(t) \/ LoopTest(t) \/ PeriodTest(t) \/ Timestamp(t) \/ TimestampsFit(t)
    PROVE  Calm
<1>0. t \in Procs
  BY ProcsFacts
<1>1. CASE Attaches(t) \/ TimestampsFit(t)
  <2>1. /\ At(t, "attach") \/ At(t, "fits")
        /\ Advance(t) /\ UNCHANGED <<driver, settings, size, shared, my>>
    BY <1>1 DEF Attaches, TimestampsFit
  <2>2. PcCalm
    BY <1>0, <2>1, CalmMove DEF Special
  <2> QED
    BY <2>1, <2>2, RowsSame DEF Calm
<1>2. CASE LoopTest(t) \/ PeriodTest(t) \/ Timestamp(t)
  <2>1. /\ At(t, "updates") \/ At(t, "timed") \/ At(t, "scheduled")
        /\ UNCHANGED pc \/ Advance(t)
        /\ UNCHANGED <<driver, settings, size, shared>>
    BY <1>2 DEF LoopTest, PeriodTest, Timestamp, Looping
  <2>2. PcCalm
    BY <1>0, <2>1, CalmMove DEF Special
  <2>3. my' \in [Workers -> Row] /\ \A u \in Workers : SameRow(u)
    <3>1. CASE LoopTest(t)
      <4>1. CASE UNCHANGED my
        BY <4>1, RowsSame
      <4>2. CASE ~UNCHANGED my
        <5>1. PICK n \in Nat : my' = [my EXCEPT ![t].left = n, ![t].batches = @ + 1]
          BY <3>1, <4>2, DriverAssumption DEF LoopTest
        <5> QED
          BY <5>1 DEF BookType, SameRow, Row
      <4> QED
        BY <4>1, <4>2
    <3>2. CASE PeriodTest(t)
      <4>1. CASE UNCHANGED my
        BY <4>1, RowsSame
      <4>2. CASE my' = [my EXCEPT ![t].left = OpsPerTs, ![t].batches = @ + 1]
        BY <4>2, DriverAssumption DEF BookType, SameRow, Row
      <4>3. CASE my' = [my EXCEPT ![t].periods = @ + 1, ![t].timeit = @ + 1]
        BY <4>3 DEF BookType, SameRow, Row
      <4> QED
        BY <3>2, <4>1, <4>2, <4>3 DEF PeriodTest
    <3>3. CASE Timestamp(t)
      <4>1. my' = [my EXCEPT ![t].stamp = FALSE, ![t].timeit = @ + 1]
        BY <3>3 DEF Timestamp
      <4> QED
        BY <4>1 DEF BookType, SameRow, Row
    <3> QED
      BY <1>2, <3>1, <3>2, <3>3
  <2> QED
    BY <2>1, <2>2, <2>3 DEF Calm
<1> QED
  BY <1>1, <1>2

LEMMA CalmMain ==
    ASSUME BType, BookType, Create \/ ResizeDepth \/ ResizeWidth \/ Stop \/ Check
    PROVE  Calm
<1>0. main \in Procs /\ Workers \subseteq Procs
  BY ProcsFacts
<1>1. UNCHANGED <<driver, settings, size, shared, my>>
  BY DEF Create, ResizeDepth, ResizeWidth, Stop, Check
<1>2. PcCalm
  <2>1. CASE Create
    <3>1. At(main, "create") /\ pc \in [Procs -> Nat]
      BY <2>1 DEF Create, BType
    <3>2. CASE UNCHANGED pc \/ Advance(main)
      BY <1>0, <3>1, <3>2, CalmMove DEF Special
    <3>3. CASE \E t \in Workers : pc[t] = 0 /\ pc' = [pc EXCEPT ![t] = 1]
      <4>1. pc[main] # 1
        <5>1. Awake(main) /\ OpAt(driver, main, pc[main]) = "create"
          BY <1>0, <3>1, AtIs
        <5> QED
          BY <5>1, MainSteps DEF Awake
      <4> QED
        BY <1>0, <3>1, <3>3, <4>1 DEF PcCalm
    <3> QED
      BY <2>1, <3>2, <3>3 DEF Create
  <2>2. CASE ResizeDepth \/ ResizeWidth \/ Stop \/ Check
    <3>1. /\ \/ At(main, "put_depth") \/ At(main, "depth") \/ At(main, "elastic_depth")
             \/ At(main, "width") \/ At(main, "elastic_width") \/ At(main, "stop")
             \/ At(main, "assert") \/ At(main, "elastic_is") \/ At(main, "warn")
          /\ Advance(main)
      BY <2>2 DEF ResizeDepth, ResizeWidth, Stop, Check
    <3> QED
      BY <1>0, <3>1, CalmMove DEF Special
  <2> QED
    BY <2>1, <2>2
<1> QED
  BY <1>1, <1>2, RowsSame DEF Calm

\* Six actions are not calm.
LEMMA BookKinds ==
    ASSUME BType, Sleepers, BookType, [Next]_vars
    PROVE  \/ Calm
           \/ \E t \in Workers : Fills(t) \/ LoopOperation(t) \/ Measure(t) \/ Publish(t)
           \/ Configure \/ Join
<1>1. ASSUME NEW t \in Workers, Worker(t)
      PROVE  Calm \/ Fills(t) \/ LoopOperation(t) \/ Measure(t) \/ Publish(t)
  BY <1>1, CalmWorker DEF Worker
<1>2. ASSUME NEW p \in Procs, NEW b \in Barriers, Cross(p, b) PROVE Calm
  <2>1. UNCHANGED <<driver, settings, size, shared, my>>
    BY <1>2 DEF Cross
  <2> QED
    BY <1>2, <2>1, CalmCross, RowsSame DEF Calm
<1>3. CASE MainThread
  BY <1>3, CalmMain DEF MainThread
<1>4. CASE UNCHANGED vars
  <2>1. UNCHANGED <<driver, settings, size, shared, my, pc>>
    BY <1>4 DEF vars
  <2> QED
    BY <2>1, RowsSame DEF Calm, PcCalm
<1> QED
  BY <1>1, <1>2, <1>3, <1>4 DEF Next, Barriers

-----------------------------------------------------------------------------
\* The parts of the invariant of the books.  A worker is behind a step of test.
Behind(t, op) == \E i \in 1 .. Len(driver.test) : i < pc[t] /\ driver.test[i].op = op

FillInv ==
    /\ pc[main] >= 1
    /\ pc[main] = 1 =>
          /\ \A t \in Workers : pc[t] = 0
          /\ \E call \in Invocations : driver = call.driver /\ settings = call.given
    /\ pc[main] > 1 => settings.i \in Nat
    /\ \A t \in Workers : Behind(t, "fill") => my[t].filled = Share(t)

\* Every element of the structure is accounted for.
Ledger ==
    driver.main.kind \in {"container", "counter"} =>
        size = Total([t \in Workers |-> my[t].filled]) + Total([t \in Workers |-> my[t].put])
               - Total([t \in Workers |-> my[t].rem])

Published ==
    \A t \in Workers :
        /\ Behind(t, "publish") => shared.put[t] = my[t].put /\ shared.rem[t] = my[t].rem
        /\ ~Behind(t, "publish") => shared.put[t] = 0 /\ shared.rem[t] = 0

Joined ==
    \A i \in 1 .. LengthOf(driver, main) :
        (i < pc[main] /\ OpAt(driver, main, i) = "join") =>
            \A t \in Workers : pc[t] > LengthOf(driver, t)

\* What worker 0 measured after the loops is still the size.
Measured == (Behind(0, "size") /\ ~Narrowed) => shared.size_after = size

BookInv == BookType /\ FillInv /\ Ledger /\ Published /\ Joined

LEMMA TestIs ==
    ASSUME BType
    PROVE  /\ TestSound(driver.test) /\ Len(driver.test) \in Nat
           /\ \A t \in Workers : /\ LengthOf(driver, t) = Len(driver.test) + N
                                 /\ \A i \in 1 .. Len(driver.test) :
                                       OpAt(driver, t, i) = driver.test[i].op
<1>1. TestSound(driver.test)
  BY DriversAreSound DEF BType, DriverSound
<1>2. Len(driver.test) \in Nat
  BY <1>1 DEF TestSound
<1> QED
  BY <1>1, <1>2, ProcsFacts DEF LengthOf, OpAt

LEMMA BehindSame ==
    ASSUME BType, driver' = driver, NEW t \in Workers, NEW op,
           \/ pc'[t] = pc[t]
           \/ pc[t] = 0 /\ pc'[t] = 1
           \/ pc'[t] = pc[t] + 1 /\ OpAt(driver, t, pc[t]) # op
    PROVE  Behind(t, op)' <=> Behind(t, op)
<1>1. pc[t] \in Nat /\ \A i \in 1 .. Len(driver.test) : OpAt(driver, t, i) = driver.test[i].op
  BY TestIs, ProcsFacts DEF BType
<1> QED
  BY <1>1 DEF Behind

LEMMA BehindNow ==
    ASSUME BType, driver' = driver, NEW t \in Workers, NEW op,
           pc[t] \in 1 .. Len(driver.test), driver.test[pc[t]].op = op, pc'[t] = pc[t] + 1
    PROVE  Behind(t, op)'
<1>1. pc[t] \in Nat
  BY ProcsFacts DEF BType
<1> QED
  BY <1>1 DEF Behind

\* The four special steps of the workers, in terms of what they change.
LEMMA FillsIs ==
    ASSUME BType, BookType, NEW t \in Workers, Fills(t)
    PROVE  /\ pc[t] \in 1 .. Len(driver.test) /\ driver.test[pc[t]].op = "fill"
           /\ UNCHANGED <<driver, settings, shared, dims>>
           /\ my' \in [Workers -> Row] /\ \A u \in Workers : u # t => my'[u] = my[u]
           /\ \A u \in Procs : u # t => pc'[u] = pc[u]
           /\ \/ /\ my[t].filled < Share(t) /\ size' = size + 1 /\ pc'[t] = pc[t]
                 /\ my'[t].filled = my[t].filled + 1
                 /\ my'[t].put = my[t].put /\ my'[t].rem = my[t].rem
              \/ my[t].filled = Share(t) /\ size' = size /\ my' = my /\ pc'[t] = pc[t] + 1
<1>1. pc[t] \in 1 .. Len(driver.test) /\ driver.test[pc[t]].op = "fill"
  BY WorkerAt DEF Fills
<1>2. pc \in [Procs -> Nat] /\ t \in Procs
  BY ProcsFacts DEF BType
<1>3. CASE UNCHANGED <<size, my>> /\ my[t].filled = Share(t) /\ Advance(t)
  BY <1>1, <1>2, <1>3 DEF Fills, Advance, BookType
<1>4. CASE my[t].filled < Share(t) /\ size' = size + 1 /\ my' = [my EXCEPT ![t].filled = @ + 1]
           /\ UNCHANGED pc
  <2>1. /\ my' \in [Workers -> Row] /\ \A u \in Workers : u # t => my'[u] = my[u]
        /\ my'[t].filled = my[t].filled + 1 /\ my'[t].put = my[t].put /\ my'[t].rem = my[t].rem
    BY <1>4 DEF BookType, Row
  <2> QED
    BY <1>1, <1>2, <1>4, <2>1 DEF Fills
<1> QED
  BY <1>3, <1>4 DEF Fills

LEMMA OperationsAre ==
    ASSUME NEW kind \in {"container", "counter", "single_cas", "single_faa"},
           NEW op \in Operations(kind)
    PROVE  /\ op.by \in Int /\ op.put \in Nat /\ op.rem \in Nat
           /\ kind \in {"container", "counter"} => op.by = op.put - op.rem
<1>1. CASE kind = "container"
  BY <1>1 DEF Operations, Op, Succ
<1>2. CASE kind = "counter"
  BY <1>2 DEF Operations, Op, Succ
<1>3. CASE kind = "single_faa"
  BY <1>3 DEF Operations, Op, Succ
<1>4. CASE kind = "single_cas"
  BY <1>4 DEF Operations, Op, Succ
<1> QED
  BY <1>1, <1>2, <1>3, <1>4

LEMMA LoopOperationIs ==
    ASSUME BType, BookType, NEW t \in Workers, LoopOperation(t)
    PROVE  /\ pc[t] \in 1 .. Len(driver.test) /\ driver.test[pc[t]].op \in LoopOps
           /\ UNCHANGED <<driver, settings, shared, dims, pc>>
           /\ my' \in [Workers -> Row] /\ \A u \in Workers : u # t => my'[u] = my[u]
           /\ my'[t].filled = my[t].filled
           /\ \E op \in Operations(driver.main.kind) :
                 /\ size' = size + op.by
                 /\ my'[t].put = my[t].put + op.put /\ my'[t].rem = my[t].rem + op.rem
<1>1. pc[t] \in 1 .. Len(driver.test) /\ driver.test[pc[t]].op \in LoopOps
  BY WorkerAt DEF LoopOperation, Looping, LoopOps
<1>2. PICK op \in Operations(driver.main.kind) :
         /\ size' = size + op.by
         /\ my' = [my EXCEPT ![t].put = @ + op.put, ![t].rem = @ + op.rem, ![t].left = @ - 1,
                             ![t].stamp = ~At(t, "updates") /\ my[t].left = 1]
  BY DEF LoopOperation
<1>3. op.put \in Nat /\ op.rem \in Nat
  <2>1. driver.main.kind \in {"container", "counter", "single_cas", "single_faa"}
    BY DriversAreSound DEF BType, DriverSound
  <2> QED
    BY <2>1, OperationsAre
<1>4. PICK stamp \in BOOLEAN : stamp = (~At(t, "updates") /\ my[t].left = 1)
  OBVIOUS
<1>5. my[t].left > 0 /\ UNCHANGED <<driver, settings, shared, dims, pc>>
  BY DEF LoopOperation
<1>6. my' = [my EXCEPT ![t].put = @ + op.put, ![t].rem = @ + op.rem, ![t].left = @ - 1,
                       ![t].stamp = stamp]
  BY <1>2, <1>4
<1>7. /\ my' \in [Workers -> Row] /\ \A u \in Workers : u # t => my'[u] = my[u]
      /\ my'[t].filled = my[t].filled
      /\ my'[t].put = my[t].put + op.put /\ my'[t].rem = my[t].rem + op.rem
  BY <1>3, <1>5, <1>6 DEF BookType, Row
<1> QED
  BY <1>1, <1>2, <1>5, <1>7

LEMMA MeasureIs ==
    ASSUME BType, BookType, NEW t \in Workers, Measure(t)
    PROVE  /\ pc[t] \in 1 .. Len(driver.test) /\ driver.test[pc[t]].op \in {"before", "size"}
           /\ UNCHANGED <<driver, settings, my, size, dims>>
           /\ pc'[t] = pc[t] + 1 /\ \A u \in Procs : u # t => pc'[u] = pc[u]
           /\ shared'.put = shared.put /\ shared'.rem = shared.rem
           /\ shared' \in [size_after : Int, put : [Workers -> Nat], rem : [Workers -> Nat]]
           /\ IF t = 0 /\ driver.test[pc[t]].op = "size"
              THEN ~Narrowed => shared'.size_after = size
              ELSE shared' = shared
<1>1. pc[t] \in 1 .. Len(driver.test) /\ driver.test[pc[t]].op \in {"before", "size"}
  BY WorkerAt DEF Measure, Measuring
<1>2. pc \in [Procs -> Nat] /\ t \in Procs /\ Advance(t)
  BY ProcsFacts DEF BType, Measure
<1>3. PICK n \in Counted : shared' = IF t = 0 /\ At(t, "size") THEN [shared EXCEPT !.size_after = n] ELSE shared
  BY DEF Measure
<1>4. n \in Int /\ (~Narrowed => n = size)
  BY DEF Counted, BookType
<1>5. At(t, "size") <=> driver.test[pc[t]].op = "size"
  <2>1. At(t, "size") => driver.test[pc[t]].op = "size"
    BY WorkerAt
  <2>2. At(t, "before") => driver.test[pc[t]].op = "before"
    BY WorkerAt
  <2> QED
    BY <2>1, <2>2 DEF Measure, Measuring
<1>6. UNCHANGED <<driver, settings, my, size, dims>>
  BY DEF Measure
<1>7. pc'[t] = pc[t] + 1 /\ \A u \in Procs : u # t => pc'[u] = pc[u]
  BY <1>2 DEF Advance
<1>8. /\ shared'.put = shared.put /\ shared'.rem = shared.rem
      /\ shared' \in [size_after : Int, put : [Workers -> Nat], rem : [Workers -> Nat]]
      /\ IF t = 0 /\ At(t, "size") THEN shared'.size_after = n ELSE shared' = shared
  BY <1>3, <1>4 DEF BookType
<1> QED
  BY <1>1, <1>4, <1>5, <1>6, <1>7, <1>8

LEMMA PublishIs ==
    ASSUME BType, BookType, NEW t \in Workers, Publish(t)
    PROVE  /\ pc[t] \in 1 .. Len(driver.test) /\ driver.test[pc[t]].op = "publish"
           /\ UNCHANGED <<driver, settings, my, size, dims>>
           /\ pc'[t] = pc[t] + 1 /\ \A u \in Procs : u # t => pc'[u] = pc[u]
           /\ shared' \in [size_after : Int, put : [Workers -> Nat], rem : [Workers -> Nat]]
           /\ shared'.size_after = shared.size_after
           /\ shared'.put[t] = shared.put[t] + my[t].put
           /\ shared'.rem[t] = shared.rem[t] + my[t].rem
           /\ \A u \in Workers : u # t =>
                 shared'.put[u] = shared.put[u] /\ shared'.rem[u] = shared.rem[u]
<1>1. pc[t] \in 1 .. Len(driver.test) /\ driver.test[pc[t]].op = "publish"
  BY WorkerAt DEF Publish
<1>2. pc \in [Procs -> Nat] /\ t \in Procs /\ Advance(t)
  BY ProcsFacts DEF BType, Publish
<1>3. pc'[t] = pc[t] + 1 /\ \A u \in Procs : u # t => pc'[u] = pc[u]
  BY <1>2 DEF Advance
<1>4. my[t].put \in Nat /\ my[t].rem \in Nat
  BY DEF BookType, Row
<1>5. shared' = [shared EXCEPT !.put[t] = @ + my[t].put, !.rem[t] = @ + my[t].rem]
  BY DEF Publish
<1>6. UNCHANGED <<driver, settings, my, size, dims>>
  BY DEF Publish
<1>7. /\ shared' \in [size_after : Int, put : [Workers -> Nat], rem : [Workers -> Nat]]
      /\ shared'.size_after = shared.size_after
      /\ shared'.put[t] = shared.put[t] + my[t].put
      /\ shared'.rem[t] = shared.rem[t] + my[t].rem
      /\ \A u \in Workers : u # t =>
            shared'.put[u] = shared.put[u] /\ shared'.rem[u] = shared.rem[u]
  <2> DEFINE put == [shared.put EXCEPT ![t] = @ + my[t].put]
             rem == [shared.rem EXCEPT ![t] = @ + my[t].rem]
  <2>1. shared.put \in [Workers -> Nat] /\ shared.rem \in [Workers -> Nat]
    BY DEF BookType
  <2>2. /\ put \in [Workers -> Nat] /\ put[t] = shared.put[t] + my[t].put
        /\ \A u \in Workers : u # t => put[u] = shared.put[u]
    BY <1>4, <2>1
  <2>3. /\ rem \in [Workers -> Nat] /\ rem[t] = shared.rem[t] + my[t].rem
        /\ \A u \in Workers : u # t => rem[u] = shared.rem[u]
    BY <1>4, <2>1
  <2>4. shared' = [shared EXCEPT !.put = put, !.rem = rem]
    BY <1>5
  <2> HIDE DEF put, rem
  <2>5. shared'.put = put /\ shared'.rem = rem /\ shared'.size_after = shared.size_after
        /\ shared' \in [size_after : Int, put : [Workers -> Nat], rem : [Workers -> Nat]]
    BY <2>2, <2>3, <2>4 DEF BookType
  <2> QED
    BY <2>2, <2>3, <2>5
<1> QED
  BY <1>1, <1>3, <1>6, <1>7

LEMMA ConfigureIs ==
    ASSUME BType, Configure
    PROVE  /\ pc[main] = 1 /\ UNCHANGED <<driver, my, shared, size>>
           /\ \A t \in Workers : pc'[t] = pc[t]
           /\ \/ pc' = pc /\ UNCHANGED <<settings, dims>>
              \/ pc'[main] = 2 /\ settings' = Configured(driver, settings)
<1>1. Awake(main) /\ OpAt(driver, main, pc[main]) = "options"
  BY ProcsFacts, AtIs DEF Configure
<1>2. pc[main] = 1
  BY <1>1, MainSteps DEF Awake
<1>3. pc \in [Procs -> Nat]
  BY DEF BType
<1> QED
  BY <1>2, <1>3, ProcsFacts DEF Configure, Configured, Advance

LEMMA JoinIs ==
    ASSUME BType, Join
    PROVE  /\ UNCHANGED <<driver, settings, my, shared, size, dims>>
           /\ pc[main] # 1 /\ pc'[main] = pc[main] + 1 /\ \A t \in Workers : pc'[t] = pc[t]
           /\ \A t \in Workers : pc[t] > LengthOf(driver, t)
<1>1. Awake(main) /\ OpAt(driver, main, pc[main]) = "join"
  BY ProcsFacts, AtIs DEF Join
<1>2. pc[main] # 1
  BY <1>1, MainSteps DEF Awake
<1>3. pc \in [Procs -> Nat]
  BY DEF BType
<1>4. \A t \in Workers : pc[t] > LengthOf(driver, t)
  BY ProgramIs DEF Join, Done
<1> QED
  BY <1>2, <1>3, <1>4, ProcsFacts DEF Join, Advance

-----------------------------------------------------------------------------
\* Each part of the invariant, step by step.
LEMMA BookTypeStep ==
    ASSUME BType, Sleepers, BookType, [Next]_vars
    PROVE  BookType'
<1>1. CASE Calm
  BY <1>1 DEF Calm, BookType
<1>2. ASSUME NEW t \in Workers, Fills(t) PROVE BookType'
  BY <1>2, FillsIs DEF BookType
<1>3. ASSUME NEW t \in Workers, LoopOperation(t) PROVE BookType'
  <2>1. driver.main.kind \in {"container", "counter", "single_cas", "single_faa"}
    BY DriversAreSound DEF BType, DriverSound
  <2>2. PICK op \in Operations(driver.main.kind) : size' = size + op.by
    BY <1>3, LoopOperationIs
  <2>3. op.by \in Int
    BY <2>1, OperationsAre
  <2> QED
    BY <1>3, <2>2, <2>3, LoopOperationIs DEF BookType
<1>4. ASSUME NEW t \in Workers, Measure(t) PROVE BookType'
  BY <1>4, MeasureIs DEF BookType
<1>5. ASSUME NEW t \in Workers, Publish(t) PROVE BookType'
  BY <1>5, PublishIs DEF BookType
<1>6. CASE Configure
  BY <1>6, ConfigureIs DEF BookType
<1>7. CASE Join
  BY <1>7, JoinIs DEF BookType
<1> QED
  BY <1>1, <1>2, <1>3, <1>4, <1>5, <1>6, <1>7, BookKinds

LEMMA InitialType ==
    ASSUME NEW call \in Invocations
    PROVE  Configured(call.driver, call.given).i \in Nat
<1> DEFINE s == Parse(call.driver.options.rules, call.given)
<1>1. s \in [Letters -> Nat]
  BY InvocationsAssumption, ParseType
<1> HIDE DEF s
<1>2. s["i"] \in Nat /\ "i" \in DOMAIN s /\ "r" \in DOMAIN s /\ "p" \in DOMAIN s
  BY <1>1 DEF Letters
<1>3. pow2roundup[s["i"]] \in Nat
  BY <1>2, RoundupDefined
<1>4. Normalise(s, "p" \in DOMAIN call.given).i = pow2roundup[s["i"]]
  BY <1>1, <1>2 DEF Normalise
<1> QED
  BY <1>3, <1>4 DEF Configured, s

\* A worker is created after main has read the options, and a step of main that
\* is not Configure leaves the settings alone.
LEMMA FillInvStep ==
    ASSUME BType, Sleepers, BookType, FillInv, [Next]_vars
    PROVE  FillInv'
<1>0. /\ pc \in [Procs -> Nat] /\ main \in Procs /\ Workers \subseteq Procs /\ main \notin Workers
      /\ pc[main] \in Nat /\ pc[main] >= 1
  BY ProcsFacts DEF BType, FillInv
<1>1. ASSUME driver' = driver, settings' = settings,
             pc'[main] = pc[main] \/ (pc'[main] = pc[main] + 1 /\ pc[main] # 1),
             \A t \in Workers : pc[main] = 1 /\ pc[t] = 0 => pc'[t] = 0,
             \A t \in Workers : /\ Behind(t, "fill")' /\ ~Behind(t, "fill") => my[t].filled = Share(t)
                                /\ my'[t].filled # my[t].filled => my[t].filled # Share(t) /\ ~Behind(t, "fill")'
      PROVE  FillInv'
  <2>1. \A t \in Workers : Share(t)' = Share(t)
    BY <1>1 DEF Share, initial
  <2>2. pc'[main] >= 1 /\ (pc'[main] = 1 => pc[main] = 1) /\ (pc'[main] > 1 => pc[main] > 1)
    BY <1>0, <1>1
  <2>3. \A t \in Workers : Behind(t, "fill")' => my'[t].filled = Share(t)'
    BY <1>1, <2>1 DEF FillInv
  <2>4. pc'[main] = 1 => /\ \A t \in Workers : pc'[t] = 0
                         /\ \E call \in Invocations : driver' = call.driver /\ settings' = call.given
    BY <1>1, <2>2 DEF FillInv
  <2>5. pc'[main] > 1 => settings'.i \in Nat
    BY <1>1, <2>2 DEF FillInv
  <2> QED
    BY <2>2, <2>3, <2>4, <2>5 DEF FillInv
<1>2. CASE Calm
  <2>1. driver' = driver /\ settings' = settings /\ PcCalm /\ \A t \in Workers : SameRow(t)
    BY <1>2 DEF Calm
  <2>2. pc'[main] = pc[main] \/ (pc'[main] = pc[main] + 1 /\ pc[main] # 1)
    <3>1. \/ pc'[main] = pc[main]
          \/ /\ pc[main] \in 1 .. LengthOf(driver, main) /\ pc'[main] = pc[main] + 1
             /\ OpAt(driver, main, pc[main]) # "options"
      BY <1>0, <2>1 DEF PcCalm, Special
    <3> QED
      BY <3>1, MainSteps
  <2>3. ASSUME NEW t \in Workers PROVE pc[main] = 1 /\ pc[t] = 0 => pc'[t] = 0
    BY <1>0, <2>1 DEF PcCalm
  <2>4. ASSUME NEW t \in Workers PROVE Behind(t, "fill")' <=> Behind(t, "fill")
    <3>1. \/ pc'[t] = pc[t]
          \/ pc[t] = 0 /\ pc'[t] = 1
          \/ pc'[t] = pc[t] + 1 /\ OpAt(driver, t, pc[t]) # "fill"
      BY <1>0, <2>1 DEF PcCalm, Special
    <3> QED
      BY <2>1, <3>1, BehindSame
  <2> QED
    BY <1>1, <2>1, <2>2, <2>3, <2>4 DEF SameRow
<1>3. ASSUME NEW t \in Workers, Fills(t) PROVE FillInv'
  <2>1. /\ driver' = driver /\ settings' = settings
        /\ \A u \in Procs : u # t => pc'[u] = pc[u]
        /\ \A u \in Workers : u # t => my'[u] = my[u]
        /\ pc[t] \in 1 .. Len(driver.test) /\ driver.test[pc[t]].op = "fill"
        /\ \/ my[t].filled < Share(t) /\ pc'[t] = pc[t]
           \/ my[t].filled = Share(t) /\ my' = my /\ pc'[t] = pc[t] + 1
    BY <1>3, FillsIs
  <2>2. ASSUME NEW u \in Workers, pc'[u] = pc[u] PROVE Behind(u, "fill")' <=> Behind(u, "fill")
    BY <2>1, <2>2, BehindSame
  <2>3. pc'[main] = pc[main] /\ pc[t] # 0 /\ t # main
    BY <1>0, <2>1
  <2>4. my[t].filled < Share(t) => my[t].filled # Share(t)
    <3>1. my[t].filled \in Nat
      BY DEF BookType, Row
    <3> QED
      BY <3>1
  <2>5. ASSUME NEW u \in Workers
        PROVE  /\ Behind(u, "fill")' /\ ~Behind(u, "fill") => my[u].filled = Share(u)
               /\ my'[u].filled # my[u].filled => my[u].filled # Share(u) /\ ~Behind(u, "fill")'
               /\ pc[main] = 1 /\ pc[u] = 0 => pc'[u] = 0
    <3>1. CASE u # t
      BY <1>0, <2>1, <2>2, <3>1
    <3>2. CASE u = t
      BY <1>0, <2>1, <2>2, <2>3, <2>4, <3>2 DEF FillInv
    <3> QED
      BY <3>1, <3>2
  <2> QED
    BY <1>1, <2>1, <2>3, <2>5
<1>4. ASSUME NEW t \in Workers, LoopOperation(t) \/ Measure(t) \/ Publish(t) PROVE FillInv'
  <2>1. /\ driver' = driver /\ settings' = settings
        /\ pc[t] \in 1 .. Len(driver.test) /\ driver.test[pc[t]].op # "fill"
        /\ \A u \in Procs : u # t => pc'[u] = pc[u]
        /\ pc'[t] = pc[t] \/ pc'[t] = pc[t] + 1
        /\ \A u \in Workers : my'[u].filled = my[u].filled
    <3>1. CASE LoopOperation(t)
      BY <3>1, LoopOperationIs DEF LoopOps
    <3>2. CASE Measure(t)
      BY <3>2, MeasureIs
    <3>3. CASE Publish(t)
      BY <3>3, PublishIs
    <3> QED
      BY <1>4, <3>1, <3>2, <3>3
  <2>2. OpAt(driver, t, pc[t]) # "fill"
    BY <2>1, TestIs
  <2>3. ASSUME NEW u \in Workers PROVE Behind(u, "fill")' <=> Behind(u, "fill")
    BY <1>0, <2>1, <2>2, BehindSame
  <2>4. pc'[main] = pc[main] /\ pc[t] # 0
    BY <1>0, <2>1
  <2>5. \A u \in Workers : pc[main] = 1 /\ pc[u] = 0 => pc'[u] = 0
    BY <1>0, <2>1, <2>4
  <2> QED
    BY <1>1, <2>1, <2>3, <2>4, <2>5
<1>5. CASE Join
  <2>1. /\ driver' = driver /\ settings' = settings /\ my' = my
        /\ pc[main] # 1 /\ pc'[main] = pc[main] + 1 /\ \A t \in Workers : pc'[t] = pc[t]
    BY <1>5, JoinIs
  <2>2. ASSUME NEW u \in Workers PROVE Behind(u, "fill")' <=> Behind(u, "fill")
    BY <2>1, BehindSame
  <2> QED
    BY <1>1, <2>1, <2>2
<1>6. CASE Configure
  <2>1. /\ pc[main] = 1 /\ UNCHANGED <<driver, my>> /\ \A t \in Workers : pc'[t] = pc[t]
        /\ \/ pc' = pc /\ UNCHANGED settings
           \/ pc'[main] = 2 /\ settings' = Configured(driver, settings)
    BY <1>6, ConfigureIs
  <2>2. ASSUME NEW t \in Workers PROVE pc'[t] = 0 /\ ~Behind(t, "fill")'
    <3>1. pc'[t] = 0
      BY <2>1 DEF FillInv
    <3> QED
      BY <3>1, <2>1, TestIs DEF Behind
  <2>3. CASE pc' = pc /\ UNCHANGED settings
    BY <2>1, <2>2, <2>3 DEF FillInv
  <2>4. CASE pc'[main] = 2 /\ settings' = Configured(driver, settings)
    <3>1. settings'.i \in Nat
      <4>1. PICK call \in Invocations : driver = call.driver /\ settings = call.given
        BY <2>1 DEF FillInv
      <4> QED
        BY <2>4, <4>1, InitialType
    <3> QED
      BY <2>1, <2>2, <2>4, <3>1 DEF FillInv
  <2> QED
    BY <2>1, <2>3, <2>4
<1> QED
  BY <1>2, <1>3, <1>4, <1>5, <1>6, BookKinds

Column(table, field) == [t \in Workers |-> table[t][field]]

LEMMA ColumnsAre ==
    ASSUME NEW table \in [Workers -> Row], NEW field \in {"filled", "put", "rem"}
    PROVE  /\ Column(table, field) \in [Workers -> Int]
           /\ \A t \in Workers : Column(table, field)[t] = table[t][field]
           /\ Total(Column(table, field)) \in Int
<1>1. Column(table, field) \in [Workers -> Int]
  BY DEF Column, Row
<1> QED
  BY <1>1, TotalType DEF Column

LEMMA LedgerIs ==
    Ledger <=> (driver.main.kind \in {"container", "counter"} =>
                   size = Total(Column(my, "filled")) + Total(Column(my, "put"))
                          - Total(Column(my, "rem")))
  BY DEF Ledger, Column

LEMMA ColumnSame ==
    ASSUME BookType, BookType', NEW field \in {"filled", "put", "rem"},
           \A t \in Workers : my'[t][field] = my[t][field]
    PROVE  Total(Column(my', field)) = Total(Column(my, field))
<1>1. Column(my', field) = Column(my, field)
  BY DEF Column
<1> QED
  BY <1>1

LEMMA ColumnGrows ==
    ASSUME BookType, BookType', NEW field \in {"filled", "put", "rem"}, NEW t \in Workers, NEW by \in Int,
           my'[t][field] = my[t][field] + by, \A u \in Workers : u # t => my'[u] = my[u]
    PROVE  Total(Column(my', field)) = Total(Column(my, field)) + by
<1>1. my \in [Workers -> Row] /\ my' \in [Workers -> Row]
  BY DEF BookType
<1>2. /\ Column(my, field) \in [Workers -> Int] /\ Column(my', field) \in [Workers -> Int]
      /\ \A u \in Workers : /\ Column(my, field)[u] = my[u][field]
                            /\ Column(my', field)[u] = my'[u][field]
  BY <1>1, ColumnsAre
<1>3. /\ Column(my', field)[t] = Column(my, field)[t] + by
      /\ \A u \in Workers : u # t => Column(my', field)[u] = Column(my, field)[u]
  BY <1>2
<1> QED
  BY <1>2, <1>3, TotalGrows

LEMMA LedgerStep ==
    ASSUME BType, Sleepers, BookType, BookType', Ledger, [Next]_vars
    PROVE  Ledger'
<1> DEFINE filled == Total(Column(my, "filled"))
           put == Total(Column(my, "put"))
           rem == Total(Column(my, "rem"))
<1>0. /\ driver.main.kind \in {"container", "counter", "single_cas", "single_faa"}
      /\ filled \in Int /\ put \in Int /\ rem \in Int /\ size \in Int
  BY DriversAreSound, ColumnsAre DEF BType, DriverSound, BookType
<1>1. driver.main.kind \in {"container", "counter"} => size = filled + put - rem
  BY LedgerIs
<1> HIDE DEF filled, put, rem
<1>2. ASSUME driver' = driver, NEW f \in Int, NEW p \in Int, NEW r \in Int,
             Total(Column(my', "filled")) = filled + f, Total(Column(my', "put")) = put + p,
             Total(Column(my', "rem")) = rem + r,
             driver.main.kind \in {"container", "counter"} => size' = size + (f + p - r)
      PROVE  Ledger'
  <2>1. driver.main.kind \in {"container", "counter"} =>
           size' = (filled + f) + (put + p) - (rem + r)
    BY <1>0, <1>1, <1>2
  <2>2. driver'.main.kind \in {"container", "counter"} =>
           size' = Total(Column(my', "filled")) + Total(Column(my', "put"))
                   - Total(Column(my', "rem"))
    BY <1>2, <2>1
  <2> QED
    BY <2>2 DEF Ledger, Column
<1>3. ASSUME driver' = driver, size' = size, \A t \in Workers : SameRow(t) PROVE Ledger'
  <2>1. /\ Total(Column(my', "filled")) = filled + 0 /\ Total(Column(my', "put")) = put + 0
        /\ Total(Column(my', "rem")) = rem + 0
    <3>1. /\ Total(Column(my', "filled")) = filled /\ Total(Column(my', "put")) = put
          /\ Total(Column(my', "rem")) = rem
      BY <1>3, ColumnSame DEF SameRow, filled, put, rem
    <3> QED
      BY <1>0, <3>1
  <2>2. size' = size + (0 + 0 - 0)
    BY <1>0, <1>3
  <2> QED
    BY <1>2, <1>3, <2>1, <2>2
<1>4. CASE Calm
  BY <1>3, <1>4 DEF Calm
<1>5. ASSUME NEW t \in Workers, Fills(t) PROVE Ledger'
  <2>1. CASE size' = size /\ my' = my
    BY <1>3, <1>5, <2>1, FillsIs DEF SameRow
  <2>2. CASE ~(size' = size /\ my' = my)
    <3>1. /\ size' = size + 1 /\ my'[t].filled = my[t].filled + 1 /\ driver' = driver
          /\ my'[t].put = my[t].put /\ my'[t].rem = my[t].rem
          /\ \A u \in Workers : u # t => my'[u] = my[u]
      BY <1>5, <2>2, FillsIs
    <3>2. Total(Column(my', "filled")) = filled + 1
      BY <3>1, ColumnGrows DEF filled
    <3>3. Total(Column(my', "put")) = put + 0 /\ Total(Column(my', "rem")) = rem + 0
      <4>1. \A u \in Workers : my'[u].put = my[u].put /\ my'[u].rem = my[u].rem
        BY <3>1
      <4>2. Total(Column(my', "put")) = put /\ Total(Column(my', "rem")) = rem
        BY <4>1, ColumnSame DEF put, rem
      <4> QED
        BY <1>0, <4>2
    <3>4. size' = size + (1 + 0 - 0)
      BY <1>0, <3>1
    <3> QED
      BY <1>2, <3>1, <3>2, <3>3, <3>4
  <2> QED
    BY <2>1, <2>2
<1>6. ASSUME NEW t \in Workers, LoopOperation(t) PROVE Ledger'
  <2>1. PICK op \in Operations(driver.main.kind) :
           /\ size' = size + op.by
           /\ my'[t].put = my[t].put + op.put /\ my'[t].rem = my[t].rem + op.rem
    BY <1>6, LoopOperationIs
  <2>2. /\ my'[t].filled = my[t].filled /\ driver' = driver
        /\ \A u \in Workers : u # t => my'[u] = my[u]
    BY <1>6, LoopOperationIs
  <2>3. /\ op.by \in Int /\ op.put \in Nat /\ op.rem \in Nat
        /\ driver.main.kind \in {"container", "counter"} => op.by = op.put - op.rem
    BY <1>0, OperationsAre
  <2>4. Total(Column(my', "put")) = put + op.put /\ Total(Column(my', "rem")) = rem + op.rem
    BY <2>1, <2>2, <2>3, ColumnGrows DEF put, rem
  <2>5. Total(Column(my', "filled")) = filled + 0
    <3>1. \A u \in Workers : my'[u].filled = my[u].filled
      BY <2>2
    <3>2. Total(Column(my', "filled")) = filled
      BY <3>1, ColumnSame DEF filled
    <3> QED
      BY <1>0, <3>2
  <2>6. driver.main.kind \in {"container", "counter"} => size' = size + (0 + op.put - op.rem)
    BY <1>0, <2>1, <2>3
  <2> QED
    BY <1>2, <2>2, <2>3, <2>4, <2>5, <2>6
<1>7. ASSUME NEW t \in Workers, Measure(t) \/ Publish(t) PROVE Ledger'
  BY <1>3, <1>7, MeasureIs, PublishIs DEF SameRow
<1>8. CASE Configure \/ Join
  BY <1>3, <1>8, ConfigureIs, JoinIs DEF SameRow
<1> QED
  BY <1>4, <1>5, <1>6, <1>7, <1>8, BookKinds

LEMMA PublishedStep ==
    ASSUME BType, Sleepers, BookType, Published, [Next]_vars
    PROVE  Published'
<1>0. /\ pc \in [Procs -> Nat] /\ main \in Procs /\ Workers \subseteq Procs /\ main \notin Workers
      /\ shared.put \in [Workers -> Nat] /\ shared.rem \in [Workers -> Nat]
      /\ \A t \in Workers : my[t].put \in Nat /\ my[t].rem \in Nat
  BY ProcsFacts DEF BType, BookType, Row
<1>1. ASSUME \A t \in Workers :
                /\ Behind(t, "publish")' <=> Behind(t, "publish")
                /\ shared'.put[t] = shared.put[t] /\ shared'.rem[t] = shared.rem[t]
                /\ my'[t].put = my[t].put /\ my'[t].rem = my[t].rem
      PROVE  Published'
  BY <1>1 DEF Published
<1>2. CASE Calm
  <2>1. driver' = driver /\ shared' = shared /\ PcCalm /\ \A t \in Workers : SameRow(t)
    BY <1>2 DEF Calm
  <2>2. ASSUME NEW t \in Workers PROVE Behind(t, "publish")' <=> Behind(t, "publish")
    <3>1. \/ pc'[t] = pc[t]
          \/ pc[t] = 0 /\ pc'[t] = 1
          \/ pc'[t] = pc[t] + 1 /\ OpAt(driver, t, pc[t]) # "publish"
      BY <1>0, <2>1 DEF PcCalm, Special
    <3> QED
      BY <2>1, <3>1, BehindSame
  <2> QED
    BY <1>1, <2>1, <2>2 DEF SameRow
<1>3. ASSUME NEW t \in Workers, Fills(t) \/ Measure(t) PROVE Published'
  <2>1. /\ driver' = driver /\ shared'.put = shared.put /\ shared'.rem = shared.rem
        /\ pc[t] \in 1 .. Len(driver.test) /\ driver.test[pc[t]].op # "publish"
        /\ \A u \in Procs : u # t => pc'[u] = pc[u]
        /\ pc'[t] = pc[t] \/ pc'[t] = pc[t] + 1
        /\ \A u \in Workers : my'[u].put = my[u].put /\ my'[u].rem = my[u].rem
    <3>1. CASE Fills(t)
      BY <3>1, FillsIs
    <3>2. CASE Measure(t)
      BY <3>2, MeasureIs
    <3> QED
      BY <1>3, <3>1, <3>2
  <2>2. OpAt(driver, t, pc[t]) # "publish"
    BY <2>1, TestIs
  <2>3. ASSUME NEW u \in Workers PROVE Behind(u, "publish")' <=> Behind(u, "publish")
    BY <1>0, <2>1, <2>2, BehindSame
  <2> QED
    BY <1>1, <2>1, <2>3
<1>4. ASSUME NEW t \in Workers, pc[t] \in 1 .. Len(driver.test) PROVE ~Behind(t, "publish")
  <2>1. PICK fence \in Nat, start \in Nat : Fenced(driver.test, fence, start)
    BY TestIs DEF TestSound
  <2>2. \A i \in 1 .. Len(driver.test) : driver.test[i].op = "publish" => i = Len(driver.test)
    BY <2>1 DEF Fenced
  <2>3. Len(driver.test) \in Nat
    BY TestIs
  <2> QED
    BY <1>4, <2>2, <2>3 DEF Behind
<1>5. ASSUME NEW t \in Workers, LoopOperation(t) PROVE Published'
  <2>1. /\ driver' = driver /\ shared' = shared /\ pc' = pc /\ pc[t] \in 1 .. Len(driver.test)
        /\ \A u \in Workers : u # t => my'[u] = my[u]
    BY <1>5, LoopOperationIs
  <2>2. ASSUME NEW u \in Workers PROVE Behind(u, "publish")' <=> Behind(u, "publish")
    BY <2>1, BehindSame
  <2>3. ~Behind(t, "publish")
    BY <1>4, <2>1
  <2> QED
    BY <2>1, <2>2, <2>3 DEF Published
<1>6. ASSUME NEW t \in Workers, Publish(t) PROVE Published'
  <2>1. /\ driver' = driver /\ my' = my
        /\ pc[t] \in 1 .. Len(driver.test) /\ driver.test[pc[t]].op = "publish"
        /\ pc'[t] = pc[t] + 1 /\ \A u \in Procs : u # t => pc'[u] = pc[u]
        /\ shared'.put[t] = shared.put[t] + my[t].put
        /\ shared'.rem[t] = shared.rem[t] + my[t].rem
        /\ \A u \in Workers : u # t =>
              shared'.put[u] = shared.put[u] /\ shared'.rem[u] = shared.rem[u]
    BY <1>6, PublishIs
  <2>2. ~Behind(t, "publish")
    BY <1>4, <2>1
  <2>3. shared.put[t] = 0 /\ shared.rem[t] = 0
    BY <2>2 DEF Published
  <2>4. Behind(t, "publish")'
    BY <2>1, BehindNow
  <2>5. shared'.put[t] = my'[t].put /\ shared'.rem[t] = my'[t].rem
    BY <1>0, <2>1, <2>3
  <2>6. ASSUME NEW u \in Workers, u # t PROVE Behind(u, "publish")' <=> Behind(u, "publish")
    BY <1>0, <2>1, <2>6, BehindSame
  <2> QED
    BY <2>1, <2>4, <2>5, <2>6 DEF Published
<1>7. CASE Configure \/ Join
  <2>1. driver' = driver /\ shared' = shared /\ my' = my /\ \A t \in Workers : pc'[t] = pc[t]
    BY <1>7, ConfigureIs, JoinIs
  <2>2. ASSUME NEW u \in Workers PROVE Behind(u, "publish")' <=> Behind(u, "publish")
    BY <2>1, BehindSame
  <2> QED
    BY <1>1, <2>1, <2>2
<1> QED
  BY <1>2, <1>3, <1>5, <1>6, <1>7, BookKinds

\* Who has come to the end of test stays there.
LEMMA JoinedStep ==
    ASSUME BType, Sleepers, BookType, Joined, [Next]_vars
    PROVE  Joined'
<1>0. /\ pc \in [Procs -> Nat] /\ main \in Procs /\ Workers \subseteq Procs /\ main \notin Workers
      /\ pc[main] \in Nat /\ Len(driver.test) \in Nat
      /\ \A t \in Workers : LengthOf(driver, t) = Len(driver.test) + N /\ pc[t] \in Nat
  BY ProcsFacts, TestIs DEF BType
<1>1. /\ driver' = driver
      /\ \A t \in Workers : pc[t] > LengthOf(driver, t) => pc'[t] = pc[t]
      /\ \/ pc'[main] = pc[main]
         \/ pc'[main] = pc[main] + 1 /\ OpAt(driver, main, pc[main]) # "join"
         \/ \A t \in Workers : pc[t] > LengthOf(driver, t)
  <2>1. CASE Calm
    <3>1. driver' = driver /\ PcCalm
      BY <2>1 DEF Calm
    <3>2. ASSUME NEW t \in Workers, pc[t] > LengthOf(driver, t) PROVE pc'[t] = pc[t]
      <4>1. LengthOf(driver, t) \in Nat /\ pc[t] \in Nat /\ t \in Procs
        BY <1>0, DriverAssumption
      <4>2. pc[t] # 0 /\ ~(pc[t] \in 1 .. LengthOf(driver, t))
        BY <3>2, <4>1
      <4> QED
        BY <3>1, <4>1, <4>2 DEF PcCalm
    <3>3. \/ pc'[main] = pc[main]
          \/ pc'[main] = pc[main] + 1 /\ OpAt(driver, main, pc[main]) # "join"
      BY <1>0, <3>1 DEF PcCalm, Special
    <3> QED
      BY <3>1, <3>2, <3>3
  <2>2. ASSUME NEW t \in Workers, Fills(t) \/ LoopOperation(t) \/ Measure(t) \/ Publish(t)
        PROVE  /\ driver' = driver /\ pc[t] \in 1 .. Len(driver.test)
               /\ \A u \in Procs : u # t => pc'[u] = pc[u]
    BY <2>2, FillsIs, LoopOperationIs, MeasureIs, PublishIs
  <2>3. ASSUME NEW t \in Workers, driver' = driver, pc[t] \in 1 .. Len(driver.test),
               \A u \in Procs : u # t => pc'[u] = pc[u]
        PROVE  /\ \A u \in Workers : pc[u] > LengthOf(driver, u) => pc'[u] = pc[u]
               /\ pc'[main] = pc[main]
    <3>1. ~(pc[t] > LengthOf(driver, t))
      BY <1>0, <2>3, DriverAssumption
    <3> QED
      BY <1>0, <2>3, <3>1
  <2>4. CASE Configure
    <3>1. pc[main] = 1 /\ driver' = driver /\ \A t \in Workers : pc'[t] = pc[t]
          /\ (pc' = pc \/ pc'[main] = 2)
      BY <2>4, ConfigureIs
    <3>2. OpAt(driver, main, 1) # "join"
      <4>1. MainSound(driver.main.steps)
        BY DriversAreSound DEF BType, DriverSound
      <4>2. 1 \in 1 .. LengthOf(driver, main)
        BY <4>1 DEF MainSound, Staged, LengthOf
      <4> QED
        BY <4>2, MainSteps
    <3> QED
      BY <3>1, <3>2
  <2>5. CASE Join
    BY <2>5, JoinIs
  <2> QED
    BY <2>1, <2>2, <2>3, <2>4, <2>5, BookKinds
<1> SUFFICES ASSUME NEW i \in 1 .. LengthOf(driver, main), i < pc'[main],
                    OpAt(driver, main, i) = "join", NEW t \in Workers
             PROVE  pc'[t] > LengthOf(driver, t)
  BY <1>1 DEF Joined
<1>2. pc[t] > LengthOf(driver, t)
  <2>1. CASE i < pc[main]
    BY <2>1 DEF Joined
  <2>2. CASE ~(i < pc[main])
    BY <1>0, <1>1, <2>2
  <2> QED
    BY <2>1, <2>2
<1> QED
  BY <1>1, <1>2

\* Once worker 0 has measured, nobody fills or loops any more.
LEMMA RestLasts ==
    ASSUME BarrierInv, Behind(0, "size"), NEW t \in Workers, pc[t] \in 1 .. Len(driver.test)
    PROVE  driver.test[pc[t]].op \notin LoopOps \cup {"fill"}
<1> DEFINE test == driver.test
<1>0. BType /\ 0 \in Workers /\ pc[0] \in Nat /\ pc[t] \in Nat /\ Len(test) \in Nat
  BY ProcsFacts, TestIs, DriverAssumption DEF BarrierInv, BType, Workers
<1>1. PICK fence \in Nat, start \in Nat : Fenced(test, fence, start)
  BY <1>0, TestIs DEF TestSound
<1>2. /\ fence \in 1 .. Len(test) /\ start \in 1 .. Len(test) /\ fence < start
      /\ start + 2 \in 1 .. Len(test)
      /\ test[fence].op = "barrier" /\ test[start + 2].op = "barrier"
      /\ \A i \in 1 .. Len(test) :
            /\ test[i].op = "fill" => i < fence
            /\ test[i].op = "before" => fence < i /\ i < start
            /\ test[i].op \in LoopOps <=> i = start + 1
            /\ test[i].op = "size" => start + 2 < i /\ i < Len(test)
  <2>1. Len(test) \in Nat
    BY <1>0
  <2> HIDE DEF test
  <2> QED
    BY <2>1, <1>1, FencedIs
<1>3. pc[0] > start + 2
  <2>1. PICK i \in 1 .. Len(test) : i < pc[0] /\ test[i].op = "size"
    BY DEF Behind
  <2>2. start + 2 < i
    BY <1>2, <2>1
  <2> QED
    BY <1>0, <2>1, <2>2
<1>4. pc[0] > start + 2 <=> pc[t] > start + 2
  BY <1>0, <1>2, BarrierParts
<1> HIDE DEF test
<1> QED
  BY <1>0, <1>2, <1>3, <1>4 DEF test

\* The optimized stack never gets back what it has given up.
LEMMA NarrowedStays ==
    ASSUME BType, ConfigInv, ConfigInv', [Next]_vars, pc[main] > 1, Narrowed
    PROVE  Narrowed'
<1>0. /\ driver' = driver /\ WidthNow(driver, settings, dims) /\ pc[main] \in Nat
      /\ driver.options.structure = "stack_optimized" /\ dims.width < dims.built
  BY StepKinds, BTypeStep, ProcsFacts DEF ConfigInv, Narrowed, BType
<1>1. DOMAIN dims = Fields /\ dims.width \in Nat /\ dims.built \in Nat
  BY <1>0 DEF WidthNow
<1>2. CASE UNCHANGED dims
  BY <1>0, <1>2 DEF Narrowed
<1>3. CASE ResizeDepth
  <2>1. \E depth : dims' = [dims EXCEPT !.depth = depth]
    BY <1>3 DEF ResizeDepth
  <2>2. dims'.width = dims.width /\ dims'.built = dims.built
    BY <1>1, <2>1 DEF Fields
  <2> QED
    BY <1>0, <2>2 DEF Narrowed
<1>4. CASE ResizeWidth
  <2>1. dims' = dims \/ \E width : HasRoom(width) /\ dims' = [dims EXCEPT !.width = width]
    BY <1>4 DEF ResizeWidth
  <2>2. CASE dims' # dims
    <3>1. PICK width : HasRoom(width) /\ dims' = [dims EXCEPT !.width = width]
      BY <2>1, <2>2
    <3>2. dims'.width = width /\ dims'.built = dims.built
      BY <1>1, <3>1 DEF Fields
    <3>3. width <= dims.width
      BY <1>0, <3>1 DEF HasRoom
    <3>4. pc'[main] > 1
      <4>1. Advance(main)
        BY <1>4 DEF ResizeWidth
      <4> QED
        BY <1>0, <4>1, ProcsFacts DEF Advance, BType
    <3>5. width \in Nat
      BY <3>2, <3>4 DEF ConfigInv, WidthNow
    <3>6. dims'.width < dims'.built
      BY <1>0, <1>1, <3>2, <3>3, <3>5
    <3> QED
      BY <1>0, <3>6 DEF Narrowed
  <2> QED
    BY <1>2, <2>2
<1>5. ~Configure
  <2>1. Configure => pc[main] = 1
    BY ConfigureIs
  <2> QED
    BY <2>1
<1> QED
  BY <1>2, <1>3, <1>4, <1>5, ElsewhereSame

LEMMA MeasuredStep ==
    ASSUME BarrierInv, BookInv, ConfigInv, ConfigInv', Measured, [Next]_vars
    PROVE  Measured'
<1>0. /\ BType /\ Sleepers /\ BookType /\ FillInv /\ 0 \in Workers /\ pc \in [Procs -> Nat]
      /\ Workers \subseteq Procs /\ main \in Procs /\ main \notin Workers /\ driver' = driver
      /\ pc[main] \in Nat /\ pc[main] >= 1
  BY StepKinds, BTypeStep, ProcsFacts, DriverAssumption
     DEF BarrierInv, BookInv, BType, Workers, FillInv
<1> SUFFICES ASSUME Behind(0, "size")', ~Narrowed' PROVE shared'.size_after = size'
  BY DEF Measured
<1>1. ASSUME Behind(0, "size") PROVE pc[main] > 1 /\ ~Narrowed /\ shared.size_after = size
  <2>1. pc[0] # 0
    BY <1>0, <1>1, TestIs DEF Behind
  <2>2. pc[main] > 1
    BY <1>0, <2>1 DEF FillInv
  <2>3. ~Narrowed
    BY <1>0, <2>2, NarrowedStays
  <2> QED
    BY <1>1, <2>2, <2>3 DEF Measured
<1>2. CASE Calm
  <2>1. \/ pc'[0] = pc[0]
        \/ pc[0] = 0 /\ pc'[0] = 1
        \/ pc'[0] = pc[0] + 1 /\ OpAt(driver, 0, pc[0]) # "size"
    BY <1>0, <1>2 DEF Calm, PcCalm, Special
  <2>2. Behind(0, "size")
    BY <1>0, <2>1, BehindSame
  <2> QED
    BY <1>1, <1>2, <2>2 DEF Calm
<1>3. ASSUME NEW t \in Workers, Fills(t) \/ LoopOperation(t) PROVE FALSE
  <2>1. /\ pc[t] \in 1 .. Len(driver.test) /\ driver.test[pc[t]].op \in LoopOps \cup {"fill"}
        /\ pc'[0] = pc[0] \/ (t = 0 /\ pc'[0] = pc[0] + 1)
    BY <1>0, <1>3, FillsIs, LoopOperationIs
  <2>2. OpAt(driver, t, pc[t]) # "size"
    BY <1>0, <2>1, TestIs DEF LoopOps
  <2>3. Behind(0, "size")
    BY <1>0, <2>1, <2>2, BehindSame
  <2> QED
    BY <2>1, <2>3, RestLasts
<1>4. ASSUME NEW t \in Workers, Measure(t) PROVE shared'.size_after = size'
  <2>1. /\ pc[t] \in 1 .. Len(driver.test) /\ size' = size /\ dims' = dims
        /\ pc'[t] = pc[t] + 1 /\ \A u \in Procs : u # t => pc'[u] = pc[u]
        /\ IF t = 0 /\ driver.test[pc[t]].op = "size"
           THEN ~Narrowed => shared'.size_after = size
           ELSE shared' = shared
    BY <1>0, <1>4, MeasureIs
  <2>2. ~Narrowed
    BY <1>0, <2>1 DEF Narrowed
  <2>3. CASE t = 0 /\ driver.test[pc[t]].op = "size"
    BY <2>1, <2>2, <2>3
  <2>4. CASE ~(t = 0 /\ driver.test[pc[t]].op = "size")
    <3>1. pc'[0] = pc[0] \/ (pc'[0] = pc[0] + 1 /\ OpAt(driver, 0, pc[0]) # "size")
      BY <1>0, <2>1, <2>4, TestIs
    <3>2. Behind(0, "size")
      BY <1>0, <3>1, BehindSame
    <3> QED
      BY <1>1, <2>1, <2>4, <3>2
  <2> QED
    BY <2>3, <2>4
<1>5. ASSUME NEW t \in Workers, Publish(t) PROVE shared'.size_after = size'
  <2>1. /\ pc[t] \in 1 .. Len(driver.test) /\ driver.test[pc[t]].op = "publish" /\ size' = size
        /\ pc'[t] = pc[t] + 1 /\ \A u \in Procs : u # t => pc'[u] = pc[u]
        /\ shared'.size_after = shared.size_after
    BY <1>0, <1>5, PublishIs
  <2>2. pc'[0] = pc[0] \/ (pc'[0] = pc[0] + 1 /\ OpAt(driver, 0, pc[0]) # "size")
    BY <1>0, <2>1, TestIs
  <2>3. Behind(0, "size")
    BY <1>0, <2>2, BehindSame
  <2> QED
    BY <1>1, <2>1, <2>3
<1>6. CASE Configure \/ Join
  <2>1. pc'[0] = pc[0] /\ shared' = shared /\ size' = size
    BY <1>0, <1>6, ConfigureIs, JoinIs
  <2>2. Behind(0, "size")
    BY <1>0, <2>1, BehindSame
  <2> QED
    BY <1>1, <2>1, <2>2
<1> QED
  BY <1>0, <1>2, <1>3, <1>4, <1>5, <1>6, BookKinds

LEMMA BookInit ==
    ASSUME Init
    PROVE  BookInv /\ Measured
<1>1. /\ driver \in AllDrivers /\ pc[main] = 1 /\ \A t \in Workers : pc[t] = 0
      /\ \E call \in Invocations : driver = call.driver /\ settings = call.given
  BY InvocationsAssumption, ProcsFacts DEF Init
<1>2. Len(driver.test) \in Nat /\ 0 \in Workers
  BY <1>1, DriversAreSound, DriverAssumption DEF DriverSound, TestSound, Workers
<1>3. ASSUME NEW t \in Workers, NEW op PROVE ~Behind(t, op)
  BY <1>1, <1>2 DEF Behind
<1>4. BookType
  BY DEF Init, BookType, Row
<1>5. FillInv
  BY <1>1, <1>3 DEF FillInv
<1>6. Published
  BY <1>3 DEF Published, Init
<1>7. Joined
  BY <1>1 DEF Joined
<1>8. Ledger
  <2> DEFINE zero == [t \in Workers |-> 0]
  <2>1. Total(zero) = 0
    BY TotalZero
  <2>2. /\ [t \in Workers |-> my[t].filled] = zero /\ [t \in Workers |-> my[t].put] = zero
        /\ [t \in Workers |-> my[t].rem] = zero /\ size = 0
    BY DEF Init
  <2> HIDE DEF zero
  <2>3. size = Total(zero) + Total(zero) - Total(zero)
    BY <2>1, <2>2
  <2> QED
    BY <2>2, <2>3 DEF Ledger
<1>9. Measured
  BY <1>2, <1>3 DEF Measured
<1> QED
  BY <1>4, <1>5, <1>6, <1>7, <1>8, <1>9 DEF BookInv

LEMMA BookHolds == Spec => [](BarrierInv /\ BookInv)
<1>1. Init => BarrierInv /\ BookInv
  BY BarrierInit, BookInit
<1>2. (BarrierInv /\ BookInv) /\ [Next]_vars => (BarrierInv /\ BookInv)'
  <2> SUFFICES ASSUME BarrierInv, BookInv, [Next]_vars PROVE BarrierInv' /\ BookInv'
    OBVIOUS
  <2>1. BType /\ Sleepers /\ BookType /\ FillInv /\ Ledger /\ Published /\ Joined
    BY DEF BarrierInv, BookInv
  <2>2. BarrierInv'
    BY BarrierStep
  <2>3. BookType'
    BY <2>1, BookTypeStep
  <2> QED
    BY <2>1, <2>2, <2>3, FillInvStep, LedgerStep, PublishedStep, JoinedStep DEF BookInv
<1> QED
  BY <1>1, <1>2, PTL DEF Spec

\* The loop of a worker comes after the fill of every worker, and what was
\* filled in then is the number asked for.
LEMMA FilledTotal ==
    ASSUME BookInv, settings.i \in Nat, \A t \in Workers : my[t].filled = Share(t)
    PROVE  Total([u \in Workers |-> my[u].filled]) = initial
<1>1. [u \in Workers |-> my[u].filled] = [u \in Workers |-> Share(u)]
  OBVIOUS
<1> QED
  BY <1>1, SharesAddUp DEF initial

LEMMA LoopsFollow ==
    ASSUME BarrierInv, BookInv
    PROVE  LoopsAfterFill
<1> DEFINE test == driver.test
<1>0. BType /\ FillInv /\ Len(test) \in Nat /\ Workers \subseteq Procs /\ pc \in [Procs -> Nat]
      /\ pc[main] \in Nat
  BY TestIs, ProcsFacts DEF BarrierInv, BookInv, BType
<1> SUFFICES ASSUME NEW t \in Workers, Looping(t), Fill[1] \in Ops(t)
             PROVE  Total([u \in Workers |-> my[u].filled]) = initial
  BY DEF LoopsAfterFill
<1>1. PICK fence \in Nat, start \in Nat : Fenced(test, fence, start)
  BY <1>0, TestIs DEF TestSound
<1>2. /\ fence \in 1 .. Len(test) /\ start \in 1 .. Len(test) /\ fence < start
      /\ start + 2 \in 1 .. Len(test)
      /\ test[fence].op = "barrier" /\ test[start + 2].op = "barrier"
      /\ \A i \in 1 .. Len(test) :
            /\ test[i].op = "fill" => i < fence
            /\ test[i].op = "before" => fence < i /\ i < start
            /\ test[i].op \in LoopOps <=> i = start + 1
            /\ test[i].op = "size" => start + 2 < i /\ i < Len(test)
  <2>1. Len(test) \in Nat
    BY <1>0
  <2> HIDE DEF test
  <2> QED
    BY <2>1, <1>1, FencedIs
<1>3. pc[t] \in 1 .. Len(test) /\ test[pc[t]].op \in LoopOps
  BY <1>0, WorkerAt DEF Looping, LoopOps
<1>4. pc[t] > fence
  <2>1. pc[t] = start + 1
    BY <1>2, <1>3
  <2> QED
    BY <1>2, <2>1
<1>5. PICK i \in 1 .. Len(test) : test[i].op = "fill"
  <2>1. PICK i \in 1 .. Length(t) : Program(t, i).op = "fill"
    BY DEF Ops, Fill
  <2>2. OpAt(driver, t, i) = "fill" /\ t # main
    BY <2>1, ProgramIs, ProcsFacts
  <2>3. Length(t) = Len(test) + N
    BY <1>0, ProgramIs, TestIs
  <2>4. ~(i > Len(test))
    BY <2>2 DEF OpAt
  <2>5. i \in 1 .. Len(test)
    BY <1>0, <2>1, <2>3, <2>4, DriverAssumption
  <2> QED
    BY <1>0, <2>2, <2>5, TestIs
<1>6. ASSUME NEW u \in Workers PROVE my[u].filled = Share(u)
  <2>1. pc[u] > fence
    BY <1>0, <1>2, <1>4, BarrierParts
  <2>2. i < pc[u]
    BY <1>0, <1>2, <1>5, <2>1
  <2>3. Behind(u, "fill")
    BY <1>5, <2>2 DEF Behind
  <2> QED
    BY <1>0, <2>3 DEF FillInv
<1>7. settings.i \in Nat
  <2>1. pc[t] # 0
    BY <1>3
  <2> QED
    BY <1>0, <2>1 DEF FillInv
<1> QED
  BY <1>6, <1>7, FilledTotal

\* No loop of any driver starts before the structure holds all its initial
\* elements, for any number of workers and any initial size: the shares of the
\* workers add up to initial, rounded up to a power of 2, and the barrier after
\* the fill holds everybody back until the last one is done.
THEOREM FillsBeforeLoops == Spec => []LoopsAfterFill
<1>1. BarrierInv /\ BookInv => LoopsAfterFill
  BY LoopsFollow
<1> QED
  BY <1>1, BookHolds, PTL

LEMMA CheckFollows ==
    ASSUME BarrierInv, BookInv, Measured
    PROVE  CheckHolds
<1> DEFINE test == driver.test
           steps == driver.main.steps
<1>0. /\ BType /\ BookType /\ FillInv /\ Ledger /\ Published /\ Joined
      /\ Len(test) \in Nat /\ Workers \subseteq Procs /\ pc \in [Procs -> Nat]
      /\ pc[main] \in Nat /\ 0 \in Workers
      /\ \A t \in Workers : LengthOf(driver, t) = Len(test) + N
  BY TestIs, ProcsFacts, DriverAssumption DEF BarrierInv, BookInv, BType, Workers
<1> SUFFICES ASSUME At(main, "assert") \/ (At(main, "warn") /\ driver.main.kind = "container"),
                    ~Narrowed
             PROVE  SizesAgree
  BY DEF CheckHolds
<1>1. /\ pc[main] \in 1 .. Len(steps)
      /\ \/ steps[pc[main]].op = "assert"
         \/ steps[pc[main]].op = "warn" /\ driver.main.kind = "container"
  <2>1. \A op : At(main, op) => Awake(main) /\ OpAt(driver, main, pc[main]) = op
    BY <1>0, ProcsFacts, AtIs
  <2> QED
    BY <2>1 DEF Awake, OpAt, LengthOf
<1>2. DriverSound(driver)
  BY <1>0, DriversAreSound DEF BType
<1>3. Has(test, "fill") /\ Has(test, "size") /\ driver.main.kind \in {"container", "counter"}
  BY <1>1, <1>2 DEF DriverSound, OnlyChecks
<1>4. \A t \in Workers : pc[t] > Len(test) + N
  <2>1. PICK create \in Nat, join \in Nat : Staged(steps, create, join)
    BY <1>2 DEF DriverSound, MainSound
  <2>2. join \in 1 .. Len(steps) /\ steps[join].op = "join" /\ join < pc[main]
    BY <1>1, <2>1 DEF Staged
  <2>3. join \in 1 .. LengthOf(driver, main) /\ OpAt(driver, main, join) = "join"
    BY <2>2 DEF LengthOf, OpAt
  <2> QED
    BY <1>0, <2>2, <2>3 DEF Joined
<1>5. ASSUME NEW t \in Workers, NEW op, Has(test, op) PROVE Behind(t, op)
  <2>1. PICK i \in 1 .. Len(test) : test[i].op = op
    BY <1>5 DEF Has
  <2>2. i < pc[t]
    BY <1>0, <1>4, <2>1, DriverAssumption
  <2> QED
    BY <2>1, <2>2 DEF Behind
<1>6. Has(test, "publish")
  <2>1. PICK fence \in Nat, start \in Nat : Fenced(test, fence, start)
    BY <1>0, TestIs DEF TestSound
  <2> QED
    BY <1>0, <2>1 DEF Fenced, Has
<1>7. settings.i \in Nat
  <2>1. pc[0] # 0
    BY <1>0, <1>4, DriverAssumption
  <2> QED
    BY <1>0, <2>1 DEF FillInv
<1>8. Total([t \in Workers |-> my[t].filled]) = initial
  <2>1. \A t \in Workers : my[t].filled = Share(t)
    BY <1>0, <1>3, <1>5 DEF FillInv
  <2> QED
    BY <1>7, <2>1, FilledTotal
<1>9. /\ [t \in Workers |-> my[t].put] = shared.put
      /\ [t \in Workers |-> my[t].rem] = shared.rem
  <2>1. \A t \in Workers : shared.put[t] = my[t].put /\ shared.rem[t] = my[t].rem
    BY <1>0, <1>5, <1>6 DEF Published
  <2>2. shared.put \in [Workers -> Nat] /\ shared.rem \in [Workers -> Nat]
    BY <1>0 DEF BookType
  <2> QED
    BY <2>1, <2>2
<1>10. shared.size_after = size
  BY <1>0, <1>3, <1>5 DEF Measured
<1>11. size = initial + Total(shared.put) - Total(shared.rem)
  BY <1>0, <1>3, <1>8, <1>9 DEF Ledger
<1> QED
  BY <1>10, <1>11 DEF SizesAgree

\* The comparison at the end of main comes out equal in every driver, for any
\* number of workers, initial size and length of the loops, with a command line
\* in range.  The invariant is a ledger: size is what was filled in plus what
\* was put minus what was removed, row by row of the workers; the barriers make
\* worker 0 read it when it no longer changes, and join makes main compare it
\* when every row has been published.
THEOREM ChecksHold == InRange => (Spec => []CheckHolds)
<1> SUFFICES ASSUME InRange PROVE Spec => []CheckHolds
  OBVIOUS
<1>1. BarrierInv /\ BookInv /\ ConfigInv /\ ConfigInv' /\ Measured /\ [Next]_vars => Measured'
  BY MeasuredStep
<1>2. BarrierInv /\ BookInv /\ Measured => CheckHolds
  BY CheckFollows
<1>3. Init => Measured
  BY BookInit
<1>4. Spec => [](BType /\ ConfigInv)
  BY ConfigHolds
<1> QED
  BY <1>1, <1>2, <1>3, <1>4, BookHolds, PTL DEF Spec
=============================================================================
