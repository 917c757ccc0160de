------------------------------- MODULE Driver -------------------------------
(***************************************************************************)
(* A benchmark driver at work: worker threads 0 .. N - 1 and the main      *)
(* thread, N, run the programs of DriverPrograms.  The structure is its    *)
(* size only; the barriers, the stop flag and the totals are as in the     *)
(* code.  pthread_cond_wait is external and returns when it is signalled;  *)
(* POSIX also lets it return for no reason, which barrier_cross does not   *)
(* expect and this module leaves out.                                      *)
(***************************************************************************)
EXTENDS DriverPrograms, FiniteSetsExt

CONSTANTS
    Invocations,    \* the drivers considered, with their command lines
    N,              \* num_threads
    OpsPerTs,       \* OPS_PER_TS
    MaxTimestamps,  \* MAX_TIMESTAMPS
    MaxBatches,     \* batches of a worker
    Periods         \* work periods of a producer

ASSUME DriverAssumption ==
    N \in Nat \ {0} /\ OpsPerTs \in Nat \ {0} /\ DefaultInitial \in Nat

\* A driver of the repository, with numbers for some of the options.
ASSUME InvocationsAssumption ==
    \A call \in Invocations :
        /\ call.driver \in AllDrivers
        /\ DOMAIN call.given \subseteq DOMAIN Defaults
        /\ \A x \in DOMAIN call.given : call.given[x] \in Nat

VARIABLES
    driver,    \* the program that runs
    settings,  \* the command line, and later the globals set from it
    pc,        \* step of each thread, 0 before its creation
    asleep,    \* threads in pthread_cond_wait
    crossing,  \* per barrier, how many have arrived
    size,      \* elements of the structure
    stop,
    my,        \* locals of each worker
    shared,    \* what the workers publish: totals and size_after
    dims,      \* width and depth of the structure, and its room
    exited     \* a thread called exit

vars == <<driver, settings, pc, asleep, crossing, size, stop, my, shared, dims, exited>>

Workers == 0 .. N - 1
main == N
Procs == 0 .. N
Count(b) == IF b = "barrier" THEN N ELSE N + 1

\* EXEC_IN_DEC_ID_ORDER: one barrier after the turn of each worker.
Program(p, i) ==
    IF p = main THEN driver.main.steps[i]
    ELSE IF i > Len(driver.test) THEN Do("barrier") ELSE driver.test[i]

Length(p) == IF p = main THEN Len(driver.main.steps) ELSE Len(driver.test) + N

Ops(p) == {Program(p, i).op : i \in 1 .. Length(p)}
Done(p) == pc[p] > Length(p)
At(p, op) == ~exited /\ pc[p] # 0 /\ ~Done(p) /\ p \notin asleep /\ Program(p, pc[p]).op = op
Advance(p) == pc' = [pc EXCEPT ![p] = @ + 1]

initial == settings.i

\* Mutant: the elements left over by the division are not inserted.
ShareRoundedDown(t) == initial \div N

\* The share of the initial elements that a worker inserts.
Share(t) == initial \div N + (IF t < initial % N THEN 1 ELSE 0)

-----------------------------------------------------------------------------
\* barrier_cross: the last to arrive wakes the others and starts over.
Cross(p, b) ==
    LET waiting == {q \in asleep : Program(q, pc[q]).op = b}
    IN  /\ At(p, b)
        /\ \/ /\ crossing[b] + 1 < Count(b)
              /\ crossing' = [crossing EXCEPT ![b] = @ + 1]
              /\ asleep' = asleep \cup {p}
              /\ UNCHANGED pc
           \/ /\ crossing[b] + 1 >= Count(b)
              /\ crossing' = [crossing EXCEPT ![b] = 0]
              /\ asleep' = asleep \ waiting
              /\ pc' = [q \in Procs |-> pc[q] + (IF q \in waiting \cup {p} THEN 1 ELSE 0)]
        /\ UNCHANGED <<driver, settings, size, stop, my, shared, dims, exited>>

-----------------------------------------------------------------------------
Attaches(t) ==
    /\ At(t, "attach") /\ Advance(t)
    /\ UNCHANGED <<driver, settings, asleep, crossing, size, stop, my, shared, dims, exited>>

Fills(t) ==
    /\ At(t, "fill")
    /\ \/ /\ my[t].filled < Share(t)
          /\ size' = size + 1 /\ my' = [my EXCEPT ![t].filled = @ + 1] /\ UNCHANGED pc
       \/ my[t].filled = Share(t) /\ Advance(t) /\ UNCHANGED <<size, my>>
    /\ UNCHANGED <<driver, settings, asleep, crossing, stop, shared, dims, exited>>

\* One operation: the change of size, and whether the loop counts it as a
\* successful put or remove, which it reads off the value returned.
Succ(b) == IF b THEN 1 ELSE 0
Op(by, put, rem) == [by |-> by, put |-> Succ(put), rem |-> Succ(rem)]

Operations(kind) ==
    CASE kind = "container" ->
            {Op(1, TRUE, FALSE), Op(0, FALSE, FALSE)}
            \cup (IF size > 0 THEN {Op(-1, FALSE, TRUE)} ELSE {})
      [] kind = "counter" -> {Op(1, TRUE, FALSE), Op(-1, FALSE, TRUE)}
      [] kind = "single_faa" -> {Op(1, size # 0, FALSE), Op(-1, FALSE, size # 0)}
      [] kind = "single_cas" -> {Op(1, size # 0, FALSE), Op(-1, FALSE, size # 1)}

Measuring(t) == At(t, "before") \/ At(t, "size")
Looping(t) == At(t, "updates") \/ At(t, "timed") \/ At(t, "scheduled")
IsProducer(t) == t < (N * 2) \div 3

\* stop is read before the operations it lets through.
LoopTest(t) ==
    /\ Looping(t) /\ my[t].left = 0 /\ ~my[t].stamp
    /\ ~(At(t, "scheduled") /\ IsProducer(t))
    /\ \/ stop /\ Advance(t) /\ UNCHANGED my
       \/ /\ ~stop /\ my[t].batches < MaxBatches
          /\ my' = [my EXCEPT ![t].left = IF At(t, "updates") THEN 1 ELSE OpsPerTs,
                              ![t].batches = @ + 1]
          /\ UNCHANGED pc
    /\ UNCHANGED <<driver, settings, asleep, crossing, size, stop, shared, dims,
                   exited>>

\* A producer of the variable workload works through its periods, whatever stop
\* is, and marks the end of each with one more timestamp.
PeriodTest(t) ==
    /\ At(t, "scheduled") /\ IsProducer(t) /\ my[t].left = 0 /\ ~my[t].stamp
    /\ \/ my[t].periods = Periods /\ Advance(t) /\ UNCHANGED my
       \/ /\ my[t].periods < Periods /\ my[t].batches < MaxBatches
          /\ my' = [my EXCEPT ![t].left = OpsPerTs, ![t].batches = @ + 1]
          /\ UNCHANGED pc
       \/ /\ my[t].periods < Periods
          /\ my' = [my EXCEPT ![t].periods = @ + 1, ![t].timeit = @ + 1]
          /\ UNCHANGED pc
    /\ UNCHANGED <<driver, settings, asleep, crossing, size, stop, shared, dims,
                   exited>>

\* The loops put when a random number is below the put rate, and remove up to
\* and including the update rate.
Allowed(t, op) ==
    IF At(t, "scheduled") THEN IsProducer(t) <=> op.by = 1
    ELSE op.by = 1 => settings.p > 0

LoopOperation(t) ==
    /\ Looping(t) /\ my[t].left > 0
    /\ \E op \in Operations(driver.main.kind) :
          /\ Allowed(t, op)
          /\ size' = size + op.by
          /\ my' = [my EXCEPT ![t].put = @ + op.put, ![t].rem = @ + op.rem,
                              ![t].left = @ - 1,
                              ![t].stamp = ~At(t, "updates") /\ my[t].left = 1]
    /\ UNCHANGED <<driver, settings, pc, asleep, crossing, stop, shared, dims,
                   exited>>

Timestamp(t) ==
    /\ Looping(t) /\ my[t].stamp
    /\ my' = [my EXCEPT ![t].stamp = FALSE, ![t].timeit = @ + 1]
    /\ UNCHANGED <<driver, settings, pc, asleep, crossing, size, stop, shared, dims, exited>>

\* stack_size of the optimized stack looks no further than its present width.
Narrowed == driver.options.structure = "stack_optimized" /\ dims.width < dims.built
Counted == IF Narrowed THEN 0 .. size ELSE {size}

\* Only the size after the loops is kept, the one before is printed.
Measure(t) ==
    /\ Measuring(t) /\ Advance(t)
    /\ \E n \in Counted :
          shared' = IF t = 0 /\ At(t, "size") THEN [shared EXCEPT !.size_after = n]
                    ELSE shared
    /\ UNCHANGED <<driver, settings, asleep, crossing, size, stop, my, dims, exited>>

TimestampsFit(t) ==
    /\ At(t, "fits") /\ Advance(t)
    /\ exited' = (my[t].timeit > MaxTimestamps)
    /\ UNCHANGED <<driver, settings, asleep, crossing, size, stop, my, shared, dims>>

\* Mutant: the removes are not published.
PublishPuts(t) ==
    /\ At(t, "publish") /\ Advance(t)
    /\ shared' = [shared EXCEPT !.put[t] = @ + my[t].put]
    /\ UNCHANGED <<driver, settings, asleep, crossing, size, stop, my, dims, exited>>

Publish(t) ==
    /\ At(t, "publish") /\ Advance(t)
    /\ shared' = [shared EXCEPT !.put[t] = @ + my[t].put, !.rem[t] = @ + my[t].rem]
    /\ UNCHANGED <<driver, settings, asleep, crossing, size, stop, my, dims, exited>>

Worker(t) ==
    \/ Attaches(t) \/ Fills(t) \/ LoopTest(t) \/ PeriodTest(t) \/ LoopOperation(t)
    \/ Timestamp(t) \/ Measure(t) \/ TimestampsFit(t) \/ Publish(t)

-----------------------------------------------------------------------------
\* The options, up to the creation of the structure.  An option that main does
\* not know ends the process.
Configure ==
    LET given == DOMAIN settings
        s == Normalise(Parse(driver.options.rules, settings), "p" \in given)
    IN  /\ At(main, "options")
        /\ \/ /\ given \subseteq DOMAIN driver.options.rules
              /\ settings' = s
              /\ dims' = NewStructure(driver.options, N, s)
              /\ Advance(main) /\ UNCHANGED exited
           \/ /\ ~(given \subseteq DOMAIN driver.options.rules)
              /\ exited' = TRUE /\ UNCHANGED <<pc, settings, dims>>
        /\ UNCHANGED <<driver, asleep, crossing, size, stop, my, shared>>

\* pthread_create for each worker; exit(-1) when it fails.
Create ==
    /\ At(main, "create")
    /\ \/ /\ \E t \in Workers : /\ pc[t] = 0 /\ \A u \in Workers : u < t => pc[u] # 0
                                /\ pc' = [pc EXCEPT ![t] = 1]
          /\ UNCHANGED exited
       \/ (\E t \in Workers : pc[t] = 0) /\ exited' = TRUE /\ UNCHANGED pc
       \/ (\A t \in Workers : pc[t] # 0) /\ Advance(main) /\ UNCHANGED exited
    /\ UNCHANGED <<driver, settings, asleep, crossing, size, stop, my, shared, dims>>

\* update_depth and put_depth, while the workers run.
ResizeDepth ==
    LET by == Program(main, pc[main])
    IN  /\ \/ At(main, "put_depth") /\ dims' = [dims EXCEPT !.depth = 1]
           \/ /\ At(main, "depth")
              /\ dims' = [dims EXCEPT !.depth = (settings.l * by.times) \div by.over]
           \/ /\ At(main, "elastic_depth")
              /\ dims' = [dims EXCEPT !.depth = IF settings.c = 0 THEN @ ELSE settings.c]
        /\ Advance(main)
        /\ UNCHANGED <<driver, settings, asleep, crossing, size, stop, my, shared, exited>>

\* The assertions of update_width: the stacks have one, the queues do not.
HasRoom(width) ==
    CASE driver.options.structure = "stack_elastic" -> width <= dims.max_width
      [] driver.options.structure = "stack_optimized" -> width <= dims.width
      [] OTHER -> TRUE

\* update_width, while the workers run.
ResizeWidth ==
    LET by == Program(main, pc[main])
        width == IF by.op = "width" THEN (settings.w * by.times) \div by.over
                 ELSE IF settings.e = 0 THEN dims.width ELSE settings.e
    IN  /\ At(main, "width") \/ At(main, "elastic_width")
        /\ exited' = ~HasRoom(width)
        /\ dims' = IF HasRoom(width) THEN [dims EXCEPT !.width = width] ELSE dims
        /\ Advance(main)
        /\ UNCHANGED <<driver, settings, asleep, crossing, size, stop, my, shared>>

\* Mutant: main forgets to set stop.
StopForgotten ==
    /\ At(main, "stop") /\ Advance(main)
    /\ UNCHANGED <<driver, settings, asleep, crossing, size, stop, my, shared, dims, exited>>

Stop ==
    /\ At(main, "stop") /\ stop' = TRUE /\ Advance(main)
    /\ UNCHANGED <<driver, settings, asleep, crossing, size, my, shared, dims, exited>>

Join ==
    /\ At(main, "join") /\ (\A t \in Workers : Done(t)) /\ Advance(main)
    /\ UNCHANGED <<driver, settings, asleep, crossing, size, stop, my, shared, dims,
                   exited>>

Total(f) == FoldSet(LAMBDA t, n : n + f[t], 0, Workers)
SizesAgree == shared.size_after = initial + Total(shared.put) - Total(shared.rem)

ElasticIs ==
    /\ settings.e # 0 => dims.width = settings.e
    /\ settings.c # 0 => dims.depth = settings.c

\* The checks at the end: assert aborts the process, the other only prints.
Check ==
    /\ \/ At(main, "assert") /\ exited' = ~SizesAgree
       \/ At(main, "elastic_is") /\ exited' = ~ElasticIs
       \/ At(main, "warn") /\ UNCHANGED exited
    /\ Advance(main)
    /\ UNCHANGED <<driver, settings, asleep, crossing, size, stop, my, shared, dims>>

MainThread ==
    Configure \/ Create \/ ResizeDepth \/ ResizeWidth \/ Stop \/ Join \/ Check

-----------------------------------------------------------------------------
Finished == exited \/ \A p \in Procs : Done(p)

Init ==
    /\ \E call \in Invocations : driver = call.driver /\ settings = call.given
    /\ pc = [p \in Procs |-> IF p = main THEN 1 ELSE 0]
    /\ asleep = {}
    /\ crossing = [b \in {"barrier", "global"} |-> 0]
    /\ size = 0
    /\ stop = FALSE
    /\ my = [t \in Workers |-> [filled |-> 0, put |-> 0, rem |-> 0, left |-> 0,
                                batches |-> 0, stamp |-> FALSE, timeit |-> 0, periods |-> 0]]
    /\ shared = [size_after |-> 0, put |-> [t \in Workers |-> 0],
                 rem |-> [t \in Workers |-> 0]]
    /\ dims = <<>>
    /\ exited = FALSE

Step(p) ==
    \/ p \in Workers /\ Worker(p)
    \/ \E b \in {"barrier", "global"} : Cross(p, b)

Next ==
    \/ \E t \in Workers : Worker(t)
    \/ \E p \in Procs, b \in {"barrier", "global"} : Cross(p, b)
    \/ MainThread

Fairness ==
    /\ \A p \in Procs : WF_vars(Step(p))
    /\ WF_vars(MainThread)

Spec == Init /\ [][Next]_vars /\ Fairness

-----------------------------------------------------------------------------
\* The structure that main creates keeps the relaxation bound it reports, which
\* is at most the one that was asked for, and has a sub-structure and a row.
BoundHonoured ==
    (At(main, "create") /\ Known(driver.options.structure) /\ settings.m \in 0 .. 3) =>
        /\ Usable(dims)
        /\ Honours(Factor(driver.options.structure), dims)
        /\ settings.m # 0 => dims.relaxation_bound <= settings.k

\* No driver asks a structure for sub-structures that it did not allocate, or
\* for none at all.  The queues' test-switch-middle must not be given a
\* max_width below the width to switch to, nor, with none, a bound that makes
\* the structure narrower than that width while it is at most the one given;
\* and many-switches-over-time no width below 4.
WidthAllocated ==
    (dims # <<>> /\ ~(/\ driver.options.max = "unless_given"
                     /\ \/ settings.b \in 1 .. settings.e - 1
                        \/ settings.b = 0 /\ settings.e \in dims.built + 1 .. settings.w)) =>
        /\ dims.width <= dims.max_width
        /\ dims.width >= 1 \/ (driver.options.max = "four" /\ settings.w < 4)

\* The comparison at the end of main comes out equal: what worker 0 measured is
\* the initial elements plus all counted puts minus all counted removes.  It
\* rests on every barrier of test, on the shares of the fill, and on what the
\* loops count as a success.  Left out are the single counters, which return
\* the old value where the loop expects a success: their mains print that the
\* size is wrong; and the optimized stack when it has been made narrower, whose
\* stack_size does not see the sub-stacks outside its width: its main aborts.
CheckHolds ==
    (/\ At(main, "assert") \/ (At(main, "warn") /\ driver.main.kind = "container")
     /\ ~Narrowed) => SizesAgree

\* Worker 0 measures a structure that no other thread is changing: the fill is
\* over before the loops, and the loops before the second measurement.
MeasuredAtRest ==
    Measuring(0) =>
        \A t \in Workers : ~Looping(t) /\ ~At(t, "fill")

\* No loop starts before the structure holds all its initial elements.
LoopsAfterFill ==
    \A t \in Workers : (Looping(t) /\ Fill[1] \in Ops(t)) =>
        Total([u \in Workers |-> my[u].filled]) = initial

\* Every thread leaves every barrier and main joins them all, or the process
\* exits: no worker takes one more turn at a barrier than the others.
Termination == <>Finished
=============================================================================
