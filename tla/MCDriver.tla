------------------------------ MODULE MCDriver ------------------------------
(***************************************************************************)
(* All benchmark drivers for TLC, with the command lines that make a       *)
(* difference to each.                                                     *)
(***************************************************************************)
EXTENDS Driver

Call(d, given) == [driver |-> d, given |-> given]

\* A size of 3, not a power of 2, that the two workers cannot share evenly.
Plain == [i |-> 3]

\* The bound and the mode, with a width that the bound has no room for.
Modes == {[i |-> 0, p |-> 0, k |-> k, m |-> m, w |-> 3, l |-> 2] : k \in {0, 1, 5}, m \in {1, 2, 3}}
Moded ==
    { Driver(test_D2d_queue_over_time, options_D2d_queue_over_time, main_D2d_queue_over_time),
      Driver(test_D2c_stack, options_D2c_stack, main_D2c_stack),
      Driver(test_D2d_queue_elastic_law, options_D2d_queue_elastic_law, main_D2d_queue_elastic_law) }

\* To a deeper structure, a wider and a narrower one, with room of their own.
Switches ==
    {[i |-> 0, p |-> 0, w |-> 2, c |-> c, e |-> e, b |-> b] : c \in {0, 2}, e \in {0, 1, 4}, b \in {0, 3}}
\* The same switch where the bound first makes the structure narrower.
Bounded == [i |-> 0, p |-> 0, w |-> 3, e |-> 3, k |-> 1, m |-> 1]
Switching == {d \in AllDrivers : "e" \in DOMAIN d.options.rules}

Calls ==
    {Call(d, Plain) : d \in AllDrivers}
    \cup {Call(d, given) : d \in Moded, given \in Modes}
    \cup {Call(d, given) : d \in Switching, given \in Switches \cup {Bounded}}
    \cup {Call(d, [i |-> 0, w |-> 4, p |-> 0]) : d \in {e \in AllDrivers : e.options.max = "four"}}
    \cup {Call(d, [m |-> 1]) : d \in {e \in AllDrivers : "m" \notin DOMAIN e.options.rules}}
=============================================================================
