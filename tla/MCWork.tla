-------------------------------- MODULE MCWork --------------------------------
(* Instances of Work for TLC.                                              *)
EXTENDS Work, TLC

(* Eight processors and 16 GiB, idle and on mains power.                   *)
Idle ==
    [profile |-> InitialProfile(8, 16384 * MiB), pressure |-> 0, battery |-> FALSE,
     memory |-> 16384 * MiB]

(* The same machine when it is short of memory.                            *)
Pressed == [Idle EXCEPT !.pressure = SevereContention]

Both == {Idle, Pressed}

Symmetry == Permutations(Jobs) \cup Permutations(Pinned)
=============================================================================
