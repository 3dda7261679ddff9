-------------------------- MODULE MCModelRuntime --------------------------
(***************************************************************************)
(* A small GPU: three slots, graphs for two shapes, prefill tiles of two   *)
(* rows.                                                                   *)
(***************************************************************************)
EXTENDS ModelRuntime

Want(start, n, blocks, sample) ==
    [start |-> start, n |-> n, blocks |-> blocks, sample |-> sample]

(* A decode, the first chunk of a prompt, and a whole prompt of two tiles. *)
MCRequests ==
    {Want(2, 1, <<1, 2>>, TRUE), Want(0, 2, <<3>>, FALSE), Want(0, 4, <<4, 5>>, TRUE)}
===========================================================================
