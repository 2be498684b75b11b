------------------------------ MODULE MCInputs ------------------------------
(* Inputs on small instances.                                                *)
EXTENDS StartInputs

MCLongest == [json |-> 6, string |-> 6, number |-> 6, id |-> 5, method |-> 4, blocks |-> 3,
              codex |-> 5, claude |-> 4, start |-> 4, spawn |-> 6, config |-> 4, models |-> 3]
=============================================================================
