------------------------------ MODULE DriverMC ------------------------------
(* The messages of the run of Driver: short ones, as it is the connection  *)
(* that cuts them, and two that are not tame together.                     *)
EXTENDS Driver

(* F!Byte, written out: the value of a constant of F is not made from F.   *)
Byte == [kind |-> "byte", n |-> 0, len |-> 0]

Short == {[kind |-> "line", payload |-> << >>], [kind |-> "recv", payload |-> <<Byte>>],
          [kind |-> "multi", payload |-> << >>]}
=============================================================================
