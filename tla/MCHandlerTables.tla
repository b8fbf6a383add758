-------------------------- MODULE MCHandlerTables ---------------------------
(* Instances of HandlerTables for TLC. *)
EXTENDS HandlerTables

MCTarget == {<<0, 5>>, <<1, 5>>}
MCRange  == {[start |-> 0, end |-> 2], [start |-> 2, end |-> 4], [start |-> 5, end |-> 6]}
=============================================================================
