----------------------------- MODULE MCCanLink ------------------------------
(* Instances of CanLink for TLC: two nodes, two ids, and the sizes of the    *)
(* test messages' CAN FD headers.                                            *)
EXTENDS CanLink

CONSTANTS n1, n2, i1, i2
=============================================================================
