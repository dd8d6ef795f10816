----------------------------- MODULE MCDynamic ------------------------------
(* Small instances of the DYNAMIC array for TLC. *)
EXTENDS DynamicContract

CONSTANTS a1, a2, v1, v2

MCAddr == {a1, a2}
MCValues == {v1, v2}
MCElementSizes == {0, 2, 3}

\* 14 elements of 3 bytes wrap modulo 40.
MCCapacities == {0, 1, 3, 14}
=============================================================================
