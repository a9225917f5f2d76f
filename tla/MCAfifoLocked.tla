--------------------------- MODULE MCAfifoLocked ---------------------------
(* AfifoLocked with two values: one is greater than the other.             *)
EXTENDS AfifoLocked

MCValues == {1, 2}
=============================================================================
