------------------------------ MODULE MCAfifo ------------------------------
(* Afifo on small rings and bins, against both of its abstractions.        *)
EXTENDS Afifo

MCValues == {-1, 1, 2}
=============================================================================
