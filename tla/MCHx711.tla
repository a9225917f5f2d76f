------------------------------ MODULE MCHx711 ------------------------------
(* Hx711 with few bits.                                                    *)
EXTENDS Hx711
=============================================================================
