----------------------------- MODULE MCMeasure -----------------------------
(* Sessions of main.c and of the console, with their threads.              *)
EXTENDS Measure
=============================================================================
