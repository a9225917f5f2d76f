------------------------------ MODULE MCGraph ------------------------------
(* Server and Graph: up to two posts, then the page.                       *)
EXTENDS Graph

MCValues == {-3, 0, 1, 4}

MCParameters == [b : {None, 1}, e : {None, 1}, f : BOOLEAN, z : {1}, s : {1, 2}]
=============================================================================
