------------------------------- MODULE Outbox -------------------------------
(***************************************************************************)
(* What the device promises for its reports: a report that was put aside   *)
(* is there, under its own name, until it was heard of; only then may it   *)
(* go, and from then on it is never heard of again.  A report that could   *)
(* not be put aside, or shares its name, is adrift: nothing is promised.   *)
(***************************************************************************)
EXTENDS Naturals

CONSTANT Reports

VARIABLES
    place,  \* "new", "kept", "adrift" or "gone"
    heard   \* how often the other end answered each report

obvars == <<place, heard>>

Init ==
    /\ place = [r \in Reports |-> "new"]
    /\ heard = [r \in Reports |-> 0]

(* A new report; it may push out one or the other that was kept.           *)
Make(r, pushed) ==
    /\ place[r] = "new"
    /\ \A q \in pushed : place[q] = "kept"
    /\ \E p \in {"kept", "adrift"} :
         place' = [q \in Reports |-> IF q = r THEN p
                                     ELSE IF q \in pushed THEN "adrift"
                                     ELSE place[q]]
    /\ UNCHANGED heard

Hear(r) ==
    /\ place[r] \in {"kept", "adrift"}
    /\ heard' = [heard EXCEPT ![r] = @ + 1]
    /\ UNCHANGED place

Discard(r) ==
    /\ place[r] = "kept"
    /\ heard[r] > 0
    /\ place' = [place EXCEPT ![r] = "gone"]
    /\ UNCHANGED heard

Next ==
    \E r \in Reports :
        \/ \E pushed \in SUBSET Reports : Make(r, pushed)
        \/ Hear(r)
        \/ Discard(r)

Spec == Init /\ [][Next]_obvars
=============================================================================
