----------------------------- MODULE MCDelivery -----------------------------
(* Delivery on a few reports, with some faults allowed.                    *)
EXTENDS Delivery

MCPost == Reports \cup {Torn}
MCCallback == {"http_done_callback", "http_done_callback_delayed", "console"}

Allow(kinds) == [k \in FaultKind |-> IF k \in kinds THEN 1 ELSE 0]

MCAllFaults == Allow(FaultKind)
MCTermination == Allow({"terminated"})
MCTransient == Allow({"failed", "undeleted", "power", "rejected", "torn", "unopened"})
MCLossy == Allow({"failed", "rejected"})
=============================================================================
