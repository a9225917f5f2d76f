------------------------------- MODULE Server -------------------------------
(***************************************************************************)
(* The POST half of web/index.php: a report whose signature fits its       *)
(* values and time is taken apart and its values are inserted one by one.  *)
(* The device posts a report again until it gets an answer, and a report   *)
(* that was cut short on its disk as well: its signature is missing, or    *)
(* does not fit.  What fits has numbers only.                              *)
(***************************************************************************)
EXTENDS Integers, Sequences, FiniteSets

CONSTANTS
    Times,
    Values,     \* of the reports, 0 among them
    MaxValues,  \* bound: values in a report
    MaxPosts,   \* bound: requests
    MaxFailed   \* bound: inserts that fail

ASSUME ServerAssumption ==
    /\ Values \subseteq Int
    /\ {MaxValues, MaxPosts, MaxFailed} \subseteq Nat

Mes == UNION {[1 .. n -> Values] : n \in 0 .. MaxValues}
Sub == 0 .. MaxValues - 1
Row == [time : Times, sub : Sub, val : Values]
Answer == {"ok", "fail"}

VARIABLES
    measurements,  \* the table: its rows as they were inserted
    log,           \* history: each request with its answer
    failed         \* history: the rows whose insert failed, by request

vars == <<measurements, log, failed>>

Init ==
    /\ measurements = <<>>
    /\ log = <<>>
    /\ failed = {}

(* The elements of s that are wanted, in their order.                      *)
Selected(s, wanted) ==
    LET upTo[n \in 0 .. Len(s)] ==
            IF n = 0 THEN <<>>
            ELSE IF s[n] \in wanted THEN Append(upTo[n - 1], s[n]) ELSE upTo[n - 1]
    IN  upTo[Len(s)]

datapoints_reindexed(mes) ==  \* mutant: array_values after array_filter
    LET kept == Selected(mes, Values \ {0})
    IN  [sub \in 0 .. Len(kept) - 1 |-> kept[sub + 1]]

(* explode, array_filter and the casts: the values by their position, but  *)
(* for the zeroes, which array_filter takes for empty.                     *)
datapoints(mes) == [sub \in {i \in 0 .. Len(mes) - 1 : mes[i + 1] # 0} |-> mes[sub + 1]]

(* The rows of a report in the order of foreach, without the failing ones. *)
RowsOf(points, time, failing) ==
    LET row(sub) == [time |-> time, sub |-> sub, val |-> points[sub]]
        inserted == Selected([n \in 1 .. MaxValues |-> n - 1], DOMAIN points \ failing)
    IN  [n \in 1 .. Len(inserted) |-> row(inserted[n])]

save_measurements(points, time, connected, failing) ==
    IF connected
    THEN /\ measurements' = measurements \o RowsOf(points, time, failing)
         /\ failed' = failed \cup {<<Len(log) + 1, sub>> : sub \in failing}
    ELSE UNCHANGED <<measurements, failed>>

(* datapoints with its time is never an empty array, so that a report      *)
(* without values is saved like any other.                                 *)
Post(time, mes, signed, connected, failing) ==
    /\ \/ /\ signed
          /\ save_measurements(datapoints(mes), time, connected, failing)
       \/ /\ ~signed
          /\ UNCHANGED <<measurements, failed>>
    /\ log' = Append(log, [time |-> time, mes |-> mes, signed |-> signed,
                           answer |-> IF signed /\ connected THEN "ok" ELSE "fail"])

Next ==
    /\ Len(log) < MaxPosts
    /\ \E time \in Times, mes \in Mes, signed, connected \in BOOLEAN :
         \E failing \in SUBSET DOMAIN datapoints(mes) :
            /\ failing # {} => signed /\ connected
            /\ Cardinality(failed) + Cardinality(failing) <= MaxFailed
            /\ Post(time, mes, signed, connected, failing)

-----------------------------------------------------------------------------
(* Request n brings row, at its place in the report.                       *)
Brings(n, row) ==
    /\ log[n].time = row.time
    /\ row.sub < Len(log[n].mes)
    /\ log[n].mes[row.sub + 1] = row.val

(* Each row is a value of a signed report, at its very place, and is there *)
(* at most as often as such reports were posted: zeroes left out of a      *)
(* report do not move the values after them (index.php:43, 89-92).         *)
RowsAsSent ==
    \A row \in Row :
        Cardinality({n \in DOMAIN measurements : measurements[n] = row})
          <= Cardinality({n \in DOMAIN log : log[n].signed /\ Brings(n, row)})
=============================================================================
