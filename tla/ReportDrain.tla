---------------------------- MODULE ReportDrain ----------------------------
(***************************************************************************)
(* From the fifo to the reports: report_timer_callback reads values until  *)
(* there are none, while the measuring thread goes on writing, and puts    *)
(* them into the body of one report.  The fifo is the BoundedQueue that    *)
(* Afifo implements; a value is known by its number.                       *)
(***************************************************************************)
EXTENDS BoundedQueue

CONSTANTS
    Limit,           \* 80: the values from the Limit-th on are left out
    MaxMeasurements  \* bound: so many values are measured

ASSUME DrainAssumption ==
    /\ Capacity \in Nat
    /\ Limit \in Nat \ {0}
    /\ MaxMeasurements \in Nat
    /\ Elements = 1 .. MaxMeasurements

VARIABLES
    measured,      \* how many values were written
    report_http,
    draining,      \* the main thread is in the loop
    result_count,
    http_body,     \* the values in it, until the next report begins
    reported,      \* the values of all reports so far
    recent,        \* how many values were written since the last report
    lossy          \* history: an interval had too many, or reports were off

vars == <<qvars, measured, report_http, draining, result_count, http_body, reported, recent, lossy>>

DrainInit ==
    /\ Init
    /\ measured = 0
    /\ report_http \in BOOLEAN
    /\ draining = FALSE
    /\ result_count = 0
    /\ http_body = <<>>
    /\ reported = <<>>
    /\ recent = 0
    /\ lossy = FALSE

(* The values of an interval find room in the ring, and in the body.       *)
TooMany(n) == n > Capacity \/ n >= Limit

afifo_write ==
    /\ measured < MaxMeasurements
    /\ Put(measured + 1)
    /\ measured' = measured + 1
    /\ recent' = recent + 1
    /\ lossy' = (lossy \/ TooMany(recent + 1))
    /\ UNCHANGED <<report_http, draining, result_count, http_body, reported>>

Fires_keeps ==  \* mutant: the count is that of the last report
    /\ ~draining
    /\ draining' = TRUE
    /\ http_body' = <<>>
    /\ lossy' = (lossy \/ ~report_http)
    /\ UNCHANGED <<qvars, measured, report_http, result_count, reported, recent>>

Fires_appends ==  \* mutant: the body is not begun anew
    /\ ~draining
    /\ draining' = TRUE
    /\ result_count' = 0
    /\ lossy' = (lossy \/ ~report_http)
    /\ UNCHANGED <<qvars, measured, report_http, http_body, reported, recent>>

Fires ==
    /\ ~draining
    /\ draining' = TRUE
    /\ result_count' = 0
    /\ http_body' = <<>>
    /\ lossy' = (lossy \/ ~report_http)
    /\ UNCHANGED <<qvars, measured, report_http, reported, recent>>

ReadsValue ==
    /\ draining
    /\ Get
    /\ result_count' = result_count + 1
    /\ http_body' = IF report_http /\ result_count' < Limit
                    THEN Append(http_body, out') ELSE http_body
    /\ UNCHANGED <<measured, report_http, draining, reported, recent, lossy>>

(* afifo_read returned FALSE: the report is made, if there is to be one.   *)
Reports ==
    /\ draining
    /\ GetNothing
    /\ draining' = FALSE
    /\ reported' = IF report_http THEN reported \o http_body ELSE reported
    /\ recent' = 0
    /\ UNCHANGED <<measured, report_http, result_count, http_body, lossy>>

(* From the console, between two calls.                                    *)
set_http_report ==
    /\ ~draining
    /\ report_http' = ~report_http
    /\ UNCHANGED <<qvars, measured, draining, result_count, http_body, reported, recent, lossy>>

DrainNext == afifo_write \/ Fires \/ ReadsValue \/ Reports \/ set_http_report

DrainSpec == DrainInit /\ [][DrainNext]_vars

-----------------------------------------------------------------------------
(* The values that are not lost yet: reported, read, waiting.              *)
Journey == reported \o (IF draining THEN http_body ELSE <<>>) \o queue

(* A value is reported once at most, and never after a later one, however  *)
(* the writes fall between the reads of the loop (report.c:211-223).       *)
InOrder == \A i, j \in 1 .. Len(Journey) : i < j => Journey[i] < Journey[j]

(* As long as no interval between two reports brings more values than the  *)
(* ring can hold, nor more than a body takes, each value is reported: none *)
(* is overtaken, none left out, none forgotten (report.c:111-114, 219).    *)
NothingLost == lossy \/ Journey = [i \in 1 .. measured |-> i]
=============================================================================
