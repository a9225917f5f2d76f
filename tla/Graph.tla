------------------------------- MODULE Graph -------------------------------
(***************************************************************************)
(* The GET half of web/index.php: the rows of a span of time become the    *)
(* points of a line chart.  The loop looks at three rows at a time: the    *)
(* middle one becomes a point, its neighbours decide on the label and on   *)
(* the filter that cuts off spikes.                                        *)
(***************************************************************************)
EXTENDS Server, SequencesExt

CONSTANTS
    Span,            \* 86400: what is shown if the request does not say
    Limit,           \* 20000: the most rows of a query
    Parameters,      \* what a request may ask for: b, e, f, z, s
    None             \* a parameter that is missing or not a number

ASSUME GraphAssumption ==
    /\ {Span, Limit} \subseteq Nat
    /\ \A p \in Parameters : /\ {p.b, p.e} \subseteq Nat \cup {None}
                             /\ p.f \in BOOLEAN /\ p.z \in Nat /\ p.s \in Nat \ {0}

VARIABLES
    get,      \* the parameters of the request
    page,     \* how far it is
    rows,     \* the rows the query found
    dataset   \* the points so far

pagevars == <<get, page, rows, dataset>>

GraphInit ==
    /\ Init
    /\ get = None
    /\ page = "none"
    /\ rows = <<>>
    /\ dataset = <<>>

(* (integer) of a quotient, which cuts off towards zero.                   *)
Truncated(a, b) == IF a >= 0 THEN a \div b ELSE -((-a) \div b)

calibrate(p, val) == Truncated(val - p.z * p.s, p.s)

Newest == IF measurements = <<>> THEN 0
          ELSE Max({measurements[n].time : n \in DOMAIN measurements})
begin(p) == IF p.b # None THEN p.b ELSE Newest
end(p) == IF p.e # None THEN p.e ELSE IF begin(p) > Span THEN begin(p) - Span ELSE 0

Asked(p) == Selected(measurements, [time : end(p) .. begin(p), sub : Sub, val : Values])
Found(p) == SubSeq(Asked(p), 1, Min({Len(Asked(p)), Limit}))

(* The points before the loop, or 404 if there is nothing to show, or no   *)
(* database to ask.                                                        *)
Query(p) ==
    /\ page = "none"
    /\ get' = p
    /\ rows' \in {Found(p), <<>>}
    /\ \/ /\ rows' = <<>>
          /\ page' = "404"
          /\ UNCHANGED dataset
       \/ /\ rows' # <<>>
          /\ page' = "loop"
          /\ dataset' = <<[label |-> None, val |-> calibrate(p, rows'[1].val)]>>
    /\ UNCHANGED vars

LabelNext(row, after) == \* mutant: the new row's time
    IF after.sub = 0 THEN after.time ELSE None

(* The time of the row after which a new report begins.                    *)
Label(row, after) == IF after.sub = 0 THEN row.time ELSE None

FilteredRunning(before, row, after) ==  \* mutant: rising is enough
    IF get.f /\ before.val < row.val
    THEN Truncated(before.val + after.val + 1, 2) ELSE row.val

Filtered(before, row, after) ==
    IF get.f /\ before.val < row.val /\ row.val > after.val
    THEN Truncated(before.val + after.val + 1, 2) ELSE row.val

AddPoint ==
    /\ page = "loop"
    /\ LET n == Len(dataset) + 1  \* the row that becomes a point
       IN  /\ n < Len(rows)
           /\ dataset' = Append(dataset,
                [label |-> Label(rows[n], rows[n + 1]),
                 val |-> calibrate(get, Filtered(rows[n - 1], rows[n], rows[n + 1]))])
    /\ UNCHANGED <<vars, get, page, rows>>

Render_early ==  \* mutant: the last row gets no point
    /\ page = "loop"
    /\ Len(dataset) + 1 >= Len(rows)
    /\ page' = "chart"
    /\ UNCHANGED <<vars, get, rows, dataset>>

(* The last row, unless it is the first.                                   *)
Render ==
    /\ page = "loop"
    /\ Len(dataset) + 1 >= Len(rows)
    /\ page' = "chart"
    /\ dataset' = IF Len(rows) > 1
                  THEN Append(dataset, [label |-> None, val |-> calibrate(get, Last(rows).val)])
                  ELSE dataset
    /\ UNCHANGED <<vars, get, rows>>

(* Reports are posted until the page is asked for.                         *)
GraphNext ==
    \/ page = "none" /\ Next /\ UNCHANGED pagevars
    \/ \E p \in Parameters : Query(p)
    \/ AddPoint
    \/ Render

GraphSpec == GraphInit /\ [][GraphNext]_<<vars, pagevars>>

-----------------------------------------------------------------------------
Chart == page = "chart"

(* From the device to the picture: each value of a report that was         *)
(* answered ok has its point in the chart of its time, one for each such   *)
(* report, but for zeroes, for inserts that failed, and for what is beyond *)
(* the limit of a query (index.php:43, 92, 184, 202-247).                  *)
OkMeansShown ==
    Chart /\ ~get.f /\ Len(Asked(get)) <= Limit =>
        \A val \in Values \ {0} :
            LET answered == {c \in (DOMAIN log) \X Sub :
                                /\ log[c[1]].answer = "ok"
                                /\ log[c[1]].time \in end(get) .. begin(get)
                                /\ c[2] < Len(log[c[1]].mes)
                                /\ log[c[1]].mes[c[2] + 1] = val}
                shown == {n \in DOMAIN dataset : dataset[n].val = calibrate(get, val)}
            IN  Cardinality(answered \ failed) <= Cardinality(shown)

(* A label stands at the last value of a report and names its time, given  *)
(* that no report lost its first value for being zero, and none was posted *)
(* twice: sub is 0 where the time changes, and nowhere else, then          *)
(* (index.php:223-230).  The two ends have none.                           *)
LabelsEndReports ==
    Chart /\ (\A n \in 2 .. Len(rows) : rows[n].time # rows[n - 1].time <=> rows[n].sub = 0) =>
        \A n \in 2 .. Len(rows) - 1 :
            dataset[n].label = IF rows[n + 1].time # rows[n].time THEN rows[n].time ELSE None

(* The filter lowers peaks and nothing else, and does not make a dent of   *)
(* them: the point is not below both of its neighbours (index.php:232-234).*)
OnlyPeaksLowered ==
    Chart => \A n \in DOMAIN rows :
        LET here == calibrate(get, rows[n].val) IN
        \/ dataset[n].val = here
        \/ /\ get.f /\ n - 1 \in DOMAIN rows /\ n + 1 \in DOMAIN rows
           /\ rows[n - 1].val < rows[n].val /\ rows[n].val > rows[n + 1].val
           /\ dataset[n].val <= here
           /\ \E m \in {n - 1, n + 1} : calibrate(get, rows[m].val) <= dataset[n].val
=============================================================================
