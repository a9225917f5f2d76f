------------------------------ MODULE Compose ------------------------------
(***************************************************************************)
(* The three buffers of telecom.c and how full they are.  A request is put *)
(* together in them, https_set_channel_cb passes them on with their        *)
(* strlens, and the reply to it is copied over them.  Strings are known by *)
(* their lengths; a buffer of n characters holds one of n - 1.             *)
(***************************************************************************)
EXTENDS Integers, FiniteSets

CONSTANTS
    Hosts, Paths, Bodies,  \* the lengths of what requests are made of
    Replies,               \* and of the parts of replies
    Counts, Widths,        \* how many values a report has, each so long with its "_"
    MaxRequests,           \* bound: requests at a time
    None

(* A value has at most eight characters, of a number of 24 bits with its   *)
(* sign, and one that separates it from the next.                          *)
ComposeAssumption ==
    /\ Widths \subseteq 0 .. 9
    /\ Hosts \cup Paths \cup Bodies \cup Replies \cup Counts \subseteq Nat
    /\ MaxRequests \in Nat

URL_SIZE == 256
HEADERS_SIZE == 256
BODY_SIZE == 1024
GETHEADERS == 46
POSTHEADERS == 65

VARIABLES
    url, headers, body,
    content_length,  \* the number in headers
    asked,           \* how long the request_body was
    opening,         \* requests that wait for https_set_channel_cb
    waiting,         \* requests that wait for https_response_cb
    sent,            \* the last request as it was passed on
    replaced         \* a reply was copied over a request that waits to be passed on

buffers == <<url, headers, body, content_length, asked>>
vars == <<buffers, opening, waiting, sent, replaced>>

Init ==
    /\ url = 0 /\ headers = 0 /\ body = 0
    /\ content_length = None
    /\ asked = 0
    /\ opening = 0 /\ waiting = 0
    /\ sent = None
    /\ replaced = FALSE

Least(a, b) == IF a < b THEN a ELSE b

(* "http://", and what has room of the rest.                               *)
compose_url(host, path) ==
    IF host + path > 248
    THEN 7 + Least(host, 248) + (IF host < 248 THEN Least(path, 248 - host) ELSE 0)
    ELSE 7 + host + path

compose_get_headers(host) ==
    IF host < 253 - GETHEADERS THEN GETHEADERS + host + 2 ELSE GETHEADERS

Width(n) == IF n < 10 THEN 1 ELSE IF n < 100 THEN 2 ELSE IF n < 1000 THEN 3 ELSE 4

(* The headers of a GET are overwritten: POSTHEADERS, the number, "\r\n".  *)
compose_post_headers(length) == POSTHEADERS + Width(length) + 2

ResultLimit_none == 200  \* mutant: no limit to speak of

ResultLimit == 80

(* report_timer_callback's body: "mes=", the values, "&time=" with ten     *)
(* digits, "&sig=" with the 27 characters that base64 makes of 20 bytes.   *)
ReportBody(count, width) == 4 + Least(count, ResultLimit - 1) * width + 16 + 32

ReportBodies == {ReportBody(count, width) : count \in Counts, width \in Widths}

compose_post_body(request_body) == Least(request_body, 1021)

Opens == /\ opening + waiting < MaxRequests
         /\ opening' = opening + 1
         /\ replaced' = FALSE
         /\ UNCHANGED <<waiting, sent>>

http_get(host, path) ==
    /\ url' = compose_url(host, path)
    /\ headers' = compose_get_headers(host)
    /\ body' = 0
    /\ content_length' = None
    /\ asked' = 0
    /\ Opens

http_post_headersfirst(host, path, request_body) ==  \* mutant: headers before the body
    /\ url' = compose_url(host, path)
    /\ headers' = compose_post_headers(0)
    /\ body' = compose_post_body(request_body)
    /\ content_length' = 0
    /\ asked' = request_body
    /\ Opens

http_post(host, path, request_body) ==
    /\ url' = compose_url(host, path)
    /\ body' = compose_post_body(request_body)
    /\ headers' = compose_post_headers(body')
    /\ content_length' = body'
    /\ asked' = request_body
    /\ Opens

https_set_channel_cb ==
    /\ opening > 0
    /\ opening' = opening - 1
    /\ waiting' = waiting + 1
    /\ sent' = [body |-> body, content_length |-> content_length, asked |-> asked,
                own |-> ~replaced]
    /\ UNCHANGED <<buffers, replaced>>

(* What fits of a reply; a segment of 1024 fills body to the brim.         *)
https_response_cb(new_url, reply_header, reply_segment) ==
    /\ waiting > 0
    /\ waiting' = waiting - 1
    /\ url' = Least(new_url, 255)
    /\ headers' = Least(reply_header, 255)
    /\ body' = IF reply_segment > 1024 THEN 1023 ELSE reply_segment
    /\ content_length' = None
    /\ asked' = 0
    /\ replaced' = (opening > 0)
    /\ UNCHANGED <<opening, sent>>

(* A failed exchange leaves the buffers alone.                             *)
Fails ==
    /\ waiting > 0
    /\ waiting' = waiting - 1
    /\ UNCHANGED <<buffers, opening, sent, replaced>>

Next ==
    \/ \E host \in Hosts, path \in Paths : http_get(host, path)
    \/ \E host \in Hosts, path \in Paths, request_body \in Bodies \cup ReportBodies :
           http_post(host, path, request_body)
    \/ https_set_channel_cb
    \/ \E new_url, reply_header, reply_segment \in Replies :
           https_response_cb(new_url, reply_header, reply_segment)
    \/ Fails

Spec == Init /\ [][Next]_vars

-----------------------------------------------------------------------------
(* Every string has room for its zero, whatever the lengths of its parts   *)
(* (telecom.c:178-222), but for body after a reply that fills it           *)
(* (telecom.c:80-87): it is not a string then.                             *)
TypeOK ==
    /\ url \in 0 .. URL_SIZE - 1
    /\ headers \in 0 .. HEADERS_SIZE - 1
    /\ body \in 0 .. BODY_SIZE - 1 \/ (body = BODY_SIZE /\ content_length = None)
    /\ {opening, waiting} \subseteq Nat /\ opening + waiting <= MaxRequests

(* The length in a request's headers is the length of what is sent with    *)
(* it, as long as no reply came between the two (telecom.c:34-37, 212,     *)
(* 263-264).                                                               *)
ContentLengthTrue ==
    sent # None /\ sent.own /\ sent.content_length # None => sent.content_length = sent.body

(* A report is sent whole, signature and all, however many values there    *)
(* are and whatever they are: the limit of compose_post_body is never      *)
(* reached (report.c:219, telecom.c:221).                                  *)
ReportsWhole == sent # None /\ sent.own /\ sent.asked \in ReportBodies => sent.body = sent.asked
=============================================================================
