-------------------------- MODULE MainThreadProofs --------------------------
(***************************************************************************)
(* Each of the four callbacks is what it is alone, as long as it takes its *)
(* own steps or none: what it promises holds in the main thread, where it  *)
(* is one of four.                                                         *)
(***************************************************************************)
EXTENDS MainThread, SequenceTheorems, WellFoundedInduction, TLAPS

-----------------------------------------------------------------------------
(* Requests.  What lies in the buffers belongs together as long as nothing *)
(* replaced it in part.                                                    *)
Composed ==
    ~replaced => /\ content_length # None => content_length = body
                 /\ asked \in Request!ReportBodies => body = asked

CInv ==
    /\ Request!TypeOK /\ Composed
    /\ Request!ContentLengthTrue /\ Request!ReportsWhole

-----------------------------------------------------------------------------
(* The longest report is far from the end of body.                         *)
LEMMA ReportLengths == Request!ReportBodies \subseteq 52 .. 763
<1> SUFFICES ASSUME NEW count \in Counts, NEW width \in Widths
             PROVE  Request!ReportBody(count, width) \in 52 .. 763
  BY DEF Request!ReportBodies
<1>1. count \in Nat /\ width \in 0 .. 9
  BY MainThreadAssumption DEF Request!ComposeAssumption
<1>2. Request!Least(count, 79) \in 0 .. 79
  BY <1>1 DEF Request!Least
<1>3. Request!Least(count, 79) * width \in 0 .. 711
  <2> DEFINE n == Request!Least(count, 79)
  <2>1. n \in 0 .. 79 /\ width \in 0 .. 9
    BY <1>1, <1>2
  <2> HIDE DEF n
  <2>2. n * width \in 0 .. 711
    <3>1. CASE width = 0  BY <2>1, <3>1
    <3>2. CASE width = 1  BY <2>1, <3>2
    <3>3. CASE width = 2  BY <2>1, <3>3
    <3>4. CASE width = 3  BY <2>1, <3>4
    <3>5. CASE width = 4  BY <2>1, <3>5
    <3>6. CASE width = 5  BY <2>1, <3>6
    <3>7. CASE width = 6  BY <2>1, <3>7
    <3>8. CASE width = 7  BY <2>1, <3>8
    <3>9. CASE width = 8  BY <2>1, <3>9
    <3>10. CASE width = 9  BY <2>1, <3>10
    <3>11. \/ width = 0 \/ width = 1 \/ width = 2 \/ width = 3 \/ width = 4
           \/ width = 5 \/ width = 6 \/ width = 7 \/ width = 8 \/ width = 9
      BY <2>1
    <3> QED BY <3>1, <3>2, <3>3, <3>4, <3>5, <3>6, <3>7, <3>8, <3>9, <3>10, <3>11, Zenon
  <2> QED BY <2>2, Zenon DEF n
<1>4. Request!ReportBody(count, width) = 4 + Request!Least(count, 79) * width + 16 + 32
  BY DEF Request!ReportBody, Request!ResultLimit
<1> QED BY <1>3, <1>4

LEMMA UrlFits ==
    ASSUME NEW host \in Nat, NEW path \in Nat
    PROVE  Request!compose_url(host, path) \in 0 .. 255
BY DEF Request!compose_url, Request!Least

LEMMA GetHeadersFit ==
    ASSUME NEW host \in Nat
    PROVE  Request!compose_get_headers(host) \in 0 .. 255
BY DEF Request!compose_get_headers, Request!GETHEADERS

LEMMA BodyFits ==
    ASSUME NEW request_body \in Nat
    PROVE  /\ Request!compose_post_body(request_body) \in 0 .. 1021
           /\ request_body <= 1021 => Request!compose_post_body(request_body) = request_body
BY DEF Request!compose_post_body, Request!Least

-----------------------------------------------------------------------------
LEMMA InitCInv == Request!Init => CInv
<1> SUFFICES ASSUME Request!Init PROVE CInv
  OBVIOUS
<1>1. Request!TypeOK
  BY MainThreadAssumption DEF Request!ComposeAssumption, Request!Init, Request!TypeOK,
       Request!URL_SIZE, Request!HEADERS_SIZE, Request!BODY_SIZE
<1>2. Composed /\ Request!ContentLengthTrue /\ Request!ReportsWhole
  BY ReportLengths DEF Request!Init, Composed, Request!ContentLengthTrue,
       Request!ReportsWhole
<1> QED BY <1>1, <1>2 DEF CInv

LEMMA OpensKeeps ==
    ASSUME CInv, Request!Opens
    PROVE  /\ {opening', waiting'} \subseteq Nat /\ opening' + waiting' <= MaxRequests
           /\ Request!ContentLengthTrue' /\ Request!ReportsWhole'
BY MainThreadAssumption DEF Request!ComposeAssumption, CInv, Request!TypeOK, Request!Opens,
     Request!ContentLengthTrue, Request!ReportsWhole

LEMMA GetKeeps ==
    ASSUME CInv, NEW host \in Hosts, NEW path \in Paths, Request!http_get(host, path)
    PROVE  CInv'
<1>1. host \in Nat /\ path \in Nat /\ 0 \in Nat
  BY MainThreadAssumption DEF Request!ComposeAssumption
<1>2. /\ Request!Opens /\ url' = Request!compose_url(host, path)
      /\ headers' = Request!compose_get_headers(host)
  BY DEF Request!http_get
<1>3. body' = 0 /\ content_length' = None /\ asked' = 0
  BY DEF Request!http_get
<1>4. url' \in 0 .. 255 /\ headers' \in 0 .. 255
  BY <1>1, <1>2, UrlFits, GetHeadersFit
<1>5. /\ {opening', waiting'} \subseteq Nat /\ opening' + waiting' <= MaxRequests
      /\ Request!ContentLengthTrue' /\ Request!ReportsWhole'
  BY <1>2, OpensKeeps
<1>6. Request!TypeOK'
  BY <1>3, <1>4, <1>5 DEF Request!TypeOK, Request!URL_SIZE, Request!HEADERS_SIZE,
       Request!BODY_SIZE
<1>7. Composed'
  BY <1>3 DEF Composed
<1> QED BY <1>5, <1>6, <1>7 DEF CInv

LEMMA PostKeeps ==
    ASSUME CInv, NEW host \in Hosts, NEW path \in Paths,
           NEW request_body \in Bodies \cup Request!ReportBodies,
           Request!http_post(host, path, request_body)
    PROVE  CInv'
<1>1. host \in Nat /\ path \in Nat /\ request_body \in Nat
  <2>1. host \in Nat /\ path \in Nat
    BY MainThreadAssumption DEF Request!ComposeAssumption
  <2>2. request_body \in Bodies => request_body \in Nat
    BY MainThreadAssumption DEF Request!ComposeAssumption
  <2>3. request_body \in Request!ReportBodies => request_body \in Nat
    BY ReportLengths
  <2> QED BY <2>1, <2>2, <2>3
<1>2. /\ Request!Opens /\ url' = Request!compose_url(host, path)
      /\ body' = Request!compose_post_body(request_body)
  BY DEF Request!http_post
<1>3. /\ headers' = Request!compose_post_headers(body')
      /\ content_length' = body' /\ asked' = request_body
  BY DEF Request!http_post
<1>4. url' \in 0 .. 255 /\ body' \in 0 .. 1021
  <2>0. Request!compose_url(host, path) \in 0 .. 255
    BY <1>1, UrlFits
  <2>1. url' \in 0 .. 255
    BY <1>2, <2>0
  <2>2. Request!compose_post_body(request_body) \in 0 .. 1021
    <3>1. request_body \in Nat
      BY <1>1
    <3> QED BY <3>1 DEF Request!compose_post_body, Request!Least
  <2>3. body' \in 0 .. 1021
    BY <1>2, <2>2
  <2> QED BY <2>1, <2>3
<1>5. headers' \in 0 .. 255
  <2>1. body' \in Nat
    BY <1>4
  <2>2. Request!compose_post_headers(body') \in 0 .. 255
    BY <2>1 DEF Request!compose_post_headers, Request!POSTHEADERS, Request!Width
  <2> QED BY <1>3, <2>2
<1>6. /\ {opening', waiting'} \subseteq Nat /\ opening' + waiting' <= MaxRequests
      /\ Request!ContentLengthTrue' /\ Request!ReportsWhole'
  BY <1>2, OpensKeeps
<1>7. Request!TypeOK'
  BY <1>4, <1>5, <1>6 DEF Request!TypeOK, Request!URL_SIZE, Request!HEADERS_SIZE,
       Request!BODY_SIZE
<1>8. request_body \in Request!ReportBodies => body' = request_body
  BY <1>1, <1>2, ReportLengths, BodyFits
<1>9. Composed'
  BY <1>3, <1>8 DEF Composed
<1> QED BY <1>6, <1>7, <1>9 DEF CInv

LEMMA SetChannelKeeps ==
    ASSUME CInv, Request!https_set_channel_cb
    PROVE  CInv'
<1>1. UNCHANGED <<url, headers, body, content_length, asked, replaced>>
  BY DEF Request!https_set_channel_cb, Request!buffers
<1>2. {opening', waiting'} \subseteq Nat /\ opening' + waiting' <= MaxRequests
  BY DEF Request!https_set_channel_cb, CInv, Request!TypeOK
<1>3. Request!TypeOK'
  BY <1>1, <1>2 DEF CInv, Request!TypeOK
<1>4. Composed'
  BY <1>1 DEF CInv, Composed
<1>5. /\ sent'.body = body /\ sent'.content_length = content_length
      /\ sent'.asked = asked /\ sent'.own = ~replaced
  BY DEF Request!https_set_channel_cb
<1>6. Request!ContentLengthTrue'
  BY <1>5 DEF CInv, Composed, Request!ContentLengthTrue
<1>7. Request!ReportsWhole'
  BY <1>5 DEF CInv, Composed, Request!ReportsWhole
<1> QED BY <1>3, <1>4, <1>6, <1>7 DEF CInv

LEMMA ResponseKeeps ==
    ASSUME CInv, NEW new_url \in Replies, NEW reply_header \in Replies,
           NEW reply_segment \in Replies,
           Request!https_response_cb(new_url, reply_header, reply_segment)
    PROVE  CInv'
<1>1. new_url \in Nat /\ reply_header \in Nat /\ reply_segment \in Nat
  BY MainThreadAssumption DEF Request!ComposeAssumption
<1>2. UNCHANGED <<opening, sent>> /\ waiting > 0 /\ waiting' = waiting - 1
  BY DEF Request!https_response_cb
<1>3. content_length' = None /\ asked' = 0
  BY DEF Request!https_response_cb
<1>4. url' \in 0 .. 255 /\ headers' \in 0 .. 255 /\ body' \in 0 .. 1024
  BY <1>1 DEF Request!https_response_cb, Request!Least
<1>5. {opening', waiting'} \subseteq Nat /\ opening' + waiting' <= MaxRequests
  BY MainThreadAssumption, <1>2 DEF Request!ComposeAssumption, CInv, Request!TypeOK
<1>6. Request!TypeOK'
  BY <1>3, <1>4, <1>5 DEF Request!TypeOK, Request!URL_SIZE, Request!HEADERS_SIZE,
       Request!BODY_SIZE
<1>7. 0 \notin Request!ReportBodies
  BY ReportLengths
<1>8. Composed'
  BY <1>3, <1>7 DEF Composed
<1>9. Request!ContentLengthTrue' /\ Request!ReportsWhole'
  BY <1>2 DEF CInv, Request!ContentLengthTrue, Request!ReportsWhole
<1> QED BY <1>6, <1>8, <1>9 DEF CInv

LEMMA NextCInv == CInv /\ [Request!Next]_(Request!vars) => CInv'
<1> SUFFICES ASSUME CInv, [Request!Next]_(Request!vars) PROVE CInv'
  OBVIOUS
<1>1. CASE \E host \in Hosts, path \in Paths : Request!http_get(host, path)
  BY <1>1, GetKeeps
<1>2. CASE \E host \in Hosts, path \in Paths, request_body \in Bodies \cup Request!ReportBodies :
               Request!http_post(host, path, request_body)
  BY <1>2, PostKeeps
<1>3. CASE Request!https_set_channel_cb
  BY <1>3, SetChannelKeeps
<1>4. CASE \E new_url, reply_header, reply_segment \in Replies :
               Request!https_response_cb(new_url, reply_header, reply_segment)
  BY <1>4, ResponseKeeps
<1>5. CASE Request!Fails
  <2>1. UNCHANGED <<url, headers, body, content_length, asked, opening, sent, replaced>>
    BY <1>5 DEF Request!Fails, Request!buffers
  <2>2. {opening', waiting'} \subseteq Nat /\ opening' + waiting' <= MaxRequests
    BY MainThreadAssumption, <1>5 DEF Request!Fails, Request!ComposeAssumption, CInv,
         Request!TypeOK
  <2>3. Request!TypeOK' /\ Composed'
    BY <2>1, <2>2 DEF CInv, Request!TypeOK, Composed
  <2>4. Request!ContentLengthTrue' /\ Request!ReportsWhole'
    BY <2>1 DEF CInv, Request!ContentLengthTrue, Request!ReportsWhole
  <2> QED BY <2>3, <2>4 DEF CInv
<1>6. CASE UNCHANGED Request!vars
  <2>1. UNCHANGED <<url, headers, body, content_length, asked, opening, waiting, sent, replaced>>
    BY <1>6 DEF Request!vars, Request!buffers
  <2> QED BY <2>1 DEF CInv, Request!TypeOK, Composed, Request!ContentLengthTrue,
       Request!ReportsWhole
<1> QED BY <1>1, <1>2, <1>3, <1>4, <1>5, <1>6 DEF Request!Next

LEMMA RequestInvariance == MainSpec => []CInv
<1>1. MainInit => CInv
  BY InitCInv DEF MainInit
<1>2. [MainNext]_allvars => [Request!Next]_(Request!vars)
  BY DEF MainNext, allvars, request, Request!vars, Request!buffers
<1>3. CInv /\ [MainNext]_allvars => CInv'
  BY <1>2, NextCInv
<1> QED BY <1>1, <1>3, PTL DEF MainSpec

(* The length in the headers of a request is that of the body passed on    *)
(* with it (telecom.c:34-37, 212, 263-264).                                *)
THEOREM LengthsAgreeInMain == MainSpec => []ContentLengthTrue
<1>1. CInv => ContentLengthTrue
  BY DEF CInv, ContentLengthTrue
<1> QED BY <1>1, RequestInvariance, PTL

(* A report of any number of values is passed on whole (report.c:219,      *)
(* telecom.c:221).                                                         *)
THEOREM ReportsFitInMain == MainSpec => []ReportsWhole
<1>1. CInv => ReportsWhole
  BY DEF CInv, ReportsWhole
<1> QED BY <1>1, RequestInvariance, PTL

(* url, headers and body stay in their arrays (telecom.c:178-222), and     *)
(* only a reply fills body to the brim (telecom.c:80-87).                  *)
THEOREM BuffersSuffice == MainSpec => []Request!TypeOK
<1>1. CInv => Request!TypeOK
  BY DEF CInv
<1> QED BY <1>1, RequestInvariance, PTL

-----------------------------------------------------------------------------
(* The LEDs, with a watchdog or without.                                   *)
LightsTypeOK ==
    /\ phase \in {"off", "failed", "running"}
    /\ {red, green, blue, blinking, sim, reporter_busy} \subseteq BOOLEAN
    /\ settled \subseteq {"red", "blue"}

(* Before the start nothing is switched, and nothing counts as settled     *)
(* while the blinking goes on; only a program that runs blinks.            *)
Quiet ==
    /\ phase = "off" => ~reporter_busy /\ settled = {}
    /\ blinking => phase = "running" /\ settled = {}

LInv == LightsTypeOK /\ Quiet /\ LEDs!BlueTellsBusy /\ LEDs!RedTellsSim /\ LEDs!FailureStays

LEMMA InitLInv == LEDs!Init => LInv
BY DEF LEDs!Init, LInv, LightsTypeOK, Quiet, LEDs!BlueTellsBusy, LEDs!RedTellsSim,
       LEDs!FailureStays

LEMMA NextLInv == LInv /\ [LEDs!Next]_(LEDs!vars) => LInv'
<1> SUFFICES ASSUME LInv, [LEDs!Next]_(LEDs!vars) PROVE LInv'
  OBVIOUS
<1> USE DEF LInv, LightsTypeOK, Quiet, LEDs!BlueTellsBusy, LEDs!RedTellsSim, LEDs!FailureStays
<1>1. ASSUME NEW early \in BOOLEAN, NEW fails \in BOOLEAN, LEDs!Create(early, fails) PROVE LInv'
  BY <1>1 DEF LEDs!Create
<1>2. CASE LEDs!bootup_blink_cb
  BY <1>2 DEF LEDs!bootup_blink_cb, LEDs!More
<1>3. ASSUME NEW found \in BOOLEAN, LEDs!watchdog_cb(found) PROVE LInv'
  BY <1>3 DEF LEDs!watchdog_cb, LEDs!Settles
<1>4. CASE LEDs!Sends
  BY <1>4 DEF LEDs!Sends, LEDs!Settles
<1>5. CASE LEDs!Done
  BY <1>5 DEF LEDs!Done, LEDs!Settles
<1>6. CASE UNCHANGED LEDs!vars
  BY <1>6 DEF LEDs!vars, LEDs!leds
<1> QED BY <1>1, <1>2, <1>3, <1>4, <1>5, <1>6 DEF LEDs!Next

LEMMA LightsInvariance == MainSpec => []LInv
<1>1. MainInit => LInv
  BY InitLInv DEF MainInit
<1>2. [MainNext]_allvars => [LEDs!Next]_(LEDs!vars)
  BY DEF MainNext, allvars, leds, LEDs!vars, LEDs!leds
<1>3. LInv /\ [MainNext]_allvars => LInv'
  BY <1>2, NextLInv
<1> QED BY <1>1, <1>3, PTL DEF MainSpec

(* The blue LED tells whether a report is on its way, once it was switched *)
(* after the blinking (report.c:160-161, 184-185, 266, 303).               *)
THEOREM BlueIsTrueInMain == MainSpec => []BlueTellsBusy
<1>1. LInv => BlueTellsBusy
  BY DEF LInv, BlueTellsBusy
<1> QED BY <1>1, LightsInvariance, PTL

(* And the red one what the watchdog saw last (main.c:89-99).              *)
THEOREM RedIsTrue == MainSpec => []LEDs!RedTellsSim
<1>1. LInv => LEDs!RedTellsSim
  BY DEF LInv
<1> QED BY <1>1, LightsInvariance, PTL

(* A start that failed is seen to have failed (main.c:176-218).            *)
THEOREM FailureSeenInMain == MainSpec => []FailureStays
<1>1. LInv => FailureStays
  BY DEF LInv, FailureStays
<1> QED BY <1>1, LightsInvariance, PTL

-----------------------------------------------------------------------------
(* The report timer's loop.  Ordered: what a sequence of values is;        *)
(* Before: each value of the one comes before each of the other.           *)
Ordered(s) == \A i, j \in 1 .. Len(s) : i < j => s[i] < s[j]
Before(s, t) == \A i \in 1 .. Len(s), j \in 1 .. Len(t) : s[i] < t[j]
UpTo(n, s) == \A i \in 1 .. Len(s) : s[i] <= n

(* The values in the body that is being filled.                            *)
Filled == IF draining THEN http_body ELSE <<>>

DrainTypeOK ==
    /\ {queue, http_body, reported} \subseteq Seq(Int)
    /\ {measured, recent, result_count} \subseteq Nat
    /\ {draining, report_http, lossy} \subseteq BOOLEAN

(* Reported values come before the ones in the body, and these before the  *)
(* ones in the queue.                                                      *)
Sorted ==
    /\ Ordered(reported) /\ Ordered(Filled) /\ Ordered(queue)
    /\ Before(reported, Filled) /\ Before(reported, queue) /\ Before(Filled, queue)
    /\ UpTo(measured, reported) /\ UpTo(measured, Filled) /\ UpTo(measured, queue)

(* What was read in this round and what waits in the queue was written     *)
(* since the last report, which leaves room for it in ring and body.       *)
RoomLeft ==
    /\ recent <= Capacity /\ recent < Limit
    /\ Len(queue) <= recent
    /\ draining => report_http /\ result_count + Len(queue) <= recent

Complete == Len(Journey) = measured /\ \A i \in 1 .. measured : Journey[i] = i

DrainInv ==
    /\ DrainTypeOK
    /\ Sorted
    /\ lossy \/ (RoomLeft /\ Complete)

-----------------------------------------------------------------------------
LEMMA Empty == <<>> \in Seq(Int) /\ Len(<<>>) = 0
BY EmptySeq

LEMMA Appended ==
    ASSUME NEW s \in Seq(Int), NEW v \in Int
    PROVE  /\ Append(s, v) \in Seq(Int)
           /\ Len(Append(s, v)) = Len(s) + 1
           /\ Len(s) \in Nat
           /\ \A i \in 1 .. Len(s) + 1 : Append(s, v)[i] = IF i = Len(s) + 1 THEN v ELSE s[i]
BY SMT

LEMMA Shortened ==
    ASSUME NEW s \in Seq(Int), s # <<>>
    PROVE  /\ Tail(s) \in Seq(Int) /\ Head(s) \in Int
           /\ Head(s) = s[1]
           /\ Len(s) \in Nat \ {0}
           /\ Len(Tail(s)) = Len(s) - 1
           /\ \A i \in 1 .. Len(s) - 1 : Tail(s)[i] = s[i + 1]
BY HeadTailProperties, EmptySeq, SMT

LEMMA Joined ==
    ASSUME NEW s \in Seq(Int), NEW t \in Seq(Int)
    PROVE  /\ s \o t \in Seq(Int)
           /\ Len(s) \in Nat /\ Len(t) \in Nat
           /\ Len(s \o t) = Len(s) + Len(t)
           /\ \A i \in 1 .. Len(s) : (s \o t)[i] = s[i]
           /\ \A i \in 1 .. Len(t) : (s \o t)[Len(s) + i] = t[i]
BY ConcatProperties, SMT

LEMMA JoinAppend ==
    ASSUME NEW s \in Seq(Int), NEW t \in Seq(Int), NEW v \in Int
    PROVE  s \o Append(t, v) = Append(s \o t, v)
BY SMT

(* Order of values, by parts.                                              *)
LEMMA OrderedJoin ==
    ASSUME NEW s \in Seq(Int), NEW t \in Seq(Int),
           Ordered(s), Ordered(t), Before(s, t)
    PROVE  Ordered(s \o t)
<1> DEFINE u == s \o t
<1>1. /\ Len(s) \in Nat /\ Len(t) \in Nat /\ Len(u) = Len(s) + Len(t)
      /\ \A i \in 1 .. Len(u) : u[i] = IF i <= Len(s) THEN s[i] ELSE t[i - Len(s)]
      /\ \A i \in 1 .. Len(s) : s[i] \in Int
      /\ \A i \in 1 .. Len(t) : t[i] \in Int
  BY ConcatProperties, SMT
<1> SUFFICES ASSUME NEW i \in 1 .. Len(u), NEW j \in 1 .. Len(u), i < j
             PROVE  u[i] < u[j]
  BY DEF Ordered
<1> HIDE DEF u
<1>2. CASE j <= Len(s)
  <2>1. i \in 1 .. Len(s) /\ j \in 1 .. Len(s)
    BY <1>1, <1>2, SMT
  <2>2. u[i] = s[i] /\ u[j] = s[j]
    BY <1>1, <1>2, <2>1, SMT
  <2> QED BY <2>1, <2>2 DEF Ordered
<1>3. CASE i <= Len(s) /\ j > Len(s)
  <2>1. i \in 1 .. Len(s) /\ j - Len(s) \in 1 .. Len(t)
    BY <1>1, <1>3, SMT
  <2>2. u[i] = s[i] /\ u[j] = t[j - Len(s)]
    BY <1>1, <1>3, SMT
  <2> QED BY <2>1, <2>2 DEF Before
<1>4. CASE i > Len(s)
  <2>1. i - Len(s) \in 1 .. Len(t) /\ j - Len(s) \in 1 .. Len(t) /\ i - Len(s) < j - Len(s)
    BY <1>1, <1>4, SMT
  <2>2. u[i] = t[i - Len(s)] /\ u[j] = t[j - Len(s)]
    BY <1>1, <1>4, SMT
  <2> QED BY <2>1, <2>2 DEF Ordered
<1> QED BY <1>1, <1>2, <1>3, <1>4, SMT

(* A new value is later than all that there are.                           *)
LEMMA OrderedAppend ==
    ASSUME NEW s \in Seq(Int), NEW v \in Int, Ordered(s), \A i \in 1 .. Len(s) : s[i] < v
    PROVE  Ordered(Append(s, v))
BY Appended, SMT DEF Ordered

LEMMA OrderedTail ==
    ASSUME NEW s \in Seq(Int), s # <<>>, Ordered(s)
    PROVE  /\ Ordered(Tail(s))
           /\ \A i \in 1 .. Len(Tail(s)) : Head(s) < Tail(s)[i]
<1>1. \A i \in 1 .. Len(s) - 1 : i + 1 \in 1 .. Len(s) /\ 1 \in 1 .. Len(s) /\ 1 < i + 1
  BY Shortened, SMT
<1>2. \A i, j \in 1 .. Len(s) - 1 : i < j => i + 1 < j + 1
  BY Shortened, SMT
<1> QED BY <1>1, <1>2, Shortened DEF Ordered

LEMMA TailOf ==
    ASSUME NEW s \in Seq(Int), s # <<>>, NEW i \in 1 .. Len(Tail(s))
    PROVE  i + 1 \in 1 .. Len(s) /\ Tail(s)[i] = s[i + 1]
BY Shortened, SMT

(* The first value of the queue goes to the end of the body.               *)
LEMMA Moved ==
    ASSUME NEW r \in Seq(Int), NEW b \in Seq(Int), NEW q \in Seq(Int), q # <<>>
    PROVE  (r \o Append(b, Head(q))) \o Tail(q) = (r \o b) \o q
<1>1. /\ Head(q) \in Int /\ Tail(q) \in Seq(Int)
      /\ Len(q) \in Nat \ {0} /\ Len(Tail(q)) = Len(q) - 1
      /\ Head(q) = q[1]
      /\ \A i \in 1 .. Len(q) - 1 : Tail(q)[i] = q[i + 1]
  BY Shortened
<1> DEFINE c == Append(b, Head(q))
           left == (r \o c) \o Tail(q)
           right == (r \o b) \o q
<1>2. /\ c \in Seq(Int) /\ Len(c) = Len(b) + 1 /\ Len(b) \in Nat /\ Len(r) \in Nat
      /\ \A i \in 1 .. Len(b) + 1 : c[i] = IF i = Len(b) + 1 THEN Head(q) ELSE b[i]
  BY <1>1, Appended, Joined
<1> HIDE DEF c
<1>3. /\ r \o c \in Seq(Int) /\ Len(r \o c) = Len(r) + Len(b) + 1
      /\ \A i \in 1 .. Len(r) + Len(b) + 1 :
            (r \o c)[i] = IF i <= Len(r) THEN r[i] ELSE c[i - Len(r)]
  <2>1. Len(r) + Len(c) = Len(r) + Len(b) + 1
    BY <1>2, SMT
  <2>2. /\ r \o c \in Seq(Int) /\ Len(r \o c) = Len(r) + Len(c)
        /\ \A i \in 1 .. Len(r) + Len(c) : (r \o c)[i] = IF i <= Len(r) THEN r[i] ELSE c[i - Len(r)]
    <3>1. c \in Seq(Int)
      BY <1>2
    <3> QED BY <3>1, ConcatProperties
  <2> QED BY <2>1, <2>2
<1>4. /\ r \o b \in Seq(Int) /\ Len(r \o b) = Len(r) + Len(b)
      /\ \A i \in 1 .. Len(r) + Len(b) :
            (r \o b)[i] = IF i <= Len(r) THEN r[i] ELSE b[i - Len(r)]
  BY <1>2, ConcatProperties, SMT
<1> DEFINE n == Len(r) + Len(b) + Len(q)
<1>5. /\ left \in Seq(Int) /\ Len(left) = n
      /\ \A i \in 1 .. n : left[i] = IF i <= Len(r) + Len(b) + 1 THEN (r \o c)[i]
                                     ELSE Tail(q)[i - (Len(r) + Len(b) + 1)]
  <2>1. Len(r \o c) + Len(Tail(q)) = n
    BY <1>1, <1>2, <1>3, SMT
  <2>2. /\ left \in Seq(Int) /\ Len(left) = Len(r \o c) + Len(Tail(q))
        /\ \A i \in 1 .. Len(r \o c) + Len(Tail(q)) :
              left[i] = IF i <= Len(r \o c) THEN (r \o c)[i]
                        ELSE Tail(q)[i - Len(r \o c)]
    <3>1. r \o c \in Seq(Int) /\ Tail(q) \in Seq(Int)
      BY <1>1, <1>3
    <3> QED BY <3>1, ConcatProperties, Zenon
  <2>3. Len(r \o c) = Len(r) + Len(b) + 1
    BY <1>3
  <2> HIDE DEF n, left
  <2> QED BY <2>1, <2>2, <2>3, Zenon
<1>6. /\ right \in Seq(Int) /\ Len(right) = n
      /\ \A i \in 1 .. n : right[i] = IF i <= Len(r) + Len(b) THEN (r \o b)[i]
                                      ELSE q[i - (Len(r) + Len(b))]
  BY <1>4, ConcatProperties
<1> HIDE DEF left, right
<1>7. ASSUME NEW i \in 1 .. n PROVE left[i] = right[i]
  <2>1. CASE i <= Len(r) + Len(b)
    <3>1. /\ i \in 1 .. Len(r) + Len(b) /\ i \in 1 .. Len(r) + Len(b) + 1
          /\ i <= Len(r) + Len(b) + 1
      BY <1>2, <2>1, SMT
    <3>2. ~(i <= Len(r)) => i - Len(r) \in 1 .. Len(b) + 1 /\ i - Len(r) # Len(b) + 1
      BY <1>2, <2>1, SMT
    <3> QED BY <1>2, <1>3, <1>4, <1>5, <1>6, <2>1, <3>1, <3>2
  <2>2. CASE i = Len(r) + Len(b) + 1
    <3>1. /\ i \in 1 .. Len(r) + Len(b) + 1 /\ i <= Len(r) + Len(b) + 1
          /\ ~(i <= Len(r)) /\ ~(i <= Len(r) + Len(b))
          /\ i - Len(r) = Len(b) + 1 /\ i - (Len(r) + Len(b)) = 1
          /\ Len(b) + 1 \in 1 .. Len(b) + 1
      BY <1>2, <2>2, SMT
    <3> QED BY <1>1, <1>2, <1>3, <1>5, <1>6, <3>1
  <2>3. CASE i > Len(r) + Len(b) + 1
    <3> DEFINE k == i - (Len(r) + Len(b) + 1)
    <3>1. /\ ~(i <= Len(r) + Len(b) + 1) /\ ~(i <= Len(r) + Len(b))
          /\ k \in 1 .. Len(q) - 1 /\ i - (Len(r) + Len(b)) = k + 1
      BY <1>1, <1>2, <2>3, SMT
    <3> QED BY <1>1, <1>5, <1>6, <3>1
  <2>4. i \in Int /\ Len(r) + Len(b) \in Int
    BY <1>2, SMT
  <2> QED BY <2>1, <2>2, <2>3, <2>4, SMT
<1>8. left = right
  BY <1>5, <1>6, <1>7, SeqEqual
<1> QED BY <1>8 DEF left, right, c

LEMMA InOrderFromSorted ==
    ASSUME DrainTypeOK, Sorted
    PROVE  InOrder
<1> DEFINE rest == Filled \o queue
<1>1. reported \in Seq(Int) /\ Filled \in Seq(Int) /\ queue \in Seq(Int)
  BY Empty DEF DrainTypeOK, Filled
<1>2. Ordered(reported \o Filled)
  BY <1>1, OrderedJoin DEF Sorted
<1>3. Before(reported \o Filled, queue)
  <2> SUFFICES ASSUME NEW i \in 1 .. Len(reported \o Filled), NEW j \in 1 .. Len(queue)
               PROVE  (reported \o Filled)[i] < queue[j]
    BY DEF Before
  <2>1. CASE i <= Len(reported)
    <3>1. i \in 1 .. Len(reported)
      BY <1>1, <2>1, Joined, SMT
    <3> QED BY <1>1, <3>1, Joined DEF Sorted, Before
  <2>2. CASE i > Len(reported)
    <3>1. PICK k \in 1 .. Len(Filled) : i = Len(reported) + k
      <4>1. i - Len(reported) \in 1 .. Len(Filled) /\ i = Len(reported) + (i - Len(reported))
        BY <1>1, <2>2, Joined, SMT
      <4> QED BY <4>1
    <3> QED BY <1>1, <3>1, Joined DEF Sorted, Before
  <2>3. Len(reported) \in Nat /\ i \in Int
    BY <1>1, Joined
  <2> QED BY <2>1, <2>2, <2>3, SMT
<1>4. Ordered((reported \o Filled) \o queue)
  BY <1>1, <1>2, <1>3, Joined, OrderedJoin DEF Sorted
<1>5. Journey = (reported \o Filled) \o queue
  BY DEF Journey, Filled
<1> QED BY <1>4, <1>5 DEF InOrder, Ordered

LEMMA InitDrain == DrainInit => DrainInv
<1> SUFFICES ASSUME DrainInit PROVE DrainInv
  OBVIOUS
<1>1. /\ queue = <<>> /\ http_body = <<>> /\ reported = <<>> /\ Filled = <<>>
      /\ measured = 0 /\ recent = 0 /\ result_count = 0
      /\ draining = FALSE /\ lossy = FALSE /\ report_http \in BOOLEAN
  BY DEF DrainInit, Init, Filled
<1>2. DrainTypeOK
  <2>1. {queue, http_body, reported} \subseteq Seq(Int)
    BY <1>1, Empty
  <2>2. {measured, recent, result_count} \subseteq Nat
    BY <1>1, SMT
  <2>3. draining \in BOOLEAN /\ report_http \in BOOLEAN /\ lossy \in BOOLEAN
    BY <1>1
  <2> QED BY <2>1, <2>2, <2>3 DEF DrainTypeOK
<1>3. Sorted
  BY <1>1, Empty, SMT DEF Sorted, Ordered, Before, UpTo
<1>4. RoomLeft
  BY <1>1, Empty, DrainAssumption, SMT DEF RoomLeft
<1>5. Len(Journey) = 0
  <2>1. Journey = (<<>> \o <<>>) \o <<>>
    BY <1>1 DEF Journey, Filled
  <2>2. <<>> \o <<>> = <<>>
    BY Empty, ConcatEmptySeq
  <2> QED BY <2>1, <2>2, Empty
<1>6. Complete
  BY <1>1, <1>5, SMT DEF Complete
<1> QED BY <1>2, <1>3, <1>4, <1>6 DEF DrainInv

LEMMA WriteDrain ==
    ASSUME DrainInv, afifo_write
    PROVE  DrainInv'
<1> DEFINE v == measured + 1
<1>1. /\ queue' = Enqueued(v)
      /\ measured' = v /\ recent' = recent + 1
      /\ lossy' = (lossy \/ TooMany(recent + 1))
      /\ UNCHANGED <<report_http, draining, result_count, http_body, reported>>
      /\ Filled' = Filled
  BY DEF afifo_write, Put, Filled
<1>2. /\ queue \in Seq(Int) /\ http_body \in Seq(Int) /\ reported \in Seq(Int)
      /\ measured \in Nat /\ recent \in Nat /\ v \in Nat /\ v \in Int
      /\ draining \in BOOLEAN /\ report_http \in BOOLEAN /\ lossy \in BOOLEAN
      /\ result_count \in Nat
      /\ Filled \in Seq(Int)
  BY Empty, SMT DEF DrainInv, DrainTypeOK, Filled
<1> DEFINE longer == Append(queue, v)
<1>3. /\ longer \in Seq(Int)
      /\ Len(longer) = Len(queue) + 1 /\ Len(queue) \in Nat
      /\ \A i \in 1 .. Len(queue) + 1 : longer[i] = IF i = Len(queue) + 1 THEN v ELSE queue[i]
  BY <1>2, Appended
<1>4. longer # <<>>
  BY <1>3, Empty, SMT
<1>5. queue' = longer \/ queue' = Tail(longer)
  BY <1>1 DEF Enqueued
<1> HIDE DEF longer
<1>6. DrainTypeOK'
  <2>1. queue' \in Seq(Int)
    BY <1>3, <1>4, <1>5, Shortened
  <2>2. recent' \in Nat /\ lossy' \in BOOLEAN
    BY <1>1, <1>2, SMT
  <2> QED BY <1>1, <1>2, <2>1, <2>2 DEF DrainTypeOK
<1>7. /\ UpTo(measured, reported) /\ UpTo(measured, Filled) /\ UpTo(measured, queue)
      /\ Ordered(reported) /\ Ordered(Filled) /\ Ordered(queue)
      /\ Before(reported, Filled) /\ Before(reported, queue) /\ Before(Filled, queue)
  BY DEF DrainInv, Sorted
<1>8. /\ Ordered(longer) /\ UpTo(v, longer)
      /\ Before(reported, longer) /\ Before(Filled, longer)
      /\ UpTo(v, reported) /\ UpTo(v, Filled)
  <2>1. \A s \in Seq(Int) : UpTo(measured, s) => \A i \in 1 .. Len(s) : s[i] < v /\ s[i] <= v
    BY <1>2, SMT DEF UpTo
  <2>2. Ordered(longer)
    BY <1>2, <1>7, <2>1, OrderedAppend DEF longer
  <2>3. \A i \in 1 .. Len(longer) :
          longer[i] = v \/ (i \in 1 .. Len(queue) /\ longer[i] = queue[i])
    BY <1>3, SMT
  <2>4. UpTo(v, longer)
    <3>1. \A i \in 1 .. Len(queue) : queue[i] <= v
      BY <1>2, <1>7, <2>1
    <3>2. v <= v
      BY <1>2, SMT
    <3> QED BY <2>3, <3>1, <3>2 DEF UpTo
  <2>5. Before(reported, longer) /\ Before(Filled, longer)
    BY <1>2, <1>7, <2>1, <2>3 DEF Before
  <2> QED BY <1>2, <1>7, <2>1, <2>2, <2>4, <2>5 DEF UpTo
<1>9. /\ Ordered(queue') /\ UpTo(v, queue')
      /\ Before(reported, queue') /\ Before(Filled, queue')
  <2>1. CASE queue' = longer
    BY <1>8, <2>1
  <2>2. CASE queue' = Tail(longer)
    BY <1>3, <1>4, <1>8, <2>2, TailOf, OrderedTail DEF UpTo, Before
  <2> QED BY <1>5, <2>1, <2>2
<1>10. Sorted'
  <2>1. /\ Ordered(reported)' /\ Ordered(Filled)' /\ Ordered(queue)'
        /\ UpTo(measured, reported)' /\ UpTo(measured, Filled)' /\ UpTo(measured, queue)'
        /\ Before(reported, Filled)' /\ Before(reported, queue)' /\ Before(Filled, queue)'
    BY <1>1, <1>7, <1>8, <1>9 DEF Ordered, UpTo, Before
  <2> QED BY <2>1 DEF Sorted
<1>11. ASSUME ~lossy'
       PROVE  (RoomLeft /\ Complete)'
  <2>1. ~lossy /\ RoomLeft /\ Complete /\ ~TooMany(recent + 1)
    BY <1>1, <1>11 DEF DrainInv
  <2>2. Len(queue) < Capacity /\ recent' <= Capacity /\ recent' < Limit
    BY <1>1, <1>2, <1>3, <2>1, DrainAssumption, SMT DEF TooMany, RoomLeft
  <2>3. queue' = Append(queue, v) /\ Len(queue') = Len(queue) + 1
    BY <1>1, <1>3, <2>2 DEF Enqueued, longer
  <2>4. RoomLeft'
    BY <1>1, <1>2, <1>3, <2>1, <2>2, <2>3, SMT DEF RoomLeft
  <2>5. Complete'
    <3> DEFINE before == reported \o Filled
    <3>1. before \in Seq(Int) /\ Len(before) \in Nat
      BY <1>2, Joined
    <3>2. Journey = before \o queue /\ Journey' = before \o queue'
      BY <1>1 DEF Journey, Filled
    <3> HIDE DEF before
    <3>3. Journey' = Append(Journey, v) /\ Journey \in Seq(Int)
      <4>1. v \in Int /\ queue \in Seq(Int)
        BY <1>2
      <4>2. before \o Append(queue, v) = Append(before \o queue, v)
        BY <3>1, <4>1, JoinAppend
      <4>3. before \o queue \in Seq(Int)
        BY <3>1, <4>1, Joined
      <4> QED BY <2>3, <3>2, <4>2, <4>3
    <3>4. Len(Journey) = measured /\ \A i \in 1 .. measured : Journey[i] = i
      BY <2>1 DEF Complete
    <3> HIDE DEF Journey
    <3>5. /\ Len(Journey') = v
          /\ \A i \in 1 .. v : Journey'[i] = IF i = v THEN v ELSE Journey[i]
      BY <1>2, <3>3, <3>4, Appended
    <3>6. \A i \in 1 .. v : Journey'[i] = i
      <4>1. \A i \in 1 .. v : i = v \/ i \in 1 .. measured
        BY <1>2, SMT
      <4>2. \A i \in 1 .. measured : Journey[i] = i
        BY <3>4
      <4> QED BY <3>5, <4>1, <4>2
    <3> QED BY <1>1, <3>5, <3>6 DEF Complete
  <2> QED BY <2>4, <2>5
<1> QED BY <1>6, <1>10, <1>11 DEF DrainInv

LEMMA FiresDrain ==
    ASSUME DrainInv, Fires
    PROVE  DrainInv'
<1>1. /\ ~draining /\ draining' /\ result_count' = 0 /\ http_body' = <<>>
      /\ lossy' = (lossy \/ ~report_http)
      /\ UNCHANGED <<queue, measured, report_http, reported, recent>>
      /\ Filled = <<>> /\ Filled' = <<>>
      /\ draining' = TRUE
  BY DEF Fires, qvars, Filled
<1>2. DrainTypeOK'
  BY <1>1, Empty, SMT DEF DrainInv, DrainTypeOK
<1>3. Sorted'
  BY <1>1 DEF DrainInv, Sorted, Ordered, Before, UpTo
<1>4. Journey' = Journey
  BY <1>1 DEF Journey, Filled
<1>5. ASSUME ~lossy' PROVE (RoomLeft /\ Complete)'
  <2>1. RoomLeft /\ Complete /\ report_http
    BY <1>1, <1>5 DEF DrainInv
  <2>2. Len(queue) \in Nat
    BY Joined DEF DrainInv, DrainTypeOK
  <2>3. RoomLeft'
    BY <1>1, <2>1, <2>2, SMT DEF RoomLeft
  <2> QED BY <1>1, <1>4, <2>1, <2>3 DEF Complete
<1> QED BY <1>2, <1>3, <1>5 DEF DrainInv

LEMMA ReadDrain ==
    ASSUME DrainInv, ReadsValue
    PROVE  DrainInv'
<1> DEFINE v == Head(queue)
<1>1. /\ draining /\ draining' /\ queue # <<>> /\ queue' = Tail(queue)
      /\ result_count' = result_count + 1
      /\ http_body' = IF report_http /\ result_count + 1 < Limit
                      THEN Append(http_body, v) ELSE http_body
      /\ UNCHANGED <<measured, report_http, draining, reported, recent, lossy>>
      /\ Filled = http_body /\ Filled' = http_body'
  BY DEF ReadsValue, Get, Filled
<1>2. /\ queue \in Seq(Int) /\ http_body \in Seq(Int) /\ reported \in Seq(Int)
      /\ measured \in Nat /\ recent \in Nat /\ result_count \in Nat
  BY DEF DrainInv, DrainTypeOK
<1>3. /\ Tail(queue) \in Seq(Int) /\ v \in Int /\ v = queue[1]
      /\ Len(queue) \in Nat \ {0} /\ Len(Tail(queue)) = Len(queue) - 1
      /\ 1 \in 1 .. Len(queue)
  BY <1>1, <1>2, Shortened, SMT
<1> DEFINE fuller == Append(http_body, v)
<1>4. /\ fuller \in Seq(Int) /\ Len(http_body) \in Nat
      /\ Len(fuller) = Len(http_body) + 1
      /\ \A i \in 1 .. Len(fuller) :
            fuller[i] = v \/ (i \in 1 .. Len(http_body) /\ fuller[i] = http_body[i])
  <2>1. /\ fuller \in Seq(Int) /\ Len(http_body) \in Nat
        /\ Len(fuller) = Len(http_body) + 1
        /\ \A i \in 1 .. Len(http_body) + 1 :
              fuller[i] = IF i = Len(http_body) + 1 THEN v ELSE http_body[i]
    BY <1>2, <1>3, Appended
  <2>2. \A i \in 1 .. Len(http_body) + 1 :
          i = Len(http_body) + 1 \/ i \in 1 .. Len(http_body)
    BY <2>1, SMT
  <2> QED BY <2>1, <2>2
<1> HIDE DEF fuller, v
<1>5. DrainTypeOK'
  <2>1. http_body' \in Seq(Int) /\ result_count' \in Nat
    BY <1>1, <1>2, <1>4, SMT DEF fuller
  <2> QED BY <1>1, <1>3, <2>1 DEF DrainInv, DrainTypeOK
<1>6. /\ UpTo(measured, reported) /\ UpTo(measured, http_body) /\ UpTo(measured, queue)
      /\ Ordered(reported) /\ Ordered(http_body) /\ Ordered(queue)
      /\ Before(reported, http_body) /\ Before(reported, queue) /\ Before(http_body, queue)
  BY <1>1 DEF DrainInv, Sorted
<1>7. \A i \in 1 .. Len(Tail(queue)) : /\ i + 1 \in 1 .. Len(queue)
                                       /\ Tail(queue)[i] = queue[i + 1]
                                       /\ v < Tail(queue)[i]
  BY <1>1, <1>2, <1>6, TailOf, OrderedTail DEF v
<1>8. /\ Ordered(queue') /\ UpTo(measured, queue')
      /\ Before(reported, queue') /\ Before(http_body, queue')
  BY <1>1, <1>2, <1>6, <1>7, OrderedTail DEF UpTo, Before
<1>9. /\ Ordered(http_body') /\ UpTo(measured, http_body')
      /\ Before(reported, http_body') /\ Before(http_body', queue')
  <2>1. CASE http_body' = http_body
    BY <1>6, <1>8, <2>1
  <2>2. CASE http_body' = fuller
    <3>1. Ordered(fuller)
      BY <1>2, <1>3, <1>6, OrderedAppend DEF fuller, Before
    <3>2. UpTo(measured, fuller) /\ Before(reported, fuller)
      BY <1>3, <1>4, <1>6 DEF UpTo, Before
    <3>3. Before(fuller, queue')
      BY <1>1, <1>4, <1>7, <1>8 DEF Before
    <3> QED BY <2>2, <3>1, <3>2, <3>3
  <2> QED BY <1>1, <2>1, <2>2 DEF fuller
<1>10. Sorted'
  <2>1. /\ Ordered(reported)' /\ Ordered(Filled)' /\ Ordered(queue)'
        /\ UpTo(measured, reported)' /\ UpTo(measured, Filled)' /\ UpTo(measured, queue)'
        /\ Before(reported, Filled)' /\ Before(reported, queue)' /\ Before(Filled, queue)'
    BY <1>1, <1>6, <1>8, <1>9 DEF Ordered, UpTo, Before
  <2> QED BY <2>1 DEF Sorted
<1>11. ASSUME ~lossy' PROVE (RoomLeft /\ Complete)'
  <2>1. RoomLeft /\ Complete /\ report_http
    BY <1>1, <1>11 DEF DrainInv, RoomLeft
  <2>2. result_count + 1 <= recent /\ result_count + 1 < Limit
    BY <1>1, <1>2, <1>3, <2>1, DrainAssumption, SMT DEF RoomLeft
  <2>3. RoomLeft'
    BY <1>1, <1>2, <1>3, <2>1, <2>2, SMT DEF RoomLeft
  <2>4. http_body' = Append(http_body, v)
    BY <1>1, <2>1, <2>2
  <2>5. Journey' = Journey
    <3>1. Journey = (reported \o http_body) \o queue
      BY <1>1 DEF Journey
    <3>2. Journey' = (reported \o Append(http_body, v)) \o Tail(queue)
      BY <1>1, <2>4 DEF Journey
    <3>3. (reported \o Append(http_body, v)) \o Tail(queue) = (reported \o http_body) \o queue
      BY <1>1, <1>2, <1>3, Moved DEF v
    <3> QED BY <3>1, <3>2, <3>3
  <2> QED BY <1>1, <2>1, <2>3, <2>5 DEF Complete
<1> QED BY <1>5, <1>10, <1>11 DEF DrainInv

LEMMA ReportsDrain ==
    ASSUME DrainInv, Reports
    PROVE  DrainInv'
<1>1. /\ draining /\ draining' = FALSE /\ queue = <<>> /\ queue' = <<>> /\ recent' = 0
      /\ reported' = IF report_http THEN reported \o http_body ELSE reported
      /\ UNCHANGED <<measured, report_http, result_count, http_body, lossy>>
      /\ Filled = http_body /\ Filled' = <<>>
  BY DEF Reports, GetNothing, Filled
<1>2. /\ http_body \in Seq(Int) /\ reported \in Seq(Int)
  BY DEF DrainInv, DrainTypeOK
<1>3. /\ reported \o http_body \in Seq(Int)
      /\ Ordered(reported \o http_body) /\ Ordered(reported)
  BY <1>1, <1>2, Joined, OrderedJoin DEF DrainInv, Sorted
<1>4. DrainTypeOK'
  <2>1. {queue', http_body', reported'} \subseteq Seq(Int)
    BY <1>1, <1>2, <1>3, Empty
  <2>2. {measured', recent', result_count'} \subseteq Nat
    <3>1. recent' \in Nat
      BY <1>1, SMT
    <3> QED BY <1>1, <3>1 DEF DrainInv, DrainTypeOK
  <2>3. {draining', report_http', lossy'} \subseteq BOOLEAN
    BY <1>1, Zenon DEF DrainInv, DrainTypeOK
  <2> QED BY <2>1, <2>2, <2>3 DEF DrainTypeOK
<1>5. UpTo(measured, reported \o http_body) /\ UpTo(measured, reported)
  <2>1. \A i \in 1 .. Len(reported \o http_body) :
          \/ i \in 1 .. Len(reported) /\ (reported \o http_body)[i] = reported[i]
          \/ /\ i - Len(reported) \in 1 .. Len(http_body)
             /\ (reported \o http_body)[i] = http_body[i - Len(reported)]
    BY <1>2, ConcatProperties, SMT
  <2> QED BY <1>1, <2>1 DEF DrainInv, Sorted, UpTo
<1>6. Sorted'
  <2>1. Ordered(reported)' /\ UpTo(measured, reported)'
    BY <1>1, <1>3, <1>5 DEF Ordered, UpTo
  <2> QED BY <1>1, <2>1, Empty, SMT DEF Sorted, Ordered, Before, UpTo
<1>7. ASSUME ~lossy' PROVE (RoomLeft /\ Complete)'
  <2>1. RoomLeft /\ Complete /\ report_http
    BY <1>1, <1>7 DEF DrainInv, RoomLeft
  <2>2. RoomLeft'
    BY <1>1, DrainAssumption, Empty, SMT DEF RoomLeft
  <2>3. Journey' = Journey
    <3>1. Journey = (reported \o http_body) \o <<>>
      BY <1>1 DEF Journey
    <3>2. Journey' = ((reported \o http_body) \o <<>>) \o <<>>
      BY <1>1, <2>1 DEF Journey
    <3> QED BY <1>3, <3>1, <3>2, ConcatEmptySeq
  <2> QED BY <1>1, <2>1, <2>2, <2>3 DEF Complete
<1> QED BY <1>4, <1>6, <1>7 DEF DrainInv

LEMMA NextDrain == DrainInv /\ [DrainNext]_vars => DrainInv'
<1> SUFFICES ASSUME DrainInv, [DrainNext]_vars PROVE DrainInv'
  OBVIOUS
<1>1. CASE set_http_report
  <2>1. /\ UNCHANGED <<queue, measured, draining, result_count, http_body, reported, recent, lossy>>
        /\ ~draining /\ report_http' \in BOOLEAN
    BY <1>1 DEF set_http_report, qvars
  <2>2. Filled' = Filled /\ Journey' = Journey
    BY <2>1 DEF Filled, Journey
  <2> QED BY <2>1, <2>2 DEF DrainInv, DrainTypeOK, Sorted, Ordered, Before, UpTo, RoomLeft, Complete
<1>2. CASE UNCHANGED vars
  BY <1>2 DEF vars, qvars, DrainInv, DrainTypeOK, Sorted, Filled, Ordered, Before, UpTo,
     RoomLeft, Complete, Journey
<1> QED BY <1>1, <1>2, WriteDrain, FiresDrain, ReadDrain, ReportsDrain DEF DrainNext

LEMMA DrainInvariance == MainSpec => []DrainInv
<1>1. MainInit => DrainInv
  BY InitDrain DEF MainInit
<1>2. DrainInv /\ [MainNext]_allvars => DrainInv'
  <2>1. [MainNext]_allvars => [DrainNext]_vars
    BY DEF MainNext, allvars
  <2> QED BY <2>1, NextDrain
<1> QED BY <1>1, <1>2, PTL DEF MainSpec

(* Whatever the sizes of ring and body: a value is reported once at most,  *)
(* and never after a later one (report.c:211-223).                         *)
THEOREM ReportedInOrder == MainSpec => []InOrder
<1>1. DrainInv => InOrder
  BY InOrderFromSorted DEF DrainInv
<1> QED BY <1>1, DrainInvariance, PTL

(* Whatever the sizes of ring and body: if no interval between two reports *)
(* has more values than they hold, each value is in a report, in the body  *)
(* that is being filled, or in the ring (report.c:111-114, 219).           *)
THEOREM EveryValueReported == MainSpec => []NothingLost
<1>1. DrainInv => NothingLost
  <2> SUFFICES ASSUME DrainInv, ~lossy PROVE Journey = [i \in 1 .. measured |-> i]
    BY DEF NothingLost
  <2>1. reported \in Seq(Int) /\ Filled \in Seq(Int) /\ queue \in Seq(Int) /\ measured \in Nat
    BY Empty DEF DrainInv, DrainTypeOK, Filled
  <2>2. Journey \in Seq(Int)
    <3>1. Journey = (reported \o Filled) \o queue
      BY DEF Journey, Filled
    <3> QED BY <2>1, <3>1, Joined
  <2>3. Len(Journey) = measured /\ \A i \in 1 .. measured : Journey[i] = i
    BY DEF DrainInv, Complete
  <2> HIDE DEF Journey
  <2>4. DOMAIN Journey = 1 .. measured /\ Journey \in [1 .. measured -> Int]
    BY <2>2, <2>3, LenProperties
  <2> QED BY <2>3, <2>4
<1> QED BY <1>1, DrainInvariance, PTL

-----------------------------------------------------------------------------
(* The line editor.  A set of numbers has a least one, which is what the   *)
(* place of the first newline rests on.                                    *)
LEMMA LeastNatural ==
    ASSUME NEW T, T \subseteq Nat, T # {}
    PROVE  \E m \in T : \A n \in T : m <= n
<1>1. \A x, y \in Nat : x < y => <<x, y>> \in OpToRel(<, Nat)
  BY DEF OpToRel
<1>2. PICK m \in T : \A y \in T : ~(<<y, m>> \in OpToRel(<, Nat))
  BY NatLessThanWellFounded, WFMin
<1>3. \A y \in T : ~(y < m)
  BY <1>1, <1>2
<1>4. \A y \in T : m <= y
  BY <1>3, SMT
<1> QED BY <1>4

Char == Letters \cup {Editor!Newline}

(* The first newline of a text is at one of its places, or at none, 0.     *)
LEMMA NewlinePlace ==
    ASSUME NEW text \in Seq(Char)
    PROVE  Editor!NewlineAt(text) \in 0 .. Len(text)
<1> DEFINE at == {i \in 1 .. Len(text) : text[i] = Editor!Newline}
<1>1. Len(text) \in Nat /\ at \subseteq Nat
  BY LenProperties, SMT
<1>2. CASE at = {}
  <2>1. Editor!NewlineAt(text) = 0
    BY <1>2 DEF Editor!NewlineAt, Editor!SelectInSeq
  <2> QED BY <1>1, <2>1, SMT
<1>3. CASE at # {}
  <2>1. Editor!Min(at) \in at
    BY <1>1, <1>3, LeastNatural DEF Editor!Min
  <2>2. Editor!NewlineAt(text) = Editor!Min(at)
    BY <1>3 DEF Editor!NewlineAt, Editor!SelectInSeq
  <2> QED BY <1>1, <2>1, <2>2, SMT
<1> QED BY <1>2, <1>3

(* Where the last chunk of k begins, in what has n characters.             *)
LEMMA Chunks ==
    ASSUME NEW n \in Nat \ {0}, NEW k \in Nat \ {0}
    PROVE  /\ ((n - 1) \div k) * k + 1 \in 1 .. n
           /\ n < k => ((n - 1) \div k) * k + 1 = 1
OBVIOUS

(* The line so far is the typed one, or was found to be too long.          *)
LineKept ==
    ~garbled => IF cmdline_overflow THEN Len(typed) > max_cmdline_size
                ELSE cmdline = typed /\ Len(typed) <= max_cmdline_size

EditorInv ==
    /\ cmdline \in Seq(Char) /\ typed \in Seq(Char)
    /\ {cmdline_overflow, garbled} \subseteq BOOLEAN
    /\ LineKept
    /\ RunAsTyped

LEMMA TextTypes ==
    ASSUME NEW text \in Editor!Texts
    PROVE  text \in Seq(Char) /\ Len(text) \in Nat
<1>1. PICK n \in 0 .. MaxArrived : text \in [1 .. n -> Char]
  BY DEF Editor!Texts, Char
<1>2. n \in Nat
  BY <1>1, MainThreadAssumption, SMT DEF Editor!ConsoleAssumption
<1> QED BY <1>1, <1>2, SMT

LEMMA LastChunkTypes ==
    ASSUME NEW text \in Editor!Texts, text # <<>>
    PROVE  /\ Editor!LastChunk(text) \in Seq(Char)
           /\ Len(text) < Chunk => Editor!LastChunk(text) = text
<1> DEFINE recv == Editor!LastChunk(text)
           from == ((Len(text) - 1) \div Chunk) * Chunk + 1
<1>1. text \in Seq(Char) /\ Len(text) \in Nat \ {0} /\ Chunk \in Nat \ {0}
  BY TextTypes, EmptySeq, MainThreadAssumption DEF Editor!ConsoleAssumption
<1>2. from \in 1 .. Len(text) /\ (Len(text) < Chunk => from = 1)
  BY <1>1, Chunks
<1>3. recv = SubSeq(text, from, Len(text))
  BY DEF Editor!LastChunk
<1> HIDE DEF recv, from
<1>4. recv \in Seq(Char)
  <2>1. from \in Int /\ Len(text) \in Int /\ \A i \in from .. Len(text) : i \in 1 .. Len(text)
    BY <1>1, <1>2, SMT
  <2>2. \A i \in from .. Len(text) : text[i] \in Char
    BY <1>1, <2>1, ElementOfSeq
  <2> QED BY <1>3, <2>1, <2>2, SubSeqProperties
<1>5. Len(text) < Chunk => recv = text
  BY <1>1, <1>2, <1>3, SubSeqFull
<1> QED BY <1>4, <1>5 DEF recv

(* What recv holds, read or not; and what was read if it was little.       *)
LEMMA RecvTypes ==
    ASSUME NEW text \in Editor!Texts, NEW recv \in Editor!Received(text)
    PROVE  /\ recv \in Seq(Char) /\ Len(recv) \in Nat
           /\ Editor!NewlineAt(recv) \in 0 .. Len(recv)
           /\ \A n \in 0 .. Len(recv) : SubSeq(recv, 1, n - 1) \in Seq(Char)
           /\ Editor!Paced(text) => recv = text
<1>1. recv \in Seq(Char)
  <2>1. CASE text = <<>>
    BY <2>1, TextTypes DEF Editor!Received
  <2>2. CASE text # <<>>
    BY <2>2, LastChunkTypes DEF Editor!Received
  <2> QED BY <2>1, <2>2
<1>2. Len(recv) \in Nat
  BY <1>1, LenProperties
<1>3. ASSUME NEW n \in 0 .. Len(recv)
      PROVE  SubSeq(recv, 1, n - 1) \in Seq(Char)
  <2>1. n - 1 \in Int /\ 1 \in Int /\ \A i \in 1 .. n - 1 : i \in 1 .. Len(recv)
    BY <1>2, <1>3, SMT
  <2>2. \A i \in 1 .. n - 1 : recv[i] \in Char
    BY <1>1, <2>1, ElementOfSeq
  <2> QED BY <2>1, <2>2, SubSeqProperties
<1>4. ASSUME Editor!Paced(text) PROVE recv = text
  <2>1. Len(text) \in 1 .. Chunk - 1
    BY <1>4 DEF Editor!Paced
  <2>2. Len(text) < Chunk /\ Len(text) # 0
    BY <2>1, MainThreadAssumption, SMT DEF Editor!ConsoleAssumption
  <2>3. text # <<>>
    BY <2>2, EmptySeq
  <2> QED BY <2>2, <2>3, LastChunkTypes DEF Editor!Received
<1>5. Editor!NewlineAt(recv) \in 0 .. Len(recv)
  BY <1>1, NewlinePlace
<1> QED BY <1>1, <1>2, <1>3, <1>4, <1>5

(* With or without its newline, the text of a step is added to the line,   *)
(* or makes it too long.                                                   *)
LEMMA LineGrows ==
    ASSUME EditorInv, NEW tail \in Seq(Char), ~garbled
    PROVE  LET new == Editor!append_cmdline(tail) IN
           IF new.overflow THEN Len(typed \o tail) > max_cmdline_size
           ELSE new.line = typed \o tail /\ Len(typed \o tail) <= max_cmdline_size
<1>1. /\ Len(cmdline) \in Nat /\ Len(typed) \in Nat /\ Len(tail) \in Nat
      /\ Len(typed \o tail) = Len(typed) + Len(tail)
      /\ max_cmdline_size \in Nat
  BY ConcatProperties, LenProperties, MainThreadAssumption DEF EditorInv,
     Editor!ConsoleAssumption
<1>2. CASE Len(cmdline) + Len(tail) <= max_cmdline_size
  <2>1. Editor!append_cmdline(tail) = [line |-> cmdline \o tail, overflow |-> cmdline_overflow]
    BY <1>2 DEF Editor!append_cmdline, Editor!Editor
  <2>2. CASE cmdline_overflow
    <3>1. Len(typed) > max_cmdline_size
      BY <2>2 DEF EditorInv, LineKept
    <3>2. Len(typed \o tail) > max_cmdline_size
      BY <1>1, <3>1, SMT
    <3> QED BY <2>1, <2>2, <3>2
  <2>3. CASE ~cmdline_overflow
    <3>1. cmdline = typed
      BY <2>3 DEF EditorInv, LineKept
    <3> QED BY <1>1, <1>2, <2>1, <2>3, <3>1
  <2> QED BY <2>2, <2>3
<1>3. CASE ~(Len(cmdline) + Len(tail) <= max_cmdline_size)
  <2>1. Editor!append_cmdline(tail) = [line |-> <<>>, overflow |-> TRUE]
    BY <1>3 DEF Editor!append_cmdline
  <2>2. Len(typed \o tail) > max_cmdline_size
    <3>1. Len(typed) > max_cmdline_size \/ cmdline = typed
      BY DEF EditorInv, LineKept
    <3> QED BY <1>1, <1>3, <3>1, SMT
  <2> QED BY <2>1, <2>2
<1> QED BY <1>2, <1>3

LEMMA AppendTypes ==
    ASSUME EditorInv, NEW tail \in Seq(Char)
    PROVE  /\ Editor!append_cmdline(tail).line \in Seq(Char)
           /\ Editor!append_cmdline(tail).overflow \in BOOLEAN
<1>1. /\ cmdline \o tail \in Seq(Char) /\ <<>> \in Seq(Char) /\ cmdline_overflow \in BOOLEAN
  BY ConcatProperties, EmptySeq DEF EditorInv
<1> QED BY <1>1 DEF Editor!append_cmdline, Editor!Editor

LEMMA InitEditor == Editor!Init => EditorInv
<1> SUFFICES ASSUME Editor!Init PROVE EditorInv
  OBVIOUS
<1>1. max_cmdline_size \in Nat
  BY MainThreadAssumption DEF Editor!ConsoleAssumption
<1>2. <<>> \in Seq(Char) /\ Len(<<>>) = 0
  BY EmptySeq
<1>3. 0 <= max_cmdline_size
  BY <1>1, SMT
<1> QED BY <1>2, <1>3 DEF Editor!Init, EditorInv, LineKept, RunAsTyped, Editor!RunAsTyped

LEMMA NextEditor == EditorInv /\ [Editor!Next]_(Editor!vars) => EditorInv'
<1> SUFFICES ASSUME EditorInv, [Editor!Next]_(Editor!vars) PROVE EditorInv'
  OBVIOUS
<1>1. CASE UNCHANGED Editor!vars
  BY <1>1 DEF Editor!vars, EditorInv, LineKept, RunAsTyped, Editor!RunAsTyped
<1>2. ASSUME NEW text \in Editor!Texts, NEW recv \in Editor!Received(text),
             Editor!Edits(text, recv)
      PROVE  EditorInv'
  <2> DEFINE p == Editor!NewlineAt(recv)
             head == IF p = 0 THEN recv ELSE SubSeq(recv, 1, p - 1)
             new == Editor!append_cmdline(head)
             paced == Editor!Paced(text)
  <2>1. \/ /\ p = 0
           /\ cmdline' = new.line
           /\ cmdline_overflow' = new.overflow
           /\ typed' = IF paced THEN typed \o text ELSE <<>>
           /\ garbled' = (garbled \/ ~paced)
           /\ last' = last
        \/ /\ p # 0
           /\ cmdline' = <<>>
           /\ cmdline_overflow' = FALSE
           /\ typed' = <<>>
           /\ garbled' = ~paced
           /\ last' = IF garbled \/ ~paced THEN last
                      ELSE [line |-> typed \o head,
                            ran |-> IF new.overflow THEN None ELSE new.line]
    BY <1>2 DEF Editor!Edits
  <2>2. /\ recv \in Seq(Char) /\ p \in 0 .. Len(recv) /\ Len(recv) \in Nat
        /\ \A n \in 0 .. Len(recv) : SubSeq(recv, 1, n - 1) \in Seq(Char)
        /\ paced => recv = text
    BY <1>2, RecvTypes
  <2>3. head \in Seq(Char) /\ text \in Seq(Char) /\ (p = 0 => head = recv)
    BY <1>2, <2>2, TextTypes
  <2> HIDE DEF p, head
  <2>4. new.line \in Seq(Char) /\ new.overflow \in BOOLEAN
    BY <2>3, AppendTypes
  <2>5. ~garbled => IF new.overflow THEN Len(typed \o head) > max_cmdline_size
                    ELSE new.line = typed \o head /\ Len(typed \o head) <= max_cmdline_size
    BY <2>3, LineGrows
  <2> HIDE DEF new
  <2>6. /\ typed \o text \in Seq(Char) /\ <<>> \in Seq(Char) /\ Len(<<>>) = 0
        /\ 0 <= max_cmdline_size
    <3>1. max_cmdline_size \in Nat
      BY MainThreadAssumption DEF Editor!ConsoleAssumption
    <3>2. 0 <= max_cmdline_size
      BY <3>1, SMT
    <3>3. typed \o text \in Seq(Char)
      BY <2>3, ConcatProperties DEF EditorInv
    <3> QED BY <3>2, <3>3, EmptySeq
  <2>7. /\ cmdline' \in Seq(Char) /\ typed' \in Seq(Char)
        /\ cmdline_overflow' \in BOOLEAN /\ garbled' \in BOOLEAN
    BY <2>1, <2>4, <2>6, Zenon DEF EditorInv
  <2>8. LineKept'
    <3>1. CASE p = 0
      <4>1. ~garbled' => /\ ~garbled
                         /\ typed' = typed \o head
                         /\ cmdline' = new.line /\ cmdline_overflow' = new.overflow
        BY <2>1, <2>2, <2>3, <3>1, Zenon
      <4> QED BY <2>5, <4>1 DEF LineKept
    <3>2. CASE p # 0
      <4>1. cmdline' = typed' /\ typed' = <<>> /\ ~cmdline_overflow'
        BY <2>1, <3>2, Zenon
      <4> QED BY <2>6, <4>1 DEF LineKept
    <3> QED BY <3>1, <3>2
  <2>9. RunAsTyped'
    <3>1. CASE last' = last
      BY <3>1 DEF EditorInv, RunAsTyped, Editor!RunAsTyped
    <3>2. CASE ~garbled /\ last' = [line |-> typed \o head,
                                    ran |-> IF new.overflow THEN None ELSE new.line]
      <4>1. CASE new.overflow
        <5>1. last'.ran = None /\ last'.line = typed \o head
          BY <3>2, <4>1
        <5>2. ~(Len(typed \o head) <= max_cmdline_size)
          <6>1. /\ Len(typed \o head) > max_cmdline_size
                /\ Len(typed \o head) \in Nat /\ max_cmdline_size \in Nat
            BY <2>3, <2>5, <3>2, <4>1, ConcatProperties, LenProperties, MainThreadAssumption
               DEF EditorInv, Editor!ConsoleAssumption
          <6> QED BY <6>1, SMT
        <5> QED BY <5>1, <5>2 DEF RunAsTyped, Editor!RunAsTyped
      <4>2. CASE ~new.overflow
        <5>1. last'.ran = typed \o head /\ last'.line = typed \o head
          BY <2>5, <3>2, <4>2
        <5> QED BY <2>5, <3>2, <4>2, <5>1 DEF RunAsTyped, Editor!RunAsTyped
      <4> QED BY <4>1, <4>2
    <3> QED BY <2>1, <3>1, <3>2, Zenon
  <2> QED BY <2>7, <2>8, <2>9 DEF EditorInv
<1> QED BY <1>1, <1>2 DEF Editor!Next, Editor!usb_receive_callback

LEMMA EditorSteps == [MainNext]_allvars => [Editor!Next]_(Editor!vars)
BY DEF MainNext, allvars, editor, Editor!vars

LEMMA EditorInvariance == MainSpec => []EditorInv
<1>1. MainInit => EditorInv
  BY InitEditor DEF MainInit
<1>2. EditorInv /\ [MainNext]_allvars => EditorInv'
  BY EditorSteps, NextEditor
<1> QED BY <1>1, <1>2, PTL DEF MainSpec

(* For every length of a line, and of what is read at a time: a line that  *)
(* arrived in time is run as it was typed or, if it is too long, not at    *)
(* all, even after a read that failed (console.c:330-339, 352-371).        *)
THEOREM LinesRunAsTyped == MainSpec => []RunAsTyped
<1>1. EditorInv => RunAsTyped
  BY DEF EditorInv
<1> QED BY <1>1, EditorInvariance, PTL
=============================================================================
