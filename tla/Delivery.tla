------------------------------ MODULE Delivery ------------------------------
(***************************************************************************)
(* How reports get from the device to the web server: report.c on top of   *)
(* telecom.c, driven by the timers main.c starts, with someone at the USB  *)
(* console who may use telecom.c as well, the web server at the other end, *)
(* restarts, and everything that may fail on the way.                      *)
(***************************************************************************)
EXTENDS Report

CONSTANTS
    Console,  \* is anybody typing at the console
    Budget    \* bound: how often each fault may happen

(* Wedging faults end a report's exchange without a call of done_cb;       *)
(* repeating ones make the device send a report the server already has.    *)
Wedging == {"unreadable", "refused", "terminated"}
Repeating == {"failed", "undeleted", "power"}
FaultKind == Wedging \cup Repeating \cup {"torn", "unopened", "rejected"}

ASSUME DeliveryAssumption ==
    /\ Console \in BOOLEAN
    /\ Budget \in [FaultKind -> Nat]
    /\ Callback = {"http_done_callback", "http_done_callback_delayed", "console"}

VARIABLES
    faults,    \* how often each fault has happened
    received,  \* how often the server stored each report; 2 is "more than once"
    rejected,  \* the reports it answered with 404
    stored,    \* the reports that were completely written to a file
    clashed,   \* the reports whose file name was given to two of them
    mixed      \* console and reporter used telecom.c at the same time

world == <<faults, received, rejected>>
history == <<stored, clashed, mixed>>
vars == <<telecom, report, world, history>>

Init ==
    /\ TelecomInit
    /\ ReportInit
    /\ faults = [k \in FaultKind |-> 0]
    /\ received = [r \in Reports |-> 0]
    /\ rejected = {}
    /\ stored = {}
    /\ clashed = {}
    /\ mixed = FALSE

Fault(kind) ==
    /\ faults[kind] < Budget[kind]
    /\ faults' = [faults EXCEPT ![kind] = @ + 1]

FaultUnless(fine, kind) == IF fine THEN UNCHANGED faults ELSE Fault(kind)

ReportCallback == {"http_done_callback", "http_done_callback_delayed"}

(* The report the new one shares its name with: it is still in its file or *)
(* on its way.                                                             *)
SameName(t) ==
    {files[t]} \cup (IF reporter_busy /\ current_report_filename = t THEN {made + 1} ELSE {})

ReportTimer(t, outcome) ==
    /\ report_timer_callback(t, outcome)
    /\ FaultUnless(outcome = "whole", outcome)
    /\ stored' = IF outcome = "whole" THEN stored \cup {made + 1} ELSE stored
    /\ clashed' = clashed \cup (SameName(t) \cap Reports)
    /\ mixed' = (mixed \/ (~reporter_busy /\ done_cb = "console" /\ Active # {}))
    /\ UNCHANGED <<received, rejected>>

SendDelayed(t, readable) ==
    /\ send_delayed_report(t, readable)
    /\ FaultUnless(readable, "unreadable")
    /\ mixed' = (mixed \/ (readable /\ done_cb = "console" /\ Active # {}))
    /\ UNCHANGED <<received, rejected, stored, clashed>>

SetChannelCb(x, accepted) ==
    /\ https_set_channel_cb(x, accepted)
    /\ FaultUnless(accepted, "refused")
    /\ UNCHANGED <<report, received, rejected, history>>

(* index.php stores a report or answers 404; anything else gets a page or  *)
(* a 404, which makes no difference to the device.                         *)
ServerAnswers(x, accepted) ==
    /\ Answer(x)
    /\ \/ /\ message[x] \in Reports
          /\ FaultUnless(accepted, "rejected")
          /\ received' = [received EXCEPT ![message[x]] =
                            IF accepted /\ @ < 2 THEN @ + 1 ELSE @]
          /\ rejected' = IF accepted THEN rejected ELSE rejected \cup {message[x]}
       \/ /\ message[x] \notin Reports
          /\ UNCHANGED world
    /\ UNCHANGED <<report, history>>

(* What the call of done_cb at the end of an exchange does.                *)
Completed(ok, deleted) ==
    \/ done_cb = "http_done_callback" /\ http_done_callback(ok, deleted)
    \/ done_cb = "http_done_callback_delayed" /\ http_done_callback_delayed(ok, deleted)
    \/ done_cb = "console" /\ deleted /\ UNCHANGED report

(* At most one thing goes wrong in a step: a failed exchange deletes none. *)
Outcome(ok, deleted) ==
    /\ ok \/ deleted
    /\ FaultUnless(ok /\ deleted, IF ok THEN "undeleted" ELSE "failed")

ResponseCb(x, ok, deleted) ==
    /\ \/ /\ https_response_cb(x, ok, FALSE)
          /\ Completed(ok, deleted)
          /\ Outcome(ok, deleted)
       \/ /\ ok /\ deleted
          /\ https_response_cb(x, ok, TRUE)
          /\ UNCHANGED <<report, faults>>
    /\ UNCHANGED <<received, rejected, history>>

ReadContentCb(x, ok, deleted) ==
    /\ \/ /\ https_read_content_cb(x, FALSE)
          /\ Completed(ok, deleted)
          /\ Outcome(ok, deleted)
       \/ /\ ok /\ deleted
          /\ https_read_content_cb(x, TRUE)
          /\ UNCHANGED <<report, faults>>
    /\ UNCHANGED <<received, rejected, history>>

Termination ==
    /\ https_termination_cb
    /\ Fault("terminated")
    /\ UNCHANGED <<report, received, rejected, history>>

(* The commands Xg and Xp; Rh+ and Rh-; Q.  (D is SendDelayed.)            *)
ConsoleRequest ==
    /\ Console
    /\ http_get("console") \/ http_post(Other, "console")
    /\ mixed' = (mixed \/ Active # {})
    /\ UNCHANGED <<report, world, stored, clashed>>

ConsoleReportHttp(on) ==
    /\ Console
    /\ set_http_report(on)
    /\ UNCHANGED <<telecom, world, history>>

ConsoleReboot ==
    /\ Console
    /\ Reboot
    /\ UNCHANGED <<telecom, world, history>>

(* The program starts over with nothing left but its files.                *)
FreshStart ==
    /\ TelecomRestart
    /\ ReportRestart
    /\ UNCHANGED <<received, rejected, history>>

Restart ==
    /\ rebooting
    /\ FreshStart
    /\ UNCHANGED faults

PowerCut ==
    /\ FreshStart
    /\ Fault("power")

ResendTimer == \E t \in Time, readable \in BOOLEAN : SendDelayed(t, readable)

Service(x) ==
    \/ \E accepted \in BOOLEAN : SetChannelCb(x, accepted)
    \/ \E accepted \in BOOLEAN : ServerAnswers(x, accepted)
    \/ \E ok, deleted \in BOOLEAN : ResponseCb(x, ok, deleted)
    \/ \E ok, deleted \in BOOLEAN : ReadContentCb(x, ok, deleted)

Next ==
    \/ \E t \in Time, outcome \in {"whole", "torn", "unopened"} : ReportTimer(t, outcome)
    \/ ResendTimer
    \/ \E x \in Exchange : Service(x)
    \/ Termination
    \/ ConsoleRequest
    \/ \E on \in BOOLEAN : ConsoleReportHttp(on)
    \/ ConsoleReboot
    \/ Restart
    \/ PowerCut

(* main.c starts the resend timer with a positive resend_interval; the     *)
(* service answers every request it accepted; a reboot comes about.        *)
Fairness ==
    /\ WF_vars(ResendTimer)
    /\ \A x \in Exchange : WF_vars(Service(x))
    /\ WF_vars(Restart)

Spec == Init /\ [][Next]_vars
FairSpec == Spec /\ Fairness

-----------------------------------------------------------------------------
(* Every variable has its type.                                            *)
TypeOK ==
    /\ TelecomTypeOK
    /\ ReportTypeOK
    /\ faults \in [FaultKind -> Nat]
    /\ received \in [Reports -> 0 .. 2]
    /\ rejected \subseteq Reports
    /\ stored \subseteq Reports
    /\ clashed \subseteq Reports
    /\ mixed \in BOOLEAN

OnDisk(r) == \E t \in Time : files[t] = r
HeardOf(r) == received[r] > 0 \/ r \in rejected

(* A report that made it to a file stays there until the web server has    *)
(* answered it, whatever fails or restarts in between - as long as the     *)
(* console keeps out of the way, and no two reports got the same name      *)
(* (report.c:149-160, 179-184, 257-274).                                   *)
NoSilentLoss ==
    ~mixed => \A r \in stored \ clashed : OnDisk(r) \/ HeardOf(r)

(* What an exchange has sent, or would send if it was its turn now.        *)
InFlight(x) == IF stage[x] = "opening" THEN body ELSE message[x]

(* The file that the end of the exchange will delete is the one whose      *)
(* contents the exchange carries (report.c:268, 312).                      *)
DeletesWhatItSent ==
    ~mixed /\ done_cb \in ReportCallback /\ current_report_filename \in Time =>
        \A x \in Active :
            \/ files[current_report_filename] = InFlight(x)
            \/ files[current_report_filename] \notin Reports \ clashed

(* While the reporter has an exchange under way it has exactly one, and it *)
(* is busy (report.c:264-267, 301-304).                                    *)
OneAtATime ==
    ~mixed => /\ \A x, y \in Active : x = y
              /\ done_cb \in ReportCallback /\ Active # {} => reporter_busy

(* The reporter waits for an end that no exchange will bring about.        *)
Wedged == reporter_busy /\ Active = {}

(* It comes to that only after a file that could not be read, a request    *)
(* the service refused, or the termination of its agent.                   *)
WedgedOnlyByFault ==
    ~mixed /\ reporter_busy /\ (Active = {} \/ done_cb \notin ReportCallback) =>
        \E k \in Wedging : faults[k] > 0

(* The server stores a report twice only if an answer was lost, a          *)
(* delivered file could not be deleted, or the device restarted.           *)
NoNeedlessRepeat ==
    ~Console /\ (\A k \in Repeating : faults[k] = 0) =>
        \A r \in Reports : received[r] < 2

(* As long as nobody is at the console, the whole of it is an outbox: a    *)
(* stored report goes only after it was answered, and is not sent again    *)
(* once it is gone (report.c:149-151, 179-182, 264-268, 301-312).          *)
Place(r) ==
    IF r > made THEN "new"
    ELSE IF r \notin stored \ clashed THEN "adrift"
    ELSE IF OnDisk(r) THEN "kept"
    ELSE "gone"

Answers(r) == received[r] + (IF r \in rejected THEN 1 ELSE 0)

OB == INSTANCE Outbox WITH
        place <- [r \in Reports |-> Place(r)],
        heard <- [r \in Reports |-> Answers(r)]

ImplementsOutbox == OB!Spec

(* A report on disk does not stay there: it is sent again until the server *)
(* has answered it, and then its file goes (main.c:239-242).               *)
EventuallyAnswered ==
    \A r \in Reports : OnDisk(r) ~> ~OnDisk(r) /\ (HeardOf(r) \/ r \in clashed)

(* "The application should clear all information at termination, and start *)
(* again" (vmhttps.h:284).                                                 *)
StartsAgain == Wedged ~> ~Wedged
=============================================================================
