----------------------------- MODULE MainThread -----------------------------
(***************************************************************************)
(* Four callbacks of the main thread with state of their own: the report   *)
(* timer's loop, the line editor, telecom's composition of requests, and   *)
(* whoever switches the LEDs.  They share nothing that these modules       *)
(* speak of, so what one of them does among the others is what it does     *)
(* alone: one is chosen, the others stand still.                           *)
(***************************************************************************)
EXTENDS ReportDrain

CONSTANTS
    Letters, Chunk, max_cmdline_size, MaxArrived, MaxLine,
    Hosts, Paths, Bodies, Replies, Counts, Widths, MaxRequests,
    watchdog

VARIABLES
    cmdline, cmdline_overflow, typed, garbled, last,
    url, headers, body, content_length, asked, opening, waiting, sent, replaced,
    phase, console, red, green, blue, bootup_blink_counter, blinking, sim, reporter_busy, settled,
    chosen

editor == <<cmdline, cmdline_overflow, typed, garbled, last>>
request == <<url, headers, body, content_length, asked, opening, waiting, sent, replaced>>
leds == <<phase, console, red, green, blue, bootup_blink_counter, blinking, sim, reporter_busy, settled>>

Editor == INSTANCE Console
Request == INSTANCE Compose
LEDs == INSTANCE Lights

ASSUME MainThreadAssumption ==
    /\ Editor!ConsoleAssumption
    /\ Request!ComposeAssumption
    /\ LEDs!LightsAssumption

allvars == <<vars, editor, request, leds, chosen>>

MainInit ==
    /\ DrainInit /\ Editor!Init /\ Request!Init /\ LEDs!Init
    /\ chosen \in {"reporter", "console", "telecom", "leds"}

MainNext ==
    \/ /\ chosen = "reporter" /\ DrainNext
       /\ UNCHANGED <<editor, request, leds, chosen>>
    \/ /\ chosen = "console" /\ Editor!Next
       /\ UNCHANGED <<vars, request, leds, chosen>>
    \/ /\ chosen = "telecom" /\ Request!Next
       /\ UNCHANGED <<vars, editor, leds, chosen>>
    \/ /\ chosen = "leds" /\ LEDs!Next
       /\ UNCHANGED <<vars, editor, request, chosen>>

MainSpec == MainInit /\ [][MainNext]_allvars

-----------------------------------------------------------------------------
(* A line that arrived in time is run as it was typed, in however many     *)
(* parts, if there is room for it, and not at all otherwise, whatever      *)
(* became of the lines before it (console.c:330-339, 352-371).             *)
RunAsTyped == Editor!RunAsTyped

(* A request's headers and body agree when they are passed on, unless a    *)
(* reply was copied over them (telecom.c:34-37, 212, 263-264).             *)
ContentLengthTrue == Request!ContentLengthTrue

(* A report is sent whole, whatever its values (report.c:219,              *)
(* telecom.c:221).                                                         *)
ReportsWhole == Request!ReportsWhole

(* The blue LED says whether a report is on its way, from the first time   *)
(* it is switched after the blinking (report.c:160-161, 184-185, 266, 303).*)
BlueTellsBusy == LEDs!BlueTellsBusy

(* A failed start is shown as long as the program runs (main.c:176-218).   *)
FailureStays == LEDs!FailureStays
=============================================================================
