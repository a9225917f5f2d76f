------------------------------- MODULE Lights -------------------------------
(***************************************************************************)
(* What the three LEDs tell.  Four handlers of main.c and report.c switch  *)
(* them without asking each other: the lights of a start that failed, the  *)
(* blinking after one that did not, the watchdog for the SIM card, and the *)
(* reporter, which lights the blue one while it is busy.                   *)
(***************************************************************************)
EXTENDS Integers

CONSTANT watchdog  \* is watchdog_interval positive

LightsAssumption == watchdog \in BOOLEAN

VARIABLES
    phase,                 \* off, failed, running
    console,               \* start_console was called
    red, green, blue,      \* is it lit
    bootup_blink_counter,
    blinking,              \* its timer exists
    sim,                   \* a SIM card was found when the watchdog looked last
    reporter_busy,
    settled                \* history: red and blue, if switched since the blinking

leds == <<red, green, blue>>
vars == <<phase, console, leds, bootup_blink_counter, blinking, sim, reporter_busy, settled>>

Init ==
    /\ phase = "off"
    /\ console = FALSE
    /\ red = FALSE /\ green = FALSE /\ blue = FALSE
    /\ bootup_blink_counter = 0
    /\ blinking = FALSE
    /\ sim = TRUE
    /\ reporter_busy = FALSE
    /\ settled = {}

Settles(led) == settled' = IF blinking THEN settled ELSE settled \cup {led}

Create_blinks(early, fails) ==  \* mutant: the blinking starts in any case
    /\ phase = "off"
    /\ early => fails
    /\ console' = ~early
    /\ phase' = IF fails THEN "failed" ELSE "running"
    /\ red' = fails /\ green' = fails /\ blue' = fails
    /\ blinking' = TRUE
    /\ UNCHANGED <<bootup_blink_counter, sim, reporter_busy, settled>>

(* VM_EVENT_CREATE: the LEDs are initialised dark.  At one of its early    *)
(* ends it lights all of them and starts no timer; at the first of these   *)
(* there is no console either.                                             *)
Create(early, fails) ==
    /\ phase = "off"
    /\ early => fails
    /\ console' = ~early
    /\ phase' = IF fails THEN "failed" ELSE "running"
    /\ red' = fails /\ green' = fails /\ blue' = fails
    /\ blinking' = ~fails
    /\ UNCHANGED <<bootup_blink_counter, sim, reporter_busy, settled>>

(* Is there another call after the one that left the counter there.        *)
More(counter) == counter <= 20

bootup_blink_cb ==
    /\ blinking
    /\ LET step == bootup_blink_counter % 5
       IN  /\ red' = (step \in {1, 4})
           /\ green' = (step \in {3, 4})
           /\ blue' = (step \in {2, 4})
    /\ bootup_blink_counter' = bootup_blink_counter + 1
    /\ blinking' = More(bootup_blink_counter')
    /\ UNCHANGED <<phase, console, sim, reporter_busy, settled>>

watchdog_cb(found) ==
    /\ phase = "running" /\ watchdog
    /\ sim' = found
    /\ red' = ~found
    /\ Settles("red")
    /\ UNCHANGED <<phase, console, green, blue, bootup_blink_counter, blinking, reporter_busy>>

(* A report or a delayed one is sent; its exchange is over.  After a start *)
(* that failed it takes the commands Rh+ and D to send something.          *)
Sends ==
    /\ phase = "running" \/ (phase = "failed" /\ console)
    /\ ~reporter_busy
    /\ reporter_busy' = TRUE
    /\ blue' = TRUE
    /\ Settles("blue")
    /\ UNCHANGED <<phase, console, red, green, bootup_blink_counter, blinking, sim>>

Done_dark ==  \* mutant: one of the completions forgets the light
    /\ reporter_busy
    /\ reporter_busy' = FALSE
    /\ Settles("blue")
    /\ UNCHANGED <<phase, console, leds, bootup_blink_counter, blinking, sim>>

Done ==
    /\ reporter_busy
    /\ reporter_busy' = FALSE
    /\ blue' = FALSE
    /\ Settles("blue")
    /\ UNCHANGED <<phase, console, red, green, bootup_blink_counter, blinking, sim>>

Next ==
    \/ \E early, fails \in BOOLEAN : Create(early, fails)
    \/ bootup_blink_cb
    \/ \E found \in BOOLEAN : watchdog_cb(found)
    \/ Sends
    \/ Done

Spec == Init /\ [][Next]_vars

-----------------------------------------------------------------------------
(* From the first time it is switched after the blinking, the blue LED     *)
(* says whether a report is on its way: each start of an exchange switches *)
(* it on (report.c:266, 303) and each way out off (160-161, 184-185).      *)
BlueTellsBusy == "blue" \in settled => blue = reporter_busy

(* And the red one what the watchdog saw last.                             *)
RedTellsSim == "red" \in settled => red = ~sim

(* A failed start is shown as long as the program runs: no timer goes on   *)
(* that would switch the LEDs (main.c:176-218).                            *)
FailureStays == phase = "failed" => red /\ green /\ (blue \/ "blue" \in settled)
=============================================================================
