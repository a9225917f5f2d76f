------------------------------- MODULE Hx711 -------------------------------
(***************************************************************************)
(* One measuring thread of measure.c and the HX711 converter it clocks by  *)
(* hand.  The converter is external: it is asleep while the clock line is  *)
(* kept high, wakes up measuring channel A with gain 128, pulls its data   *)
(* line low when a conversion is ready, shifts the value out with one      *)
(* pulse per bit, most significant first, and takes the pulses after the   *)
(* last bit as the choice of what to convert next.                         *)
(*                                                                         *)
(* Three things can spoil a measurement: wait_result gives up after some   *)
(* polls and its answer is ignored; and the thread, which has the lowest   *)
(* priority, may be kept waiting in the middle of a reading or of the      *)
(* setup pulses: with the clock high for the 60 us after which the         *)
(* converter falls asleep, or with the clock low for so long that the next *)
(* conversion is over, and the pulses to come shift that one out.          *)
(***************************************************************************)
EXTENDS Integers

CONSTANTS
    Width,   \* bits of a value (24 in the converter)
    Polls    \* the timeout_counter of wait_result (8 in the code)

ASSUME Hx711Assumption == Width \in Nat \ {0} /\ Polls \in Nat

Power[n \in 0 .. Width] == IF n = 0 THEN 1 ELSE 2 * Power[n - 1]  \* of two

Op == {"A128", "B32", "A64"}
Values == -Power[Width - 1] .. Power[Width - 1] - 1

VARIABLES
    op,               \* of the task copied for this measurement
    pc,               \* where the thread is in measurement
    timeout_counter,  \* of wait_result
    count,            \* bits read, or setup pulses given, so far
    result,           \* of read_result
    delivered,        \* what the callback got last
    gain,             \* what the converter converts, or has converted last
    ready,            \* a conversion is ready and not wholly read
    pulses,           \* since it was ready
    sample,           \* the value converted
    spoilt            \* this measurement timed out, or was held up

thread == <<op, pc, timeout_counter, count, result, delivered>>
chip == <<gain, ready, pulses, sample>>
vars == <<thread, chip, spoilt>>

Pc == {"standby", "wait_first", "read_first", "setup", "wait", "read", "callback"}

Init ==
    /\ op \in Op
    /\ pc = "standby"
    /\ timeout_counter = 0
    /\ count = 0
    /\ result = 0
    /\ delivered = 0
    /\ gain = "A128"
    /\ ready = FALSE
    /\ pulses = 0
    /\ sample = 0
    /\ spoilt = FALSE

-----------------------------------------------------------------------------
(* The converter, as the data sheet has it.                                *)
Asleep ==
    /\ gain' = "A128"
    /\ ready' = FALSE
    /\ pulses' = 0
    /\ UNCHANGED sample

(* The thread has given some of the pulses of a reading or a setup.        *)
UnderWay == pc = "setup" \/ (pc \in {"read_first", "read"} /\ count > 0)

(* A conversion is over, and is the one that is shifted out from now on.   *)
(* Between the last bit and the next measurement nobody looks at one.      *)
Convert ==
    /\ pc \notin {"standby", "callback"}
    /\ ready' = TRUE
    /\ pulses' = 0
    /\ sample' \in Values
    /\ spoilt' = (spoilt \/ UnderWay)
    /\ UNCHANGED <<thread, gain>>

(* What the data line says after n pulses: it is low when a conversion is  *)
(* ready, then carries the bits, and is high again from the next pulse on. *)
Bit(value, n) == ((value + Power[Width]) \div Power[Width - n]) % 2

DataLine(n) ==
    CASE ready /\ n = 0 -> 0
      [] ready /\ n \in 1 .. Width -> Bit(sample, n)
      [] OTHER -> 1

Selected(n) == CASE n = Width + 1 -> "A128" [] n = Width + 2 -> "B32" [] n = Width + 3 -> "A64"

(* One pulse: the next bit, or the choice of the next conversion, or - if  *)
(* there is nothing to shift out - no effect.                              *)
Pulse ==
    /\ \/ /\ ready /\ pulses < Width
          /\ pulses' = pulses + 1
          /\ UNCHANGED <<gain, ready>>
       \/ /\ pulses \in Width .. Width + 2
          /\ pulses' = pulses + 1
          /\ gain' = Selected(pulses + 1)
          /\ ready' = FALSE
       \/ /\ ~ready /\ pulses \notin Width .. Width + 2
          /\ UNCHANGED <<gain, ready, pulses>>
    /\ UNCHANGED sample

-----------------------------------------------------------------------------
(* get_task, and the beginning of wait_result: the clock goes low, which   *)
(* wakes the converter up.  Any op may have been put in the slot.          *)
Begin ==
    /\ pc = "standby"
    /\ op' \in Op
    /\ pc' = IF op' = "A128" THEN "wait" ELSE "wait_first"
    /\ timeout_counter' = Polls
    /\ spoilt' = FALSE
    /\ UNCHANGED <<count, result, delivered, chip>>

After == [wait_first |-> "read_first", wait |-> "read"]

(* wait_result: one look at the data line, and a sleep if it is high.      *)
wait_result ==
    /\ pc \in {"wait_first", "wait"}
    /\ \/ /\ DataLine(pulses) = 0 \/ timeout_counter = 0
          /\ pc' = After[pc]
          /\ spoilt' = (spoilt \/ DataLine(pulses) = 1)
          /\ UNCHANGED timeout_counter
       \/ /\ DataLine(pulses) = 1 /\ timeout_counter > 0
          /\ timeout_counter' = timeout_counter - 1
          /\ UNCHANGED <<pc, spoilt>>
    /\ count' = 0
    /\ UNCHANGED <<op, result, delivered, chip>>

(* read_bit in read_result: the first bit is the sign.                     *)
Shifted(bit) == IF count = 0 THEN -bit ELSE 2 * result + bit

ReadBit ==
    /\ pc \in {"read_first", "read"}
    /\ result' = Shifted(DataLine(pulses + 1))
    /\ Pulse
    /\ \/ /\ count + 1 < Width
          /\ count' = count + 1
          /\ UNCHANGED pc
       \/ /\ count + 1 = Width
          /\ count' = 0
          /\ pc' = IF pc = "read" THEN "callback" ELSE "setup"
    /\ UNCHANGED <<op, timeout_counter, delivered, spoilt>>

(* Mutant: the two other inputs are mixed up.                              *)
setup_pulses_swapped == CASE op = "A128" -> 1 [] op = "A64" -> 2 [] op = "B32" -> 3

setup_pulses == CASE op = "A128" -> 1 [] op = "A64" -> 3 [] op = "B32" -> 2

(* read_bit in clock_setup_pulses; after the last, wait_result starts.     *)
SetupPulse ==
    /\ pc = "setup"
    /\ Pulse
    /\ count' = count + 1
    /\ \/ /\ count + 1 < setup_pulses
          /\ UNCHANGED <<pc, timeout_counter>>
       \/ /\ count + 1 = setup_pulses
          /\ pc' = "wait"
          /\ timeout_counter' = Polls
    /\ UNCHANGED <<op, result, delivered, spoilt>>

(* The callback gets the result, and enter_standby sends the converter to  *)
(* sleep.                                                                  *)
Callback ==
    /\ pc = "callback"
    /\ delivered' = result
    /\ pc' = "standby"
    /\ Asleep
    /\ UNCHANGED <<op, timeout_counter, count, result, spoilt>>

(* The thread does not run again in time while the clock is high.          *)
KeptWaiting ==
    /\ pc \in {"read_first", "setup", "read"}
    /\ Asleep
    /\ spoilt' = TRUE
    /\ UNCHANGED thread

Next ==
    \/ Convert
    \/ Begin
    \/ wait_result
    \/ ReadBit
    \/ SetupPulse
    \/ Callback
    \/ KeptWaiting

Spec == Init /\ [][Next]_vars

-----------------------------------------------------------------------------
(* What a task asked for is what its callback gets: the value converted    *)
(* last, with the gain of the task, unless this very measurement was       *)
(* spoilt.  An earlier one that was does it no harm, however the thread    *)
(* and the converter fell out of step in it (measure.c:103-140, 169-178).  *)
DeliversConversion ==
    [][ Callback /\ ~spoilt => delivered' = sample /\ gain = op ]_vars
=============================================================================
