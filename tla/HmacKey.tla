------------------------------ MODULE HmacKey ------------------------------
(***************************************************************************)
(* convert_hmac_key_str of main.c: the key in config.txt, two hexadecimal  *)
(* digits to the byte, becomes the bytes that reports are signed with.     *)
(* The web server gets its own from the same digits, by hex2bin.           *)
(***************************************************************************)
EXTENDS Integers, Sequences

CONSTANT MAX_HMAC_KEY_LENGTH  \* in bytes

VARIABLES
    hmac_str,
    hmac,   \* the bytes so far
    result  \* what is returned: the length, or -1

Pending == -2

Init ==
    /\ hmac = <<>>
    /\ result = Pending

Digits == <<"0", "1", "2", "3", "4", "5", "6", "7", "8", "9", "a", "b", "c", "d", "e", "f">>
IsDigit(c) == \E n \in DOMAIN Digits : Digits[n] = c
DigitValue(c) == (CHOOSE n \in DOMAIN Digits : Digits[n] = c) - 1

(* strtol(tmp_str, &tmp_end, 16) with two characters: does it take both of *)
(* them, and what is the low byte of its value.  A space or a sign may     *)
(* stand before the digit.                                                 *)
TakesBoth(c1, c2) == IsDigit(c2) /\ (IsDigit(c1) \/ c1 \in {" ", "+", "-"})

Byte_swapped(c1, c2) ==  \* mutant: the digits in the wrong order
    IF IsDigit(c1) THEN 16 * DigitValue(c2) + DigitValue(c1) ELSE DigitValue(c2)

Byte(c1, c2) ==
    CASE IsDigit(c1) -> 16 * DigitValue(c1) + DigitValue(c2)
      [] c1 = "-"    -> (-DigitValue(c2)) % 256
      [] OTHER       -> DigitValue(c2)

Return(value) == result' = value /\ UNCHANGED <<hmac_str, hmac>>

(* Never for a string that read_conf_string put into the caller's buffer.  *)
TooBig == (Len(hmac_str) + 1) \div 2 > MAX_HMAC_KEY_LENGTH

(* The first digit of an odd number of them has tmp_str[0], which is zero, *)
(* before it: strtol gets an empty string.                                 *)
Refuse == result = Pending /\ (TooBig \/ Len(hmac_str) % 2 = 1) /\ Return(-1)

Convert ==
    /\ result = Pending
    /\ ~TooBig /\ Len(hmac_str) % 2 = 0
    /\ LET str_pos == 2 * Len(hmac)
           c1 == hmac_str[str_pos + 1]
           c2 == hmac_str[str_pos + 2]
       IN  \/ /\ str_pos >= Len(hmac_str)
              /\ Return(Len(hmac))
           \/ /\ str_pos < Len(hmac_str)
              /\ TakesBoth(c1, c2)
              /\ hmac' = Append(hmac, Byte(c1, c2))
              /\ UNCHANGED <<hmac_str, result>>
           \/ /\ str_pos < Len(hmac_str)
              /\ ~TakesBoth(c1, c2)
              /\ Return(-1)

Next == Refuse \/ Convert

-----------------------------------------------------------------------------
hex2bin(str) ==
    [n \in 1 .. Len(str) \div 2 |-> 16 * DigitValue(str[2 * n - 1]) + DigitValue(str[2 * n])]

(* For a string of digits, the device has the bytes the server has, or it  *)
(* refuses to start: an odd number of digits is refused although the code  *)
(* has an arm for it (main.c:54-65, web/index.php:31-37).                  *)
SameAsServer ==
    result # Pending /\ (\A n \in DOMAIN hmac_str : IsDigit(hmac_str[n])) =>
        IF Len(hmac_str) % 2 = 0 /\ Len(hmac_str) <= 2 * MAX_HMAC_KEY_LENGTH
        THEN result = Len(hmac) /\ hmac = hex2bin(hmac_str)
        ELSE result = -1
=============================================================================
