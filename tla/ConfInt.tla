------------------------------ MODULE ConfInt ------------------------------
(***************************************************************************)
(* read_conf_int of conf.c: the text that read_conf_string found becomes an *)
(* int by way of strtol, with the base left to strtol.                     *)
(***************************************************************************)
EXTENDS Integers, SequencesExt

CONSTANTS
    LONG_MAX,
    Missing     \* read_conf_string found nothing; or, no result

VARIABLES
    value_string,
    output,
    value_valid

Init ==
    /\ output = Missing       \* the callers' variables have no value yet
    /\ value_valid = Missing  \* not returned

Digits == <<"0", "1", "2", "3", "4", "5", "6", "7", "8", "9", "a", "b", "c", "d", "e", "f">>
DigitsOf(base) == {Digits[n] : n \in 1 .. base}
DigitValue(c) == (CHOOSE n \in DOMAIN Digits : Digits[n] = c) - 1

(* How many characters of a text are in a set before the first that is not. *)
Span(text, set) ==
    LET n == SelectInSeq(text, LAMBDA c : c \notin set)
    IN  IF n = 0 THEN Len(text) ELSE n - 1

From(text, n) == SubSeq(text, n + 1, Len(text))

Number(base, digits) ==
    LET sum[n \in 0 .. Len(digits)] ==
            IF n = 0 THEN 0 ELSE base * sum[n - 1] + DigitValue(digits[n])
    IN  sum[Len(digits)]

Clip(value) == IF value > LONG_MAX THEN LONG_MAX
               ELSE IF value < -LONG_MAX - 1 THEN -LONG_MAX - 1
               ELSE value

(* strtol with base 0: blanks, a sign, and the digits; a leading zero makes *)
(* them octal, 0x before a digit hexadecimal.  end is how many characters  *)
(* were taken, none if there are no digits.                                *)
strtol(text) ==
    LET tail == From(text, Span(text, {" ", "\r"}))
        signed == tail # <<>> /\ tail[1] \in {"+", "-"}
        rest == IF signed THEN Tail(tail) ELSE tail
        hex == Len(rest) > 2 /\ rest[1] = "0" /\ rest[2] = "x" /\ rest[3] \in DigitsOf(16)
        base == IF hex THEN 16 ELSE IF Len(rest) > 0 /\ rest[1] = "0" THEN 8 ELSE 10
        number == IF hex THEN From(rest, 2) ELSE rest
        n == Span(number, DigitsOf(base))
        value == Number(base, SubSeq(number, 1, n))
    IN  [value |-> Clip(IF signed /\ tail[1] = "-" THEN -value ELSE value),
         end |-> IF n = 0 THEN 0 ELSE Len(text) - Len(number) + n]

IsInteger_prefix(text) == strtol(text).end # 0  \* mutant: what follows the number is ignored

IsInteger(text) == strtol(text).end # 0 /\ strtol(text).end = Len(text)

NotFound ==
    /\ value_valid = Missing
    /\ value_string = Missing
    /\ value_valid' = FALSE
    /\ UNCHANGED <<value_string, output>>

(* The caller's variable is written whether or not the text is a number.   *)
Convert ==
    /\ value_valid = Missing
    /\ value_string # Missing
    /\ output' = strtol(value_string).value
    /\ value_valid' = IsInteger(value_string)
    /\ UNCHANGED value_string

Next == NotFound \/ Convert

-----------------------------------------------------------------------------
(* The text read by somebody who knows decimals only.                      *)
Decimal(text) == text # <<>> /\ Range(text) \subseteq DigitsOf(10)
DecimalValue(text) ==
    LET place[n \in 0 .. Len(text)] == IF n = 0 THEN 1 ELSE 10 * place[n - 1]
        sum[n \in 0 .. Len(text)] ==
            IF n = 0 THEN 0 ELSE sum[n - 1] + DigitValue(text[n]) * place[Len(text) - n]
    IN  sum[Len(text)]

(* A plain decimal number is taken for what it says, up to the limit of a  *)
(* long, and a text that is not a number to its very end is refused, the   *)
(* carriage return of a line from another system included.  Only blanks, a *)
(* sign and a leading zero make the program see a number where that reader *)
(* sees none, or another one (conf.c:82-88).                               *)
IntAsWritten ==
    value_valid # Missing /\ value_string # Missing =>
        LET plain == value_string[1] \notin {"0", "+", "-", " ", "\r"}
        IN  /\ plain => value_valid = Decimal(value_string)
            /\ plain /\ value_valid => output = Clip(DecimalValue(value_string))
            /\ value_valid => Last(value_string) \in DigitsOf(16)
=============================================================================
