------------------------------ MODULE Startup ------------------------------
(***************************************************************************)
(* How VM_EVENT_CREATE gets a value from config.txt: read_conf_string, and *)
(* then the conversion that this value needs.                              *)
(***************************************************************************)
EXTENDS Conf

CONSTANTS MAX_HMAC_KEY_LENGTH, LONG_MAX,
    KeyName  \* the name of the key for the signatures; the others are integers

ASSUME StartupAssumption ==
    /\ MAX_HMAC_KEY_LENGTH \in Nat /\ LONG_MAX \in Nat
    /\ KeyName \in Names
    /\ output_buffer_size[KeyName] = 2 * MAX_HMAC_KEY_LENGTH + 1

VARIABLES
    output, value_valid,  \* of read_conf_int
    hmac, result          \* of convert_hmac_key_str

Integer == INSTANCE ConfInt WITH value_string <- output_buffer
HmacKey == INSTANCE HmacKey WITH hmac_str <- output_buffer

allvars == <<vars, output, value_valid, hmac, result>>

StartInit == Init /\ Integer!Init /\ HmacKey!Init

Reads == Next /\ UNCHANGED <<output, value_valid, hmac, result>>

Asked == <<file, variable_name, conf_data, key, pc>>

ReadsInt ==
    /\ pc = "closed" /\ variable_name # KeyName
    /\ Integer!Next
    /\ UNCHANGED <<Asked, hmac, result>>

(* Without a key there is no start.                                        *)
ConvertsKey ==
    /\ pc = "closed" /\ variable_name = KeyName /\ output_buffer # Missing
    /\ HmacKey!Next
    /\ UNCHANGED <<Asked, output, value_valid>>

StartNext == Reads \/ ReadsInt \/ ConvertsKey

StartSpec == StartInit /\ [][StartNext]_allvars

-----------------------------------------------------------------------------
(* What is read as an integer, of the file or of the defaults, is what the *)
(* text says to somebody who knows decimals (conf.c:82-88).                *)
IntAsWritten == Integer!IntAsWritten

(* And what is made of the key's text is what the server makes of it       *)
(* (main.c:54-81).                                                         *)
SameAsServer == HmacKey!SameAsServer
=============================================================================
