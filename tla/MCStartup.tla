----------------------------- MODULE MCStartup -----------------------------
(* Startup with two kinds of files: up to four lines, proper ones and      *)
(* others, and single lines with every value that reaches a conversion.    *)
(* The defaults have a value that no line has.                             *)
EXTENDS Startup

MCLines == {<<>>, <<"k">>, <<Eq>>, <<"k", Eq>>, <<Eq, "k">>, <<"k", Eq, "k">>,
            <<"k", "k", Eq, "k">>, <<"k", Eq, "k", "k", "k", "k", "k", "k">>, <<"k", Eq, Eq>>,
            <<Eq, "k", Eq, "k">>}

IntChars == {"0", "7", "9", "a", "x", " ", "-", "\r"}
KeyChars == {"0", "9", "a", "f", " ", "-", "g"}
Strings(chars) == UNION {[1 .. n -> chars] : n \in 1 .. 4}

MCFiles ==
    UNION {[1 .. n -> MCLines] : n \in 0 .. 4}
        \cup {<< <<"k", Eq>> \o value >> : value \in Strings(IntChars)}
        \cup {<< <<"k", "k", Eq>> \o value >> : value \in Strings(KeyChars)}
        \cup {<< <<"k", "k", Eq, "0", "0", "0", "0", c>> >> : c \in KeyChars}

MCLetters == {"k", "v"} \cup IntChars \cup KeyChars
MCDefaults == <<"k", Eq, "v", Newline, "k", "k", Eq, "v", Newline>>
MCNames == {<<"k">>, <<"k", "k">>}
MCKeyName == <<"k", "k">>
MCSizes == [name \in MCNames |-> IF name = MCKeyName THEN 5 ELSE 6]
=============================================================================
