-------------------------------- MODULE Conf --------------------------------
(***************************************************************************)
(* conf.c: the value of a key in config.txt, or else in conf_defaults,     *)
(* which is appended to the file's text before strtok takes it apart.      *)
(* Characters matter here only as "=", the end of a line, and the others.  *)
(***************************************************************************)
EXTENDS Integers, SequencesExt

CONSTANTS
    Letters,            \* the other characters
    Files,              \* bound: the lists of lines that config.txt consists of
    conf_defaults,
    Names,              \* the names asked for
    output_buffer_size, \* of the caller who asks for a name
    Missing             \* config.txt cannot be read; or, no result

Eq == "="
Newline == "\n"
Char == Letters \cup {Eq, Newline}

ASSUME ConfAssumption ==
    /\ {Eq, Newline} \cap Letters = {}
    /\ \A lines \in Files : lines \in Seq(Seq(Char))
    /\ conf_defaults \in Seq(Char)
    /\ Names \subseteq Seq(Letters)
    /\ output_buffer_size \in [Names -> Nat]
    /\ Missing \notin Seq(Char)

VARIABLES
    file,           \* config.txt
    variable_name,  \* the key asked for
    conf_data,      \* the copy that strtok works on, less what it is done with
    key,
    output_buffer,
    pc

vars == <<file, variable_name, conf_data, key, output_buffer, pc>>

(* The last line need not be ended.                                        *)
ConfigTxt(lines, ended) ==
    LET text == FlattenSeq([n \in DOMAIN lines |-> lines[n] \o <<Newline>>])
    IN  IF ended \/ text = <<>> THEN text ELSE Front(text)

Init ==
    /\ \/ file = Missing
       \/ \E lines \in Files, ended \in BOOLEAN : file = ConfigTxt(lines, ended)
    /\ variable_name \in Names
    /\ conf_data = <<>>
    /\ key = Missing
    /\ output_buffer = Missing
    /\ pc = "open"

WithDefaults_first(text) == conf_defaults \o text  \* mutant: they come first

WithDefaults(text) == text \o conf_defaults

(* open_conf, and the part of read_conf_string before the loop.  There are *)
(* no defaults without a file.                                             *)
Open ==
    /\ pc = "open"
    /\ \/ /\ file = Missing
          /\ pc' = "closed"
          /\ UNCHANGED conf_data
       \/ /\ file # Missing
          /\ conf_data' = WithDefaults(file)
          /\ pc' = "key"
    /\ UNCHANGED <<file, variable_name, key, output_buffer>>

(* The first i from which text[i] is a delimiter, or is none; Len(text) + 1 *)
(* if there is no such i.                                                  *)
FirstIs(text, delimiter, is) ==
    LET i == SelectInSeq(text, LAMBDA c : (c = delimiter) = is)
    IN  IF i = 0 THEN Len(text) + 1 ELSE i

(* strtok skips delimiters; the token goes up to the next one, which is    *)
(* used up with it.                                                        *)
strtok(text, delimiter) ==
    LET tail == SubSeq(text, FirstIs(text, delimiter, FALSE), Len(text))
        n == FirstIs(tail, delimiter, TRUE)
    IN  [token |-> IF tail = <<>> THEN Missing ELSE SubSeq(tail, 1, n - 1),
         rest |-> SubSeq(tail, n + 1, Len(tail))]

Key ==
    /\ pc = "key"
    /\ LET found == strtok(conf_data, Eq)
       IN  /\ key' = found.token
           /\ conf_data' = found.rest
           /\ pc' = IF found.token = Missing THEN "closed" ELSE "value"
    /\ UNCHANGED <<file, variable_name, output_buffer>>

Fits(value) == Len(value) < output_buffer_size[variable_name]

Value_givesup ==  \* mutant: a value that does not fit ends the search
    /\ pc = "value"
    /\ LET found == strtok(conf_data, Newline)
       IN  /\ conf_data' = found.rest
           /\ IF found.token # Missing /\ key = variable_name
              THEN output_buffer' = (IF Fits(found.token) THEN found.token ELSE Missing) /\ pc' = "closed"
              ELSE UNCHANGED output_buffer /\ pc' = "key"
    /\ UNCHANGED <<file, variable_name, key>>

Value ==
    /\ pc = "value"
    /\ LET found == strtok(conf_data, Newline)
       IN  /\ conf_data' = found.rest
           /\ IF found.token # Missing /\ key = variable_name /\ Fits(found.token)
              THEN output_buffer' = found.token /\ pc' = "closed"
              ELSE UNCHANGED output_buffer /\ pc' = "key"
    /\ UNCHANGED <<file, variable_name, key>>

Next == Open \/ Key \/ Value

Spec == Init /\ [][Next]_vars

-----------------------------------------------------------------------------
(* What the text of a file says: where its lines begin and end, and for a  *)
(* proper line, which has a key and a value, these two.                    *)
LineStarts(text) == {s \in DOMAIN text : s = 1 \/ text[s - 1] = Newline}
Line(text, s) ==
    LET tail == SubSeq(text, s, Len(text))
    IN  SubSeq(tail, 1, FirstIs(tail, Newline, TRUE) - 1)
EqAt(line) == FirstIs(line, Eq, TRUE)
WellFormed(line) == EqAt(line) \in 2 .. Len(line) - 1
KeyOf(line) == SubSeq(line, 1, EqAt(line) - 1)
ValueOf(line) == SubSeq(line, EqAt(line) + 1, Len(line))

(* The defaults are proper lines (conf_defaults.h).                        *)
ASSUME DefaultsAssumption == \A s \in LineStarts(conf_defaults) : WellFormed(Line(conf_defaults, s))

Ended(text) == text = <<>> \/ Last(text) = Newline

Answers(text, s) == LET line == Line(text, s) IN
    WellFormed(line) /\ KeyOf(line) = variable_name /\ Fits(ValueOf(line))

(* From a file of proper lines comes the value of the first line with the  *)
(* key that fits the buffer, from the defaults if the file has none, and   *)
(* nothing if they have none either (conf.c:56-66).  A last line that is   *)
(* not ended and the first default are one line then, whose value is the   *)
(* rest of both: no other default is lost (conf.c:55).                     *)
FileThenDefaults ==
    pc = "closed" /\ file # Missing
        /\ (\A s \in LineStarts(file) : WellFormed(Line(file, s)))
    => LET text == file \o conf_defaults
           found == {s \in LineStarts(text) : Answers(text, s)}
       IN  output_buffer = IF found = {} THEN Missing ELSE ValueOf(Line(text, Min(found)))

(* A line that has the name and a "=", maybe behind other "="s.            *)
HasName(line) ==
    \E n \in 0 .. Len(line) : IsPrefix([i \in 1 .. n |-> Eq] \o variable_name \o <<Eq>>, line)

(* A damaged line - without "=", key or value - hides no more than the     *)
(* line below it: what is found is the value of a proper line with the     *)
(* name, and of none below the first that has a proper line above it.      *)
(* Unless a damaged line has the name itself: after "name=" the next line  *)
(* is taken for its value, whatever it is (conf.c:56-66).                  *)
DamageIsLocal ==
    pc = "closed" /\ file # Missing /\ Ended(file) =>
        \A s \in LineStarts(file) :
            /\ Answers(file, s)
            /\ \A r \in LineStarts(file) : r < s /\ ~WellFormed(Line(file, r)) =>
                  /\ \E q \in LineStarts(file) : q > r /\ q < s
                  /\ ~HasName(Line(file, r))
            => \E r \in LineStarts(file) :
                  r <= s /\ Answers(file, r) /\ output_buffer = ValueOf(Line(file, r))
=============================================================================
