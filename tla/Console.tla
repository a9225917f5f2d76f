------------------------------ MODULE Console ------------------------------
(***************************************************************************)
(* The line editor of console.c.  Characters arrive from USB, some at a    *)
(* time; the callback reads them in chunks and appends them to cmdline, a  *)
(* line that is ended is run unless it was too long.                       *)
(*                                                                         *)
(* The while around vm_dcl_read has no braces: only the chunk read last is *)
(* looked at, and if nothing could be read, what happened to lie on the    *)
(* stack.  append_cmdline writes a zero one place behind the end of what   *)
(* it is given, which is where the text after a newline begins.            *)
(***************************************************************************)
EXTENDS Integers, SequencesExt

CONSTANTS
    Letters,           \* what lines are made of
    Chunk,             \* 8: so much is read at a time, into Chunk + 1 places
    max_cmdline_size,
    MaxArrived,        \* bound: so much arrives before the callback runs, or lies in recv
    MaxLine,           \* bound: so long is a line that is typed
    None

Newline == "\n"
Texts == UNION {[1 .. n -> Letters \cup {Newline}] : n \in 0 .. MaxArrived}

ConsoleAssumption ==
    /\ Newline \notin Letters
    /\ Chunk \in Nat \ {0}
    /\ {max_cmdline_size, MaxArrived, MaxLine} \subseteq Nat
    /\ None \notin Seq(Letters)

VARIABLES
    cmdline,
    cmdline_overflow,
    typed,    \* history: the line somebody is typing
    garbled,  \* history: it lost characters, or got some nobody typed
    last      \* history: the last line typed, and what was run of it

vars == <<cmdline, cmdline_overflow, typed, garbled, last>>

Init ==
    /\ cmdline = <<>>
    /\ cmdline_overflow = FALSE
    /\ typed = <<>>
    /\ garbled = FALSE
    /\ last = [line |-> <<>>, ran |-> <<>>]

(* cmdline and cmdline_overflow, together: append_cmdline's effect.        *)
Editor == [line |-> cmdline, overflow |-> cmdline_overflow]

append_cmdline_resumes(new_tail) ==  \* mutant: the overflow is forgotten
    IF Len(cmdline) + Len(new_tail) <= max_cmdline_size
    THEN [Editor EXCEPT !.line = @ \o new_tail]
    ELSE [line |-> <<>>, overflow |-> FALSE]

append_cmdline(new_tail) ==
    IF Len(cmdline) + Len(new_tail) <= max_cmdline_size
    THEN [Editor EXCEPT !.line = @ \o new_tail]
    ELSE [line |-> <<>>, overflow |-> TRUE]

LastChunk(text) == SubSeq(text, ((Len(text) - 1) \div Chunk) * Chunk + 1, Len(text))

NewlineAt(text) == SelectInSeq(text, LAMBDA c : c = Newline)

(* What recv holds when vm_dcl_read fails or has nothing at first: it was  *)
(* never written, so anything up to the next zero on the stack.  Else what *)
(* was read last.                                                          *)
Received(text) == IF text = <<>> THEN Texts ELSE {LastChunk(text)}

(* Does this text arrive in a way that nothing is lost.                    *)
Paced(text) ==
    /\ Len(text) \in 1 .. Chunk - 1
    /\ LET p == NewlineAt(text)
       IN  p # 0 => \A i \in p .. Len(text) : text[i] = Newline

(* The loop over newlines ends with the first: append_cmdline puts a zero  *)
(* where it goes on.  What stands behind it is lost.                       *)
Edits(text, recv) ==
    LET p == NewlineAt(recv)
        head == IF p = 0 THEN recv ELSE SubSeq(recv, 1, p - 1)
        new == append_cmdline(head)
    IN  \/ /\ p = 0
           /\ cmdline' = new.line
           /\ cmdline_overflow' = new.overflow
           /\ typed' = IF Paced(text) THEN typed \o text ELSE <<>>
           /\ garbled' = (garbled \/ ~Paced(text))
           /\ UNCHANGED last
        \/ /\ p # 0
           /\ cmdline' = <<>>
           /\ cmdline_overflow' = FALSE
           /\ typed' = <<>>
           /\ garbled' = ~Paced(text)
           /\ last' = IF garbled \/ ~Paced(text) THEN last
                      ELSE [line |-> typed \o head,
                            ran |-> IF new.overflow THEN None ELSE new.line]

usb_receive_callback(text) == \E recv \in Received(text) : Edits(text, recv)

Next ==
    \E text \in Texts :
        /\ Len(typed) + Len(SelectSeq(text, LAMBDA c : c # Newline)) <= MaxLine
        /\ usb_receive_callback(text)

Spec == Init /\ [][Next]_vars

-----------------------------------------------------------------------------
(* A line that arrived in time is run as it was typed, in however many     *)
(* parts, if there is room for it, and no part of it is run if there is    *)
(* not.  A line that lost some characters, or got what lay on the stack,   *)
(* does the next one no harm (console.c:330-339, 352-371).                 *)
RunAsTyped == last.ran = IF Len(last.line) <= max_cmdline_size THEN last.line ELSE None
=============================================================================
