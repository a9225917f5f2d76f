---------------------------- MODULE AfifoLocked ----------------------------
(***************************************************************************)
(* The operations of the afifo statement by statement: the measuring       *)
(* thread writes, and at last destroys the afifo; the main thread reads.   *)
(* What makes an operation look like one step of Afifo is the mutex in the *)
(* struct, taken at its beginning and released on every way out.           *)
(***************************************************************************)
EXTENDS Integers

CONSTANTS bin_size, output_buffer_size, Values, None

ASSUME LockedAssumption ==
    /\ bin_size \in Nat \ {0}
    /\ output_buffer_size \in Nat \ {0}
    /\ Values \subseteq Int
    /\ None \notin Values

VARIABLES
    fields,     \* of the struct, but for the mutex
    mutex,      \* who holds it
    pc,         \* where the writer is in afifo_write, the reader in afifo_read
    local,      \* value and head of the writer, *value of the reader
    out,        \* what the last afifo_read returned
    before      \* history: the fields when the mutex was taken

vars == <<fields, mutex, pc, local, out, before>>

BinIndex == 0 .. bin_size - 1
Slot == 0 .. output_buffer_size - 1

Init ==
    /\ fields = [bin |-> [i \in BinIndex |-> 0], bin_head |-> 0,
                 output_buffer |-> [i \in Slot |-> 0], head |-> 0, tail |-> 0]
    /\ mutex = "free"
    /\ pc = [writer |-> "idle", reader |-> "idle"]
    /\ local = [value |-> None, head |-> 0, result |-> None]
    /\ out = None
    /\ before = fields

Advance(index) == (index + 1) % output_buffer_size

Goto(who, from, to) == pc[who] = from /\ pc' = [pc EXCEPT ![who] = to]

Lock(who) ==
    /\ mutex = "free"
    /\ mutex' = who
    /\ before' = fields
    /\ UNCHANGED <<fields, out>>

Unlock ==
    /\ mutex' = "free"
    /\ UNCHANGED <<fields, local, before>>

(* A statement in between, which leaves the struct with new fields.        *)
Assign(new) ==
    /\ fields' = new
    /\ UNCHANGED <<mutex, out, before>>

-----------------------------------------------------------------------------
(* afifo_write.  The arm without a loop, for bin_size = 1, does the same:  *)
(* bin_head is 0 then.                                                     *)
WriteLock(value) ==
    /\ Goto("writer", "idle", "scan")
    /\ Lock("writer")
    /\ local' = [local EXCEPT !.value = value, !.head = fields.bin_head]

Greater == local.head > 0 /\ fields.bin[local.head - 1] > local.value

MoveUp ==
    /\ Goto("writer", "scan", "scan")
    /\ Greater
    /\ Assign([fields EXCEPT !.bin[local.head] = fields.bin[local.head - 1]])
    /\ local' = [local EXCEPT !.head = @ - 1]

Place ==
    /\ Goto("writer", "scan", "full")
    /\ ~Greater
    /\ Assign([fields EXCEPT !.bin[local.head] = local.value, !.bin_head = @ + 1])
    /\ UNCHANGED local

AdvanceHead ==
    /\ Goto("writer", "full", "store")
    /\ fields.bin_head >= bin_size
    /\ Assign([fields EXCEPT !.bin_head = 0, !.head = Advance(@)])
    /\ UNCHANGED local

Store ==
    /\ Goto("writer", "store", "overtake")
    /\ Assign([fields EXCEPT !.output_buffer[fields.head] = fields.bin[bin_size \div 2]])
    /\ UNCHANGED local

Overtake ==
    /\ Goto("writer", "overtake", "unlock")
    /\ Assign([fields EXCEPT !.tail = IF fields.head = @ THEN Advance(@) ELSE @])
    /\ UNCHANGED local

WriteUnlock ==
    /\ \/ Goto("writer", "unlock", "idle")
       \/ Goto("writer", "full", "idle") /\ fields.bin_head < bin_size
    /\ Unlock
    /\ UNCHANGED out

afifo_write == MoveUp \/ Place \/ AdvanceHead \/ Store \/ Overtake \/ WriteUnlock

-----------------------------------------------------------------------------
(* afifo_read.                                                             *)
ReadCalled ==
    /\ Goto("reader", "idle", "lock")
    /\ Assign(fields)
    /\ UNCHANGED local

ReadLock ==
    /\ Goto("reader", "lock", "test")
    /\ Lock("reader")
    /\ UNCHANGED local

ReadNothingLocked ==  \* mutant: the early return does not release the mutex
    /\ Goto("reader", "test", "idle")
    /\ fields.head = fields.tail
    /\ out' = None
    /\ UNCHANGED <<fields, mutex, local, before>>

ReadNothing ==
    /\ Goto("reader", "test", "idle")
    /\ fields.head = fields.tail
    /\ out' = None
    /\ Unlock

AdvanceTail ==
    /\ Goto("reader", "test", "fetch")
    /\ fields.head # fields.tail
    /\ Assign([fields EXCEPT !.tail = Advance(@)])
    /\ UNCHANGED local

FetchUnlocked ==  \* mutant: the mutex is released too early
    /\ Goto("reader", "fetch", "unlock")
    /\ mutex' = "free"
    /\ local' = [local EXCEPT !.result = fields.output_buffer[fields.tail]]
    /\ UNCHANGED <<fields, out, before>>

Fetch ==
    /\ Goto("reader", "fetch", "unlock")
    /\ Assign(fields)
    /\ local' = [local EXCEPT !.result = fields.output_buffer[fields.tail]]

ReadUnlock ==
    /\ Goto("reader", "unlock", "idle")
    /\ out' = local.result
    /\ Unlock

afifo_read == ReadLock \/ ReadNothing \/ AdvanceTail \/ Fetch \/ ReadUnlock

-----------------------------------------------------------------------------
(* afifo_destroy, which the measuring thread calls last: it keeps the      *)
(* mutex of the struct that it frees.  It does not ask whether the main    *)
(* thread is waiting for the mutex, or will call afifo_read again.         *)
afifo_destroy_unlocked ==  \* mutant: not waiting for a reader inside
    /\ Goto("writer", "idle", "gone")
    /\ UNCHANGED <<fields, mutex, local, out, before>>

afifo_destroy ==
    /\ Goto("writer", "idle", "gone")
    /\ Lock("destroyer")
    /\ UNCHANGED local

Next ==
    \/ \E value \in Values : WriteLock(value)
    \/ afifo_write
    \/ ReadCalled
    \/ afifo_read
    \/ afifo_destroy

Spec == Init /\ [][Next]_vars

(* Both threads go on inside an operation, and the main thread, which has  *)
(* the higher priority, gets the mutex if it is released often enough.     *)
FairSpec == Spec /\ WF_vars(afifo_write) /\ WF_vars(afifo_read) /\ SF_vars(ReadLock)

-----------------------------------------------------------------------------
(* The fields as the other thread will have seen them when it gets the     *)
(* mutex: an operation that is under way has not happened yet.             *)
Seen == IF mutex \in {"writer", "reader"} THEN before ELSE fields

Atomic == INSTANCE Afifo WITH
            bin <- Seen.bin, bin_head <- Seen.bin_head,
            output_buffer <- Seen.output_buffer,
            output_buffer_head <- Seen.head, output_buffer_tail <- Seen.tail

(* Interleaved as they may be, each of the two operations is one step of   *)
(* Afifo, made when the mutex is released (report.c:88-116, 121-130).      *)
ImplementsAfifo == Atomic!Spec

(* What is freed is not in use: a reader who came first is waited for, and *)
(* no later one gets past the mutex to the freed fields.  That he waits at *)
(* the mutex of a freed struct at all is for the callers to prevent        *)
(* (report.c:78-81, 121-130; MisuseExplained in Measure).                  *)
FreedUnused == pc.writer = "gone" => pc.reader \in {"idle", "lock"}

(* A report timer that reads gets through, unless the afifo is destroyed   *)
(* meanwhile: no other way out of an operation keeps the mutex             *)
(* (report.c:76-131).                                                      *)
ReadReturns == pc.reader = "lock" ~> pc.reader = "idle" \/ pc.writer = "gone"
=============================================================================
