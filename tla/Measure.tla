------------------------------ MODULE Measure ------------------------------
(***************************************************************************)
(* measure.c and its two users: main.c, which measures from the start of   *)
(* the program to its end, and the console, whose commands O, C and V open *)
(* a session of their own.  Each open handle has a thread; the users leave *)
(* it a task in a slot under a mutex, and the thread takes a copy before   *)
(* every measurement.  The afifo it writes to is freed by the callback of  *)
(* its last task, once it measures no more.                                *)
(*                                                                         *)
(* A user's handler runs in the main thread and is one step; the measuring *)
(* threads, which have a lower priority, are seen between their accesses   *)
(* to what they share with it.                                             *)
(***************************************************************************)
EXTENDS Integers, FiniteSets

CONSTANTS
    MAX_HANDLE,
    Details,    \* bound: the handle_details (and their threads) there can be
    Afifo,      \* bound: the afifos there can be
    NULL

ASSUME MeasureAssumption ==
    /\ MAX_HANDLE \in Nat
    /\ NULL \notin Details \cup Afifo

ADC_HANDLE_INVALID == -1
Handle == 0 .. MAX_HANDLE
User == {"main", "console"}
Op == {"A128", "WAIT", "TERMINATE"}
TaskCallback == {"dummy_callback", "afifo_write", "main_measure_end", "console_measure_end"}
Task == [op : Op, callback : TaskCallback, callback_env : Afifo \cup {NULL}]

VARIABLES
    open_handles,
    task,           \* the task slot of each handle_details
    current_task,   \* each thread's copy of it
    pc,             \* where each thread is
    heap,           \* the life of each afifo
    report_timer,   \* is a timer running for the afifo
    handle,         \* adc_handle_a of main.c, m_handle of console.c
    buffer,         \* result_buffer_a and result_buffer
    phase,          \* of the program: off, running, quit
    late,           \* measurements delivered after close_hx711; 2 is "more than one"
    oddities,       \* history: what was out of the ordinary
    misused         \* history: freed or absent memory was used

statics == <<handle, buffer>>
history == <<oddities, misused>>
vars == <<open_handles, task, current_task, pc, heap, report_timer, statics, phase, late, history>>

Oddity == {"unchecked_open", "out_of_turn", "quit_unstarted", "no_thread"}
Pc == {"none", "missing", "enter", "loop", "measuring", "leaving"}

WaitTask == [op |-> "WAIT", callback |-> "dummy_callback", callback_env |-> NULL]

Init ==
    /\ open_handles = [h \in Handle |-> NULL]
    /\ task = [d \in Details |-> WaitTask]
    /\ current_task = [d \in Details |-> WaitTask]
    /\ pc = [d \in Details |-> "none"]
    /\ heap = [f \in Afifo |-> "unused"]
    /\ report_timer = [f \in Afifo |-> FALSE]
    /\ handle = [u \in User |-> ADC_HANDLE_INVALID]
    /\ buffer = [u \in User |-> NULL]
    /\ phase = "off"
    /\ late = [d \in Details |-> 0]
    /\ oddities = {}
    /\ misused = FALSE

Live(f) == f \in Afifo /\ heap[f] = "live"

(* The first slot that is free: open_hx711 looks at them in order.         *)
FreeHandle(h) == open_handles[h] = NULL /\ \A g \in 0 .. h - 1 : open_handles[g] # NULL

(* A new session of user u: open_hx711, afifo_create, set_hx711_a128 and   *)
(* start_reporting.  d is NULL if the handle could not be opened, f if     *)
(* there was no memory for the afifo; the thread may fail to start.        *)
NewSession(u, h, d, f, threads) ==
    /\ d \in Details => /\ pc[d] = "none"
                        /\ h \in Handle /\ FreeHandle(h)
                        /\ \A g \in Handle : open_handles[g] # d
    /\ d = NULL => h = ADC_HANDLE_INVALID
    /\ f \in Afifo => heap[f] = "unused"
    /\ handle' = [handle EXCEPT ![u] = h]
    /\ buffer' = [buffer EXCEPT ![u] = f]
    /\ open_handles' = [g \in Handle |-> IF g = h THEN d ELSE open_handles[g]]
    /\ pc' = [e \in Details |->
                IF e = d THEN (IF threads THEN "enter" ELSE "missing") ELSE pc[e]]
    /\ late' = [e \in Details |-> IF e = d THEN 0 ELSE late[e]]
    /\ heap' = [g \in Afifo |-> IF g = f THEN "live" ELSE heap[g]]

(* The task of the new handle_details, and the timer of the new afifo.     *)
Measuring(d, f) ==
    /\ task' = [e \in Details |->
                  IF e # d THEN task[e]
                  ELSE [op |-> "A128", callback |-> "afifo_write", callback_env |-> f]]
    /\ report_timer' = [g \in Afifo |-> g = f \/ report_timer[g]]
    /\ UNCHANGED current_task

NotMeasuring(d) ==
    /\ task' = [e \in Details |-> IF e = d THEN WaitTask ELSE task[e]]
    /\ UNCHANGED <<report_timer, current_task>>

Odd(what, happened) == oddities' = oddities \cup (IF happened THEN {what} ELSE {})

(* VM_EVENT_CREATE: nothing is opened when the configuration is lacking,   *)
(* and nothing is set up when one of the two is missing.                   *)
Create(h, d, f, threads) ==
    /\ phase = "off"
    /\ phase' = "running"
    /\ \/ /\ NewSession("main", h, d, f, threads)
          /\ IF d # NULL /\ f # NULL THEN Measuring(d, f) ELSE NotMeasuring(d)
          /\ Odd("no_thread", d # NULL /\ ~threads)
       \/ /\ UNCHANGED <<open_handles, task, current_task, pc, heap, report_timer, statics, late>>
          /\ UNCHANGED oddities
    /\ UNCHANGED misused

(* Mutants of close_hx711: the slot in open_handles keeps the handle, or    *)
(* gets ADC_HANDLE_INVALID instead of NULL.                                *)
close_hx711_keeps(u, callback, env) ==
    LET h == handle[u]
    IN  IF h \in Handle /\ open_handles[h] # NULL
        THEN /\ task' = [task EXCEPT ![open_handles[h]] =
                           [op |-> "TERMINATE", callback |-> callback, callback_env |-> env]]
             /\ UNCHANGED open_handles
        ELSE UNCHANGED <<task, open_handles>>

close_hx711_invalid(u, callback, env) ==
    LET h == handle[u]
    IN  IF h \in Handle /\ open_handles[h] # NULL
        THEN /\ task' = [task EXCEPT ![open_handles[h]] =
                           [op |-> "TERMINATE", callback |-> callback, callback_env |-> env]]
             /\ open_handles' = [open_handles EXCEPT ![h] = ADC_HANDLE_INVALID]
        ELSE UNCHANGED <<task, open_handles>>

(* close_hx711 for user u, whose last task will be callback(env).          *)
close_hx711(u, callback, env) ==
    LET h == handle[u]
    IN  IF h \in Handle /\ open_handles[h] # NULL
        THEN /\ task' = [task EXCEPT ![open_handles[h]] =
                           [op |-> "TERMINATE", callback |-> callback, callback_env |-> env]]
             /\ open_handles' = [open_handles EXCEPT ![h] = NULL]
        ELSE UNCHANGED <<task, open_handles>>

(* Mutant: the timer of the afifo goes on.                                 *)
stop_reporting_not(f) == UNCHANGED report_timer

stop_reporting(f) == report_timer' = [g \in Afifo |-> g # f /\ report_timer[g]]

(* VM_EVENT_QUIT asks neither whether there is a buffer to stop reporting  *)
(* on nor whether the handle is valid: open_handles[-1] is some other data.*)
Quit ==
    /\ phase = "running"
    /\ phase' = "quit"
    /\ stop_reporting(buffer["main"])
    /\ close_hx711("main", "main_measure_end", buffer["main"])
    /\ misused' = (~Live(buffer["main"]) \/ handle["main"] = ADC_HANDLE_INVALID)
    /\ Odd("quit_unstarted", buffer["main"] = NULL \/ handle["main"] = ADC_HANDLE_INVALID)
    /\ UNCHANGED <<current_task, pc, heap, statics, late>>

(* Somebody who minds the messages opens when no thread but that of main.c *)
(* is about, and closes, or views the results, once it is open.            *)
Strays == {d \in Details : pc[d] # "none"} \
              {open_handles[h] : h \in {handle["main"]} \cap Handle}

ConsoleSession == Live(buffer["console"]) /\ handle["console"] \in Handle
                  /\ open_handles[handle["console"]] # NULL

(* Command O: the results of open_hx711 and afifo_create are not checked.  *)
ConsoleOpen(h, d, f, threads) ==
    /\ phase = "running"
    /\ NewSession("console", h, d, f, threads)
    /\ Measuring(d, f)
    /\ misused' = (d = NULL \/ f = NULL)
    /\ oddities' = oddities \cup (IF d = NULL \/ f = NULL THEN {"unchecked_open"} ELSE {})
                            \cup (IF d # NULL /\ ~threads THEN {"no_thread"} ELSE {})
                            \cup (IF Strays # {} THEN {"out_of_turn"} ELSE {})
    /\ UNCHANGED phase

ConsoleClose ==
    /\ phase = "running"
    /\ stop_reporting(buffer["console"])
    /\ close_hx711("console", "console_measure_end", NULL)
    /\ misused' = (~Live(buffer["console"]) \/ handle["console"] = ADC_HANDLE_INVALID)
    /\ Odd("out_of_turn", ~ConsoleSession)
    /\ UNCHANGED <<current_task, pc, heap, statics, phase, late>>

ConsoleView ==
    /\ phase = "running"
    /\ misused' = ~Live(buffer["console"])
    /\ Odd("out_of_turn", ~ConsoleSession)
    /\ UNCHANGED <<open_handles, task, current_task, pc, heap, report_timer, statics, phase, late>>

(* report_timer_callback reads the afifo it was started with.              *)
ReportTimer(f) ==
    /\ phase = "running"
    /\ report_timer[f]
    /\ misused' = ~Live(f)
    /\ UNCHANGED <<open_handles, task, current_task, pc, heap, report_timer, statics, phase, late,
                   oddities>>

(* The start of the thread, up to the end of its first standby.            *)
Enter(d) ==
    /\ pc[d] = "enter"
    /\ current_task' = [current_task EXCEPT ![d] = task[d]]
    /\ pc' = [pc EXCEPT ![d] = "loop"]
    /\ UNCHANGED <<open_handles, task, heap, report_timer, statics, phase, late, history>>

(* Mutant: only a thread that waits looks at its slot again.               *)
GetTaskOnce(d) ==
    /\ pc[d] = "loop"
    /\ LET latest == IF current_task[d].op = "WAIT" THEN task[d] ELSE current_task[d]
       IN  /\ current_task' = [current_task EXCEPT ![d] = latest]
           /\ pc' = [pc EXCEPT ![d] = CASE latest.op = "TERMINATE" -> "leaving"
                                        [] latest.op = "WAIT" -> "loop"
                                        [] latest.op = "A128" -> "measuring"]
    /\ UNCHANGED <<open_handles, task, heap, report_timer, statics, phase, late, history>>

(* The thread takes a new copy of its task and starts on it.               *)
GetTask(d) ==
    /\ pc[d] = "loop"
    /\ current_task' = [current_task EXCEPT ![d] = task[d]]
    /\ pc' = [pc EXCEPT ![d] = CASE task[d].op = "TERMINATE" -> "leaving"
                                 [] task[d].op = "WAIT" -> "loop"
                                 [] task[d].op = "A128" -> "measuring"]
    /\ UNCHANGED <<open_handles, task, heap, report_timer, statics, phase, late, history>>

(* A measurement is over, and goes where the copy says.                    *)
Deliver(d) ==
    /\ pc[d] = "measuring"
    /\ pc' = [pc EXCEPT ![d] = "loop"]
    /\ misused' = ~Live(current_task[d].callback_env)
    /\ late' = [late EXCEPT ![d] = IF task[d].op = "TERMINATE" /\ @ < 2 THEN @ + 1 ELSE @]
    /\ UNCHANGED <<open_handles, task, current_task, heap, report_timer, statics, phase, oddities>>

(* What the callback of the last task destroys: the buffer main.c handed   *)
(* over, or whatever result_buffer of console.c is by now.                 *)
Destroys(d) ==
    IF current_task[d].callback = "console_measure_end" THEN buffer["console"]
    ELSE current_task[d].callback_env

(* Mutant: the last task is not called back.                               *)
LeaveSilently(d) ==
    /\ pc[d] = "leaving"
    /\ pc' = [pc EXCEPT ![d] = "none"]
    /\ UNCHANGED <<open_handles, task, current_task, heap, report_timer, statics, phase, late,
                   history>>

(* The thread ends: its pins are closed, the callback is called, and the   *)
(* handle_details are freed.                                               *)
Leave(d) ==
    /\ pc[d] = "leaving"
    /\ pc' = [pc EXCEPT ![d] = "none"]
    /\ misused' = ~Live(Destroys(d))
    /\ heap' = [f \in Afifo |-> IF f = Destroys(d) THEN "freed" ELSE heap[f]]
    /\ UNCHANGED <<open_handles, task, current_task, report_timer, statics, phase, late, oddities>>

Thread(d) == Enter(d) \/ GetTask(d) \/ Deliver(d) \/ Leave(d)

(* Once freed memory was used, anything may happen, and nothing is said.   *)
Next ==
    /\ ~misused
    /\ \/ \E h \in Handle \cup {ADC_HANDLE_INVALID}, d \in Details \cup {NULL},
             f \in Afifo \cup {NULL}, threads \in BOOLEAN :
            Create(h, d, f, threads) \/ ConsoleOpen(h, d, f, threads)
       \/ Quit
       \/ ConsoleClose
       \/ ConsoleView
       \/ \E f \in Afifo : ReportTimer(f)
       \/ \E d \in Details : Thread(d)

Spec == Init /\ [][Next]_vars

(* The threads go on: nothing they do waits for anybody.                   *)
FairSpec == Spec /\ \A d \in Details : WF_vars(Thread(d))

-----------------------------------------------------------------------------
(* Every variable has its type.                                            *)
TypeOK ==
    /\ open_handles \in [Handle -> Details \cup {NULL}]
    /\ task \in [Details -> Task]
    /\ current_task \in [Details -> Task]
    /\ pc \in [Details -> Pc]
    /\ heap \in [Afifo -> {"unused", "live", "freed"}]
    /\ report_timer \in [Afifo -> BOOLEAN]
    /\ handle \in [User -> Handle \cup {ADC_HANDLE_INVALID}]
    /\ buffer \in [User -> Afifo \cup {NULL}]
    /\ phase \in {"off", "running", "quit"}
    /\ late \in [Details -> 0 .. 2]
    /\ oddities \subseteq Oddity
    /\ misused \in BOOLEAN

(* No freed or absent afifo is used, and none is freed twice, unless the   *)
(* console ignored a failed open, a command came out of turn, or the       *)
(* program was ended without having started (measure.c:154-187,            *)
(* main.c:84-87, 251-253, console.c:51-54, 231-252).                       *)
MisuseExplained == misused => oddities # {}

(* A handle in open_handles has a thread of its own that runs and will     *)
(* look at its next task: it has not been told to end (measure.c:264-265). *)
(* The exception is a thread that could not be created, which open_hx711   *)
(* does not look at (measure.c:254).                                       *)
OpenMeansServed ==
    \A h \in Handle : open_handles[h] # NULL =>
        /\ \/ pc[open_handles[h]] \in {"enter", "loop", "measuring"}
           \/ pc[open_handles[h]] = "missing" /\ "no_thread" \in oddities
        /\ task[open_handles[h]].op # "TERMINATE"
        /\ \A g \in Handle : open_handles[g] = open_handles[h] => g = h

(* After close_hx711 returned, the old callback is called once more at     *)
(* most: the thread may have been measuring (measure.c:156-178).           *)
OneLateMeasurement == \A d \in Details : late[d] <= 1

(* What the users leave to a thread when they close its handle.            *)
LastTask(u) ==
    IF u = "main"
    THEN [op |-> "TERMINATE", callback |-> "main_measure_end", callback_env |-> buffer["main"]]
    ELSE [op |-> "TERMINATE", callback |-> "console_measure_end", callback_env |-> NULL]

(* An afifo lives no longer than there is a session, or a thread on its    *)
(* way out that will free it (console.c:51-54, measure.c:186).  After a    *)
(* start that failed for want of a handle the buffer of main.c just stays. *)
NoLeak ==
    ~misused /\ oddities = {} =>
        \A f \in Afifo : heap[f] = "live" =>
            \E u \in User :
                /\ buffer[u] = f
                /\ \/ handle[u] \in Handle /\ open_handles[handle[u]] # NULL
                   \/ handle[u] = ADC_HANDLE_INVALID
                   \/ \E d \in Details : pc[d] # "none" /\ task[d] = LastTask(u)

(* A thread whose handle was closed comes to its end.                      *)
ClosedEnds ==
    \A d \in Details :
        pc[d] \in {"enter", "loop", "measuring"} /\ task[d].op = "TERMINATE"
            ~> pc[d] = "none" \/ misused
=============================================================================
