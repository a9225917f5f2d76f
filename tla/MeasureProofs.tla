--------------------------- MODULE MeasureProofs ----------------------------
(***************************************************************************)
(* For any number of handles, threads and afifos: an open handle is served,*)
(* a closed one is called back once more at most, and as long as nothing   *)
(* was out of the ordinary no freed afifo is used and none is left behind. *)
(***************************************************************************)
EXTENDS Measure, TLAPS

USE MeasureAssumption

(* The thread of an open handle, if there is one, was not told to end.     *)
OpenListens ==
    \A h \in Handle : open_handles[h] # NULL =>
        /\ pc[open_handles[h]] \notin {"none", "leaving"}
        /\ task[open_handles[h]].op # "TERMINATE"
        /\ \A g \in Handle : open_handles[g] = open_handles[h] => g = h

(* A thread that was called back late is on its way out.                   *)
LateLeaves ==
    \A d \in Details : late[d] # 0 =>
        /\ late[d] = 1
        /\ task[d].op = "TERMINATE"
        /\ pc[d] \in {"loop", "leaving", "none"}

-----------------------------------------------------------------------------
(* Who a thread works for, and its tasks from the session's open to its    *)
(* close and afterwards.                                                   *)
Opened == [u \in User |->
              {d \in Details : handle[u] \in Handle /\ open_handles[handle[u]] = d}]

WriteTask(u) == [op |-> "A128", callback |-> "afifo_write", callback_env |-> buffer[u]]

Closed == [u \in User |-> {d \in Details : pc[d] # "none" /\ task[d] = LastTask(u)}]

Threads == [u \in User |-> Opened[u] \cup Closed[u]]

NothingYet ==
    phase = "off" => /\ \A d \in Details : pc[d] = "none"
                     /\ \A f \in Afifo : heap[f] = "unused" /\ ~report_timer[f]
                     /\ handle = [u \in User |-> ADC_HANDLE_INVALID]
                     /\ buffer = [u \in User |-> NULL]

(* The two users share neither a handle nor a buffer, and a buffer was     *)
(* allocated.                                                              *)
Apart ==
    /\ \A u \in User : buffer[u] \in Afifo => heap[buffer[u]] # "unused"
    /\ handle["main"] = handle["console"] => handle["main"] = ADC_HANDLE_INVALID
    /\ buffer["main"] = buffer["console"] => buffer["main"] = NULL

(* Each slot in use, and each thread, is for one of them, and neither has  *)
(* two threads.                                                            *)
OneThreadEach ==
    /\ \A h \in Handle : open_handles[h] # NULL => \E u \in User : handle[u] = h
    /\ \A d \in Details : pc[d] # "none" => pc[d] # "missing" /\ \E u \in User : d \in Threads[u]
    /\ \A u \in User : \A d, e \in Details : d \in Threads[u] /\ e \in Threads[u] => d = e

(* The main program never closes before it quits.                          *)
MainStaysOpen ==
    phase = "running" /\ handle["main"] \in Handle => open_handles[handle["main"]] # NULL

(* A thread that has an afifo to write to finds it alive: from the open of *)
(* the session to the thread's own last step.                              *)
AliveWhileUsed ==
    \A u \in User, d \in Details :
        /\ d \in Opened[u] => \/ task[d] = WriteTask(u)
                              \/ u = "main" /\ buffer[u] = NULL /\ task[d] = WaitTask
        /\ d \in Threads[u] /\ task[d] # WaitTask => Live(buffer[u])
        /\ d \in Threads[u] /\ pc[d] = "measuring" =>
              task[d] # WaitTask /\ current_task[d].callback_env = buffer[u]

LastTaskTaken ==
    \A d \in Details : pc[d] = "leaving" => current_task[d] = task[d] /\ task[d].op = "TERMINATE"

TimersOfOpen ==
    \A f \in Afifo : report_timer[f] =>
        \E u \in User : buffer[u] = f /\ \E d \in Details : d \in Opened[u]

(* What is alive is some user's buffer, with a thread that will free it,   *)
(* or that of a start that failed.                                         *)
AliveIsOwned ==
    /\ handle["console"] = ADC_HANDLE_INVALID => buffer["console"] = NULL
    /\ \A f \in Afifo : heap[f] = "live" =>
          \E u \in User : /\ buffer[u] = f
                          /\ \/ handle[u] = ADC_HANDLE_INVALID
                             \/ \E d \in Details : d \in Threads[u]

Orderly ==
    /\ NothingYet
    /\ Apart
    /\ OneThreadEach
    /\ MainStaysOpen
    /\ AliveWhileUsed
    /\ LastTaskTaken
    /\ TimersOfOpen
    /\ AliveIsOwned

SessionInv ==
    /\ TypeOK
    /\ OpenListens
    /\ LateLeaves
    /\ MisuseExplained
    /\ oddities = {} => Orderly

-----------------------------------------------------------------------------
LEMMA NullIsNoDetails == NULL \notin Details /\ NULL \notin Afifo
OBVIOUS

LEMMA InitSessionInv == Init => SessionInv
<1> SUFFICES ASSUME Init PROVE SessionInv
  OBVIOUS
<1>1. TypeOK
  <2>1. WaitTask \in Task
    BY DEF Task, Op, TaskCallback, WaitTask
  <2>2. ADC_HANDLE_INVALID \in Handle \cup {ADC_HANDLE_INVALID} /\ 0 \in 0 .. 2
    OBVIOUS
  <2> QED BY <2>1, <2>2 DEF Init, TypeOK, Pc
<1>2. OpenListens /\ LateLeaves /\ MisuseExplained
  BY DEF Init, OpenListens, LateLeaves, MisuseExplained
<1>3. \A u \in User : handle[u] = ADC_HANDLE_INVALID /\ ADC_HANDLE_INVALID \notin Handle
                    /\ buffer[u] = NULL
  BY DEF Init, ADC_HANDLE_INVALID, Handle
<1>4. \A u \in User, d \in Details : d \notin Opened[u] /\ d \notin Closed[u] /\ d \notin Threads[u]
  BY <1>3 DEF Init, Opened, Closed, Threads
<1>5. NothingYet /\ MainStaysOpen
  BY DEF Init, NothingYet, MainStaysOpen
<1>6. Apart
  BY <1>3 DEF Apart, User
<1>7. OneThreadEach /\ AliveWhileUsed /\ LastTaskTaken /\ TimersOfOpen /\ AliveIsOwned
  BY <1>3, <1>4 DEF Init, OneThreadEach, AliveWhileUsed, LastTaskTaken, TimersOfOpen, AliveIsOwned,
                    Threads, User
<1> QED BY <1>1, <1>2, <1>5, <1>6, <1>7 DEF SessionInv, Orderly

(* The thread of an open session with a buffer is measuring into it.       *)
LEMMA OpenMeasures ==
    ASSUME SessionInv, oddities = {}, NEW u \in User, NEW d \in Details, d \in Opened[u],
           buffer[u] # NULL
    PROVE  task[d] # WaitTask /\ Live(buffer[u])
<1>1. AliveWhileUsed /\ d \in Threads[u]
  BY DEF SessionInv, Orderly, Threads
<1>2. task[d] = WriteTask(u)
  BY <1>1 DEF AliveWhileUsed
<1>3. task[d].op = "A128" /\ WaitTask.op = "WAIT"
  BY <1>2 DEF WriteTask, WaitTask
<1>4. task[d] # WaitTask
  BY <1>3
<1> QED BY <1>1, <1>4 DEF AliveWhileUsed

-----------------------------------------------------------------------------
(* The thread.                                                             *)
(* What a step of a thread that goes on has to show.                       *)
LEMMA GoingOn ==
    ASSUME SessionInv, ~misused, NEW d \in Details, NEW to \in {"loop", "measuring", "leaving"},
           pc[d] \notin {"none", "missing"}, pc' = [pc EXCEPT ![d] = to],
           UNCHANGED <<open_handles, task, heap, report_timer, statics, phase, oddities>>,
           current_task' = current_task \/ current_task' = [current_task EXCEPT ![d] = task[d]],
           to = "leaving" => current_task'[d] = task[d] /\ task[d].op = "TERMINATE",
           oddities = {} /\ to = "measuring" =>
              task[d] # WaitTask
              /\ \A u \in User : d \in Threads[u] => current_task'[d].callback_env = buffer[u]
    PROVE  oddities' = {} => Orderly'
<1> SUFFICES ASSUME oddities = {} PROVE Orderly'
  OBVIOUS
<1> USE DEF statics
<1>1. \A e \in Details : pc'[e] = IF e = d THEN to ELSE pc[e]
  BY DEF SessionInv, TypeOK
<1>2. \A e \in Details : e # d => current_task'[e] = current_task[e]
  BY DEF SessionInv, TypeOK
<1>3. \A u \in User, e \in Details : (e \in Opened'[u] <=> e \in Opened[u]) /\ (e \in Threads'[u] <=> e \in Threads[u])
  BY <1>1 DEF Opened, Threads, Closed, LastTask
<1>4. Orderly /\ phase # "off"
  BY DEF SessionInv, Orderly, NothingYet
<1>5. NothingYet' /\ Apart' /\ MainStaysOpen'
  BY <1>4 DEF Orderly, NothingYet, Apart, MainStaysOpen
<1>6. OneThreadEach'
  BY <1>1, <1>3, <1>4 DEF Orderly, OneThreadEach
<1>7. AliveWhileUsed'
  <2> SUFFICES ASSUME NEW u \in User, NEW e \in Details
               PROVE  /\ e \in Opened[u] => \/ task[e] = WriteTask(u)
                                            \/ u = "main" /\ buffer[u] = NULL /\ task[e] = WaitTask
                      /\ e \in Threads[u] /\ task[e] # WaitTask => Live(buffer[u])
                      /\ e \in Threads[u] /\ pc'[e] = "measuring" =>
                           task[e] # WaitTask /\ current_task'[e].callback_env = buffer[u]
    BY <1>3 DEF AliveWhileUsed, WriteTask, Live, WaitTask
  <2>1. CASE e = d
    BY <1>1, <1>4, <2>1 DEF Orderly, AliveWhileUsed
  <2>2. CASE e # d
    BY <1>1, <1>2, <1>4, <2>2 DEF Orderly, AliveWhileUsed
  <2> QED BY <2>1, <2>2
<1>8. LastTaskTaken'
  BY <1>1, <1>2, <1>4 DEF Orderly, LastTaskTaken
<1>9. TimersOfOpen' /\ AliveIsOwned'
  BY <1>3, <1>4 DEF Orderly, TimersOfOpen, AliveIsOwned
<1> QED BY <1>5, <1>6, <1>7, <1>8, <1>9 DEF Orderly

LEMMA EnterKeeps ==
    ASSUME SessionInv, ~misused, NEW d \in Details, Enter(d)
    PROVE  SessionInv'
<1>1. /\ pc[d] = "enter" /\ current_task' = [current_task EXCEPT ![d] = task[d]]
      /\ pc' = [pc EXCEPT ![d] = "loop"]
      /\ UNCHANGED <<open_handles, task, heap, report_timer, statics, phase, late, oddities, misused>>
  BY DEF Enter, history
<1>2. TypeOK'
  BY <1>1 DEF SessionInv, TypeOK, Pc, statics
<1>3. OpenListens' /\ MisuseExplained'
  BY <1>1 DEF SessionInv, TypeOK, OpenListens, MisuseExplained
<1>4. LateLeaves'
  BY <1>1 DEF SessionInv, TypeOK, LateLeaves
<1>5. oddities' = {} => Orderly'
  BY <1>1, GoingOn
<1> QED BY <1>2, <1>3, <1>4, <1>5 DEF SessionInv

LEMMA GetTaskKeeps ==
    ASSUME SessionInv, ~misused, NEW d \in Details, GetTask(d)
    PROVE  SessionInv'
<1>1. /\ pc[d] = "loop" /\ current_task' = [current_task EXCEPT ![d] = task[d]]
      /\ UNCHANGED <<open_handles, task, heap, report_timer, statics, phase, late, oddities, misused>>
  BY DEF GetTask, history
<1>2. PICK to \in {"loop", "measuring", "leaving"} :
        /\ pc' = [pc EXCEPT ![d] = to]
        /\ to = "leaving" <=> task[d].op = "TERMINATE"
        /\ to = "loop" <=> task[d].op = "WAIT"
  <2>1. task[d].op \in {"A128", "WAIT", "TERMINATE"}
    BY DEF SessionInv, TypeOK, Task, Op
  <2> QED BY <2>1 DEF GetTask
<1>3. TypeOK'
  BY <1>1, <1>2 DEF SessionInv, TypeOK, Pc, statics
<1>4. OpenListens' /\ MisuseExplained'
  BY <1>1, <1>2 DEF SessionInv, TypeOK, OpenListens, MisuseExplained
<1>5. LateLeaves'
  BY <1>1, <1>2 DEF SessionInv, TypeOK, LateLeaves
<1>6. current_task'[d] = task[d]
  BY <1>1 DEF SessionInv, TypeOK
<1>7. ASSUME oddities = {}, to = "measuring", NEW u \in User, d \in Threads[u]
      PROVE  task[d].callback_env = buffer[u]
  <2>1. task[d].op # "TERMINATE" /\ task[d].op # "WAIT"
    BY <1>2, <1>7
  <2>2. d \in Opened[u]
    BY <1>7, <2>1 DEF Threads, Closed, LastTask
  <2>3. task[d] = WriteTask(u)
    BY <1>7, <2>1, <2>2 DEF SessionInv, Orderly, AliveWhileUsed, WaitTask
  <2> QED BY <2>3 DEF WriteTask
<1>8. to = "measuring" => task[d] # WaitTask
  BY <1>2 DEF WaitTask
<1>9. oddities' = {} => Orderly'
  BY <1>1, <1>2, <1>6, <1>7, <1>8, GoingOn
<1> QED BY <1>3, <1>4, <1>5, <1>9 DEF SessionInv

LEMMA DeliverKeeps ==
    ASSUME SessionInv, ~misused, NEW d \in Details, Deliver(d)
    PROVE  SessionInv'
<1>1. /\ pc[d] = "measuring" /\ pc' = [pc EXCEPT ![d] = "loop"]
      /\ misused' = ~Live(current_task[d].callback_env)
      /\ late' = [late EXCEPT ![d] = IF task[d].op = "TERMINATE" /\ @ < 2 THEN @ + 1 ELSE @]
      /\ UNCHANGED <<open_handles, task, current_task, heap, report_timer, statics, phase, oddities>>
  BY DEF Deliver
<1>2. late[d] = 0 /\ late'[d] \in {0, 1} /\ (late'[d] = 1 => task[d].op = "TERMINATE")
  BY <1>1 DEF SessionInv, TypeOK, LateLeaves
<1>3. TypeOK'
  BY <1>1, <1>2 DEF SessionInv, TypeOK, Pc, statics
<1>4. OpenListens'
  BY <1>1 DEF SessionInv, TypeOK, OpenListens
<1>5. LateLeaves'
  BY <1>1, <1>2 DEF SessionInv, TypeOK, LateLeaves
<1>6. ASSUME oddities = {} PROVE ~misused'
  <2>1. PICK u \in User : d \in Threads[u]
    BY <1>1, <1>6 DEF SessionInv, Orderly, OneThreadEach
  <2> QED BY <1>1, <1>6, <2>1 DEF SessionInv, Orderly, AliveWhileUsed
<1>7. MisuseExplained'
  BY <1>1, <1>6 DEF MisuseExplained
<1>8. oddities' = {} => Orderly'
  BY <1>1, GoingOn
<1> QED BY <1>3, <1>4, <1>5, <1>7, <1>8 DEF SessionInv

(* A thread that leaves was closed, and destroys its own user's buffer.    *)
LEMMA LeavesOwnBuffer ==
    ASSUME SessionInv, oddities = {}, NEW d \in Details, pc[d] = "leaving"
    PROVE  \E u \in User : /\ d \in Threads[u] /\ task[d] = LastTask(u)
                           /\ Destroys(d) = buffer[u] /\ Live(buffer[u])
<1>1. PICK u \in User : d \in Threads[u]
  BY DEF SessionInv, Orderly, OneThreadEach
<1>2. d \notin Opened[u]
  BY NullIsNoDetails DEF SessionInv, OpenListens, Opened
<1>3. task[d] = LastTask(u) /\ current_task[d] = task[d]
  BY <1>1, <1>2 DEF Threads, Closed, SessionInv, Orderly, LastTaskTaken
<1>4. Destroys(d) = buffer[u]
  BY <1>3 DEF Destroys, LastTask, User
<1>5. task[d] # WaitTask
  BY <1>3 DEF LastTask, WaitTask
<1>6. Live(buffer[u])
  BY <1>1, <1>5 DEF SessionInv, Orderly, AliveWhileUsed
<1> QED BY <1>1, <1>3, <1>4, <1>6

LEMMA LeaveKeeps ==
    ASSUME SessionInv, ~misused, NEW d \in Details, Leave(d)
    PROVE  SessionInv'
<1>1. /\ pc[d] = "leaving" /\ pc' = [pc EXCEPT ![d] = "none"]
      /\ misused' = ~Live(Destroys(d))
      /\ heap' = [f \in Afifo |-> IF f = Destroys(d) THEN "freed" ELSE heap[f]]
      /\ UNCHANGED <<open_handles, task, current_task, report_timer, handle, buffer, phase, late,
                     oddities>>
  BY DEF Leave, statics
<1>2. TypeOK'
  BY <1>1 DEF SessionInv, TypeOK, Pc
<1>3. ~\E h \in Handle : open_handles[h] = d
  BY <1>1, NullIsNoDetails DEF SessionInv, OpenListens
<1>4. OpenListens'
  BY <1>1, <1>3 DEF SessionInv, TypeOK, OpenListens
<1>5. LateLeaves'
  BY <1>1 DEF SessionInv, TypeOK, LateLeaves
<1>6. ASSUME oddities = {} PROVE ~misused'
  BY <1>1, <1>6, LeavesOwnBuffer
<1>7. MisuseExplained'
  BY <1>1, <1>6 DEF MisuseExplained
<1>8. ASSUME oddities = {} PROVE Orderly'
  <2>1. PICK u \in User : d \in Threads[u] /\ task[d] = LastTask(u) /\ Destroys(d) = buffer[u] /\ Live(buffer[u])
    BY <1>1, <1>8, LeavesOwnBuffer
  <2>2. \A e \in Details : pc'[e] = IF e = d THEN "none" ELSE pc[e]
    BY <1>1 DEF SessionInv, TypeOK
  <2>3. \A f \in Afifo : heap'[f] = IF f = buffer[u] THEN "freed" ELSE heap[f]
    BY <1>1, <2>1
  <2>4. \A v \in User, e \in Details :
            /\ e \in Opened'[v] <=> e \in Opened[v]
            /\ e \in Threads'[v] <=> (e \in Threads[v] /\ e # d)
    <3> SUFFICES ASSUME NEW v \in User, NEW e \in Details
                 PROVE  /\ e \in Opened'[v] <=> e \in Opened[v]
                        /\ e \in Threads'[v] <=> (e \in Threads[v] /\ e # d)
      OBVIOUS
    <3>1. e \in Opened'[v] <=> e \in Opened[v]
      BY <1>1 DEF Opened
    <3>2. e \in Closed'[v] <=> (e \in Closed[v] /\ e # d)
      BY <1>1, <2>2 DEF Closed, LastTask
    <3>3. e \in Opened[v] => e # d
      BY <1>3 DEF Opened
    <3> QED BY <3>1, <3>2, <3>3 DEF Threads
  <2>5. \A v \in User : v # u => d \notin Threads[v] /\ buffer[v] # buffer[u]
    <3>1. \A v \in User : v # u => LastTask(v) # LastTask(u)
      BY DEF LastTask, User
    <3>2. \A v \in User : v # u => d \notin Threads[v]
      BY <1>3, <2>1, <3>1 DEF Threads, Opened, Closed
    <3>3. \A v \in User : v # u => buffer[v] # buffer[u]
      BY <1>8, <2>1, NullIsNoDetails DEF SessionInv, Orderly, Apart, Live, User
    <3> QED BY <3>2, <3>3
  <2>6. Orderly /\ phase # "off"
    BY <1>1, <1>8 DEF SessionInv, Orderly, NothingYet
  <2>7. NothingYet' /\ Apart' /\ MainStaysOpen'
    BY <1>1, <2>3, <2>6 DEF Orderly, NothingYet, Apart, MainStaysOpen
  <2>8. OneThreadEach'
    BY <1>1, <2>2, <2>4, <2>6 DEF Orderly, OneThreadEach
  <2>9. AliveWhileUsed'
    <3> SUFFICES ASSUME NEW v \in User, NEW e \in Details
                 PROVE  /\ e \in Opened[v] => \/ task[e] = WriteTask(v)
                                              \/ v = "main" /\ buffer[v] = NULL /\ task[e] = WaitTask
                        /\ e \in Threads[v] /\ e # d /\ task[e] # WaitTask => Live(buffer[v])'
                        /\ e \in Threads[v] /\ e # d /\ pc'[e] = "measuring" =>
                             task[e] # WaitTask /\ current_task[e].callback_env = buffer[v]
      BY <1>1, <2>4 DEF AliveWhileUsed, WriteTask, WaitTask
    <3>1. ASSUME e \in Threads[v], e # d, task[e] # WaitTask PROVE Live(buffer[v])'
      <4>1. v # u
        BY <2>1, <2>6, <3>1 DEF Orderly, OneThreadEach
      <4>2. Live(buffer[v])
        BY <2>6, <3>1 DEF Orderly, AliveWhileUsed
      <4> QED BY <1>1, <2>3, <2>5, <4>1, <4>2 DEF Live
    <3> QED BY <2>2, <2>6, <3>1 DEF Orderly, AliveWhileUsed
  <2>10. LastTaskTaken'
    BY <1>1, <2>2, <2>6 DEF Orderly, LastTaskTaken
  <2>11. TimersOfOpen'
    BY <1>1, <2>4, <2>6 DEF Orderly, TimersOfOpen
  <2>12. AliveIsOwned'
    <3> SUFFICES ASSUME NEW f \in Afifo, heap'[f] = "live"
                 PROVE  \E v \in User : /\ buffer[v] = f
                                        /\ \/ handle[v] = ADC_HANDLE_INVALID
                                           \/ \E e \in Details : e \in Threads[v] /\ e # d
      BY <1>1, <2>4, <2>6 DEF Orderly, AliveIsOwned
    <3>1. f # buffer[u] /\ heap[f] = "live"
      BY <2>3
    <3> QED BY <2>5, <2>6, <3>1 DEF Orderly, AliveIsOwned
  <2> QED BY <2>7, <2>8, <2>9, <2>10, <2>11, <2>12 DEF Orderly
<1> QED BY <1>1, <1>2, <1>4, <1>5, <1>7, <1>8 DEF SessionInv

-----------------------------------------------------------------------------
(* The handlers of the main thread that only read.                         *)
LEMMA LooksOnly ==
    ASSUME SessionInv,
           UNCHANGED <<open_handles, task, current_task, pc, heap, report_timer, handle, buffer, phase,
                       late>>,
           oddities' \subseteq Oddity, misused' \in BOOLEAN, oddities \subseteq oddities',
           oddities' = {} => ~misused'
    PROVE  SessionInv'
<1>1. TypeOK' /\ OpenListens' /\ LateLeaves' /\ MisuseExplained'
  BY DEF SessionInv, TypeOK, OpenListens, LateLeaves, MisuseExplained
<1>2. Opened' = Opened /\ Threads' = Threads
  BY DEF Opened, Threads, Closed, LastTask
<1>3. ASSUME oddities' = {} PROVE Orderly'
  <2>1. Orderly
    BY <1>3 DEF SessionInv
  <2>2. NothingYet' /\ Apart' /\ MainStaysOpen' /\ LastTaskTaken'
    BY <2>1 DEF Orderly, NothingYet, Apart, MainStaysOpen, LastTaskTaken
  <2>3. OneThreadEach' /\ TimersOfOpen' /\ AliveIsOwned'
    BY <1>2, <2>1 DEF Orderly, OneThreadEach, TimersOfOpen, AliveIsOwned
  <2>4. AliveWhileUsed'
    BY <1>2, <2>1 DEF Orderly, AliveWhileUsed, WriteTask, Live, WaitTask
  <2> QED BY <2>2, <2>3, <2>4 DEF Orderly
<1> QED BY <1>1, <1>3 DEF SessionInv

LEMMA ConsoleViewKeeps ==
    ASSUME SessionInv, ConsoleView
    PROVE  SessionInv'
<1>1. /\ UNCHANGED <<open_handles, task, current_task, pc, heap, report_timer, handle, buffer, phase,
                     late>>
      /\ misused' = ~Live(buffer["console"])
      /\ oddities' = oddities \cup (IF ~ConsoleSession THEN {"out_of_turn"} ELSE {})
  BY DEF ConsoleView, statics, Odd
<1>2. oddities' \subseteq Oddity /\ oddities \subseteq oddities'
  BY <1>1 DEF SessionInv, TypeOK, Oddity
<1>3. oddities' = {} => ~misused'
  BY <1>1 DEF ConsoleSession
<1>4. misused' \in BOOLEAN
  BY <1>1 DEF Live
<1> QED BY <1>1, <1>2, <1>3, <1>4, LooksOnly

LEMMA ReportTimerKeeps ==
    ASSUME SessionInv, NEW f \in Afifo, ReportTimer(f)
    PROVE  SessionInv'
<1>1. /\ UNCHANGED <<open_handles, task, current_task, pc, heap, report_timer, handle, buffer, phase,
                     late, oddities>>
      /\ report_timer[f]
      /\ misused' = ~Live(f)
  BY DEF ReportTimer, statics
<1>2. ASSUME oddities = {} PROVE Live(f)
  <2>1. Orderly
    BY <1>2 DEF SessionInv
  <2>2. PICK u \in User, d \in Details : buffer[u] = f /\ d \in Opened[u]
    BY <1>1, <2>1 DEF Orderly, TimersOfOpen
  <2> QED BY <1>2, <2>2, OpenMeasures, NullIsNoDetails
<1>3. misused' \in BOOLEAN
  BY <1>1 DEF Live
<1>4. oddities' \subseteq Oddity /\ oddities \subseteq oddities'
  BY <1>1 DEF SessionInv, TypeOK
<1> QED BY <1>1, <1>2, <1>3, <1>4, LooksOnly

-----------------------------------------------------------------------------
(* The end of a session.                                                   *)
LEMMA CloseKeeps ==
    ASSUME SessionInv, NEW u \in User, NEW callback \in TaskCallback, NEW env \in Afifo \cup {NULL},
           close_hx711(u, callback, env), UNCHANGED <<pc, late>>
    PROVE  /\ open_handles' \in [Handle -> Details \cup {NULL}] /\ task' \in [Details -> Task]
           /\ OpenListens' /\ LateLeaves'
<1>1. CASE UNCHANGED <<task, open_handles>>
  BY <1>1 DEF SessionInv, TypeOK, OpenListens, LateLeaves
<1>2. CASE /\ handle[u] \in Handle /\ open_handles[handle[u]] # NULL
           /\ task' = [task EXCEPT ![open_handles[handle[u]]] =
                         [op |-> "TERMINATE", callback |-> callback, callback_env |-> env]]
           /\ open_handles' = [open_handles EXCEPT ![handle[u]] = NULL]
  <2> DEFINE d == open_handles[handle[u]]
             last == [op |-> "TERMINATE", callback |-> callback, callback_env |-> env]
  <2>1. d \in Details /\ last \in Task
    BY <1>2 DEF SessionInv, TypeOK, Task, Op
  <2>2. /\ open_handles' \in [Handle -> Details \cup {NULL}]
        /\ \A h \in Handle : open_handles'[h] = IF h = handle[u] THEN NULL ELSE open_handles[h]
    BY <1>2 DEF SessionInv, TypeOK
  <2>3. /\ task' \in [Details -> Task]
        /\ \A e \in Details : task'[e] = IF e = d THEN last ELSE task[e]
    BY <1>2, <2>1 DEF SessionInv, TypeOK
  <2>4. last.op = "TERMINATE"
    OBVIOUS
  <2> HIDE DEF last
  <2>5. OpenListens'
    BY <1>2, <2>1, <2>2, <2>3 DEF SessionInv, TypeOK, OpenListens
  <2>6. LateLeaves'
    BY <2>3, <2>4 DEF SessionInv, LateLeaves
  <2> QED BY <2>2, <2>3, <2>5, <2>6
<1> QED BY <1>1, <1>2 DEF close_hx711

LEMMA CloseIsOrderly ==
    ASSUME SessionInv, oddities = {}, phase # "off", NEW u \in User, NEW d \in Details,
           handle[u] \in Handle, open_handles[handle[u]] = d, buffer[u] # NULL,
           task' = [task EXCEPT ![d] = LastTask(u)],
           open_handles' = [open_handles EXCEPT ![handle[u]] = NULL],
           stop_reporting(buffer[u]),
           UNCHANGED <<current_task, pc, heap, handle, buffer>>,
           phase' = IF u = "main" THEN "quit" ELSE phase
    PROVE  Orderly'
<1>1. Orderly
  BY DEF SessionInv
<1>2. \A e \in Details : task'[e] = IF e = d THEN LastTask(u) ELSE task[e]
  BY DEF SessionInv, TypeOK
<1>3. \A h \in Handle : open_handles'[h] = IF h = handle[u] THEN NULL ELSE open_handles[h]
  BY DEF SessionInv, TypeOK
<1>4. /\ pc[d] \notin {"none", "leaving"} /\ task[d].op # "TERMINATE"
      /\ \A h \in Handle : open_handles[h] = d => h = handle[u]
  BY NullIsNoDetails DEF SessionInv, OpenListens
<1>5. d \in Opened[u] /\ d \in Threads[u]
  BY DEF Opened, Threads
<1>6. /\ LastTask(u).op = "TERMINATE" /\ LastTask(u) # WaitTask
      /\ \A v \in User : LastTask(v)' = LastTask(v) /\ (v # u => LastTask(v) # LastTask(u))
  BY DEF LastTask, WaitTask, User
<1>7. \A v \in User : v # u => handle[v] # handle[u] /\ buffer[v] # buffer[u]
  BY <1>1 DEF Orderly, Apart, User, Handle, ADC_HANDLE_INVALID
<1>8. \A v \in User, e \in Details :
         v # u => /\ e \in Opened'[v] <=> e \in Opened[v]
                  /\ e \in Opened[v] => e # d
  BY <1>3, <1>4, <1>7 DEF Opened
<1>9. \A v \in User, e \in Details :
         v # u => /\ e \in Threads'[v] <=> e \in Threads[v]
                  /\ e \in Threads[v] => e # d
  <2> SUFFICES ASSUME NEW v \in User, NEW e \in Details, v # u
               PROVE  (e \in Threads'[v] <=> e \in Threads[v]) /\ (e \in Threads[v] => e # d)
    OBVIOUS
  <2>1. d \notin Closed[v]
    BY <1>4 DEF Closed, LastTask
  <2>2. d \notin Closed'[v]
    BY <1>2, <1>6 DEF Closed
  <2>3. e # d => (e \in Closed'[v] <=> e \in Closed[v])
    BY <1>2, <1>6 DEF Closed
  <2> QED BY <1>8, <2>1, <2>2, <2>3 DEF Threads
<1>10. \A e \in Details : e \notin Opened'[u] /\ (e \in Threads'[u] <=> e = d)
  <2> SUFFICES ASSUME NEW e \in Details PROVE e \notin Opened'[u] /\ (e \in Threads'[u] <=> e = d)
    OBVIOUS
  <2>1. e \notin Opened'[u]
    BY <1>3, NullIsNoDetails DEF Opened
  <2>2. d \in Closed'[u]
    BY <1>2, <1>4, <1>6 DEF Closed
  <2>3. ASSUME e # d PROVE e \notin Closed'[u]
    <3>1. e \notin Threads[u]
      BY <1>1, <1>5, <2>3 DEF Orderly, OneThreadEach
    <3> QED BY <1>2, <1>6, <2>3, <3>1 DEF Closed, Threads
  <2> QED BY <2>1, <2>2, <2>3 DEF Threads
<1>11. Live(buffer[u])
  BY <1>5, OpenMeasures
<1>12. NothingYet' /\ Apart'
  BY <1>1 DEF Orderly, NothingYet, Apart
<1>13. OneThreadEach'
  <2>1. ASSUME NEW h \in Handle, open_handles'[h] # NULL PROVE \E v \in User : handle[v] = h
    BY <1>1, <1>3, <2>1 DEF Orderly, OneThreadEach
  <2>2. ASSUME NEW e \in Details, pc[e] # "none"
        PROVE  pc[e] # "missing" /\ \E v \in User : e \in Threads'[v]
    <3>1. PICK v \in User : e \in Threads[v]
      BY <1>1, <2>2 DEF Orderly, OneThreadEach
    <3>2. e \in Threads'[v]
      BY <1>1, <1>5, <1>9, <1>10, <3>1 DEF Orderly, OneThreadEach
    <3> QED BY <1>1, <2>2, <3>2 DEF Orderly, OneThreadEach
  <2>3. ASSUME NEW v \in User, NEW e \in Details, NEW g \in Details,
               e \in Threads'[v], g \in Threads'[v]
        PROVE  e = g
    BY <1>1, <1>9, <1>10, <2>3 DEF Orderly, OneThreadEach
  <2> QED BY <2>1, <2>2, <2>3 DEF OneThreadEach
<1>14. MainStaysOpen'
  BY <1>1, <1>3, <1>7 DEF Orderly, MainStaysOpen, User
<1>15. AliveWhileUsed'
  <2> SUFFICES ASSUME NEW v \in User, NEW e \in Details
               PROVE  /\ e \in Opened'[v] => \/ task'[e] = WriteTask(v)
                                             \/ v = "main" /\ buffer[v] = NULL /\ task'[e] = WaitTask
                      /\ e \in Threads'[v] /\ task'[e] # WaitTask => Live(buffer[v])
                      /\ e \in Threads'[v] /\ pc[e] = "measuring" =>
                           task'[e] # WaitTask /\ current_task[e].callback_env = buffer[v]
    BY DEF AliveWhileUsed, WriteTask, Live, WaitTask
  <2>1. CASE v = u
    BY <1>1, <1>2, <1>5, <1>6, <1>10, <1>11, <2>1 DEF Orderly, AliveWhileUsed
  <2>2. CASE v # u
    BY <1>1, <1>2, <1>8, <1>9, <2>2 DEF Orderly, AliveWhileUsed
  <2> QED BY <2>1, <2>2
<1>16. LastTaskTaken'
  BY <1>1, <1>2, <1>4 DEF Orderly, LastTaskTaken
<1>17. TimersOfOpen'
  <2>1. ASSUME NEW f \in Afifo, report_timer'[f]
        PROVE  \E v \in User : buffer[v] = f /\ \E e \in Details : e \in Opened'[v]
    <3>1. f # buffer[u] /\ report_timer[f]
      BY <2>1 DEF stop_reporting
    <3> QED BY <1>1, <1>8, <3>1 DEF Orderly, TimersOfOpen
  <2> QED BY <2>1 DEF TimersOfOpen
<1>18. AliveIsOwned'
  BY <1>1, <1>9, <1>10 DEF Orderly, AliveIsOwned
<1> QED BY <1>12, <1>13, <1>14, <1>15, <1>16, <1>17, <1>18 DEF Orderly

LEMMA QuitKeeps ==
    ASSUME SessionInv, Quit
    PROVE  SessionInv'
<1>1. /\ phase = "running" /\ phase' = "quit"
      /\ stop_reporting(buffer["main"])
      /\ close_hx711("main", "main_measure_end", buffer["main"])
      /\ misused' = (~Live(buffer["main"]) \/ handle["main"] = ADC_HANDLE_INVALID)
      /\ oddities' = oddities \cup (IF buffer["main"] = NULL \/ handle["main"] = ADC_HANDLE_INVALID
                                   THEN {"quit_unstarted"} ELSE {})
      /\ UNCHANGED <<current_task, pc, heap, handle, buffer, late>>
  BY DEF Quit, statics, Odd
<1>2. "main" \in User /\ "main_measure_end" \in TaskCallback /\ buffer["main"] \in Afifo \cup {NULL}
  BY DEF User, TaskCallback, SessionInv, TypeOK
<1>3. /\ open_handles' \in [Handle -> Details \cup {NULL}] /\ task' \in [Details -> Task]
      /\ OpenListens' /\ LateLeaves'
  BY <1>1, <1>2, CloseKeeps
<1>4. report_timer' \in [Afifo -> BOOLEAN]
  BY <1>1 DEF stop_reporting, SessionInv, TypeOK
<1>5. oddities' \subseteq Oddity /\ misused' \in BOOLEAN
  BY <1>1 DEF SessionInv, TypeOK, Oddity, Live
<1>6. TypeOK'
  BY <1>1, <1>3, <1>4, <1>5 DEF SessionInv, TypeOK
<1>7. ASSUME oddities' = {} PROVE Orderly' /\ ~misused'
  <2>1. oddities = {} /\ buffer["main"] # NULL /\ handle["main"] \in Handle
    BY <1>1, <1>2, <1>7 DEF SessionInv, TypeOK
  <2> DEFINE d == open_handles[handle["main"]]
  <2>2. d \in Details /\ d \in Opened["main"]
    BY <1>1, <1>2, <2>1 DEF SessionInv, Orderly, MainStaysOpen, TypeOK, Opened
  <2>3. d # NULL
    BY <2>2, NullIsNoDetails
  <2>4. /\ task' = [task EXCEPT ![d] = LastTask("main")]
        /\ open_handles' = [open_handles EXCEPT ![handle["main"]] = NULL]
    BY <1>1, <2>1, <2>3 DEF close_hx711, LastTask
  <2>5. Orderly'
    BY <1>1, <1>2, <2>1, <2>2, <2>4, CloseIsOrderly
  <2>6. Live(buffer["main"])
    BY <1>2, <2>1, <2>2, OpenMeasures
  <2>7. handle["main"] # ADC_HANDLE_INVALID
    BY <2>1 DEF Handle, ADC_HANDLE_INVALID
  <2> QED BY <1>1, <2>5, <2>6, <2>7
<1>8. MisuseExplained'
  BY <1>7 DEF MisuseExplained
<1> QED BY <1>3, <1>6, <1>7, <1>8 DEF SessionInv

LEMMA ConsoleCloseKeeps ==
    ASSUME SessionInv, ConsoleClose
    PROVE  SessionInv'
<1>1. /\ phase = "running"
      /\ stop_reporting(buffer["console"])
      /\ close_hx711("console", "console_measure_end", NULL)
      /\ misused' = (~Live(buffer["console"]) \/ handle["console"] = ADC_HANDLE_INVALID)
      /\ oddities' = oddities \cup (IF ~ConsoleSession THEN {"out_of_turn"} ELSE {})
      /\ UNCHANGED <<current_task, pc, heap, handle, buffer, phase, late>>
  BY DEF ConsoleClose, statics, Odd
<1>2. "console" \in User /\ "console_measure_end" \in TaskCallback /\ NULL \in Afifo \cup {NULL}
  BY DEF User, TaskCallback
<1>3. /\ open_handles' \in [Handle -> Details \cup {NULL}] /\ task' \in [Details -> Task]
      /\ OpenListens' /\ LateLeaves'
  BY <1>1, <1>2, CloseKeeps
<1>4. report_timer' \in [Afifo -> BOOLEAN]
  BY <1>1 DEF stop_reporting, SessionInv, TypeOK
<1>5. oddities' \subseteq Oddity /\ misused' \in BOOLEAN
  BY <1>1 DEF SessionInv, TypeOK, Oddity, Live
<1>6. TypeOK'
  BY <1>1, <1>3, <1>4, <1>5 DEF SessionInv, TypeOK
<1>7. ASSUME oddities' = {} PROVE Orderly' /\ ~misused'
  <2>1. oddities = {} /\ ConsoleSession
    BY <1>1, <1>7
  <2> DEFINE d == open_handles[handle["console"]]
  <2>2. Live(buffer["console"]) /\ handle["console"] \in Handle /\ d # NULL
    BY <2>1 DEF ConsoleSession
  <2>3. d \in Details /\ buffer["console"] # NULL
    BY <2>2, NullIsNoDetails DEF SessionInv, TypeOK, Live
  <2>4. /\ task' = [task EXCEPT ![d] = LastTask("console")]
        /\ open_handles' = [open_handles EXCEPT ![handle["console"]] = NULL]
    BY <1>1, <2>2 DEF close_hx711, LastTask
  <2>5. Orderly'
    BY <1>1, <1>2, <2>1, <2>2, <2>3, <2>4, CloseIsOrderly
  <2>6. handle["console"] # ADC_HANDLE_INVALID
    BY <2>2 DEF Handle, ADC_HANDLE_INVALID
  <2> QED BY <1>1, <2>2, <2>5, <2>6
<1>8. MisuseExplained'
  BY <1>7 DEF MisuseExplained
<1> QED BY <1>3, <1>6, <1>7, <1>8 DEF SessionInv

-----------------------------------------------------------------------------
(* The start of a session.                                                 *)
LEMMA NewSessionFacts ==
    ASSUME SessionInv, NEW u \in User, NEW h \in Handle \cup {ADC_HANDLE_INVALID},
           NEW d \in Details \cup {NULL}, NEW f \in Afifo \cup {NULL}, NEW threads \in BOOLEAN,
           NewSession(u, h, d, f, threads)
    PROVE  /\ \A v \in User : handle'[v] = IF v = u THEN h ELSE handle[v]
           /\ \A v \in User : buffer'[v] = IF v = u THEN f ELSE buffer[v]
           /\ \A g \in Handle : open_handles'[g] = IF g = h THEN d ELSE open_handles[g]
           /\ \A e \in Details : pc'[e] = IF e # d THEN pc[e]
                                         ELSE IF threads THEN "enter" ELSE "missing"
           /\ \A e \in Details : late'[e] = IF e = d THEN 0 ELSE late[e]
           /\ \A g \in Afifo : heap'[g] = IF g = f THEN "live" ELSE heap[g]
           /\ f # NULL => f \in Afifo /\ heap[f] = "unused"
           /\ h \in Handle <=> d # NULL
           /\ d # NULL => /\ d \in Details /\ pc[d] = "none" /\ open_handles[h] = NULL
                          /\ \A g \in Handle : open_handles[g] # d
<1>1. ADC_HANDLE_INVALID \notin Handle
  BY DEF ADC_HANDLE_INVALID, Handle
<1>2. d # NULL <=> d \in Details
  BY NullIsNoDetails
<1> QED BY <1>1, <1>2, NullIsNoDetails DEF NewSession, FreeHandle, SessionInv, TypeOK

LEMMA NewSessionKeeps ==
    ASSUME SessionInv, NEW u \in User, NEW h \in Handle \cup {ADC_HANDLE_INVALID},
           NEW d \in Details \cup {NULL}, NEW f \in Afifo \cup {NULL}, NEW threads \in BOOLEAN,
           NewSession(u, h, d, f, threads), Measuring(d, f) \/ NotMeasuring(d),
           phase' \in {"off", "running", "quit"}, oddities' \subseteq Oddity, misused' \in BOOLEAN
    PROVE  TypeOK' /\ OpenListens' /\ LateLeaves'
<1> DEFINE new == [op |-> "A128", callback |-> "afifo_write", callback_env |-> f]
<1>1. WaitTask \in Task /\ new \in Task
  BY DEF WaitTask, Task, Op, TaskCallback
<1>2. PICK mine \in {WaitTask, new} : task' = [e \in Details |-> IF e # d THEN task[e] ELSE mine]
  BY DEF Measuring, NotMeasuring
<1>3. mine \in Task /\ mine.op # "TERMINATE"
  BY <1>1, <1>2 DEF WaitTask
<1>4. task' \in [Details -> Task] /\ \A e \in Details : task'[e] = IF e # d THEN task[e] ELSE mine
  BY <1>2, <1>3 DEF SessionInv, TypeOK
<1>5. current_task' = current_task /\ report_timer' \in [Afifo -> BOOLEAN]
  BY DEF Measuring, NotMeasuring, SessionInv, TypeOK
<1>6. /\ handle' \in [User -> Handle \cup {ADC_HANDLE_INVALID}]
      /\ buffer' \in [User -> Afifo \cup {NULL}]
      /\ open_handles' \in [Handle -> Details \cup {NULL}]
  BY DEF NewSession, SessionInv, TypeOK
<1>7. pc' \in [Details -> Pc] /\ heap' \in [Afifo -> {"unused", "live", "freed"}]
  BY DEF NewSession, SessionInv, TypeOK, Pc
<1>8. late' \in [Details -> 0 .. 2]
  <2>1. 0 \in 0 .. 2
    OBVIOUS
  <2> QED BY <2>1 DEF NewSession, SessionInv, TypeOK
<1>9. TypeOK'
  BY <1>4, <1>5, <1>6, <1>7, <1>8 DEF SessionInv, TypeOK
<1>10. OpenListens'
  <2> SUFFICES ASSUME NEW g \in Handle, open_handles'[g] # NULL
               PROVE  /\ pc'[open_handles'[g]] \notin {"none", "leaving"}
                      /\ task'[open_handles'[g]].op # "TERMINATE"
                      /\ \A k \in Handle : open_handles'[k] = open_handles'[g] => k = g
    BY DEF OpenListens
  <2>1. CASE g = h
    BY <1>3, <1>4, <2>1, NewSessionFacts
  <2>2. CASE g # h
    <3>1. open_handles'[g] = open_handles[g] /\ open_handles[g] # d
      BY <2>2, NullIsNoDetails, NewSessionFacts
    <3>3. open_handles[g] \in Details
      BY <3>1 DEF SessionInv, TypeOK
    <3>2. /\ pc[open_handles[g]] \notin {"none", "leaving"}
          /\ task[open_handles[g]].op # "TERMINATE"
          /\ \A k \in Handle : open_handles[k] = open_handles[g] => k = g
      BY <3>1, NullIsNoDetails DEF SessionInv, OpenListens
    <3> QED BY <1>4, <3>1, <3>2, <3>3, NewSessionFacts
  <2> QED BY <2>1, <2>2
<1>11. LateLeaves'
  BY <1>4, NewSessionFacts DEF SessionInv, LateLeaves
<1> QED BY <1>9, <1>10, <1>11

LEMMA NewSessionIsOrderly ==
    ASSUME SessionInv, oddities = {}, NEW u \in User, NEW h \in Handle \cup {ADC_HANDLE_INVALID},
           NEW d \in Details \cup {NULL}, NEW f \in Afifo \cup {NULL}, NEW threads \in BOOLEAN,
           NewSession(u, h, d, f, threads), d # NULL => threads,
           IF d # NULL /\ f # NULL THEN Measuring(d, f) ELSE NotMeasuring(d),
           Threads[u] = {}, phase' = "running",
           \/ u = "main" /\ phase = "off"
           \/ u = "console" /\ phase = "running" /\ d # NULL /\ f # NULL
    PROVE  Orderly'
<1>1. Orderly
  BY DEF SessionInv
<1>2. /\ \A v \in User : handle'[v] = IF v = u THEN h ELSE handle[v]
      /\ \A v \in User : buffer'[v] = IF v = u THEN f ELSE buffer[v]
      /\ \A g \in Handle : open_handles'[g] = IF g = h THEN d ELSE open_handles[g]
      /\ \A e \in Details : pc'[e] = IF e # d THEN pc[e]
                                    ELSE IF threads THEN "enter" ELSE "missing"
      /\ \A g \in Afifo : heap'[g] = IF g = f THEN "live" ELSE heap[g]
      /\ f # NULL => f \in Afifo /\ heap[f] = "unused"
      /\ h \in Handle <=> d # NULL
      /\ d # NULL => /\ d \in Details /\ pc[d] = "none" /\ open_handles[h] = NULL
                     /\ \A g \in Handle : open_handles[g] # d
  BY NewSessionFacts
<1>3. /\ current_task' = current_task
      /\ \A e \in Details : e # d => task'[e] = task[e]
      /\ \A g \in Afifo : report_timer'[g] = ((g = f /\ d # NULL) \/ report_timer[g])
  BY NullIsNoDetails DEF Measuring, NotMeasuring, SessionInv, TypeOK
<1>4. d # NULL => task'[d] = IF f # NULL THEN WriteTask(u)' ELSE WaitTask
  BY <1>2 DEF Measuring, NotMeasuring, WriteTask
<1>5. \A v \in User : v # u => LastTask(v)' = LastTask(v) /\ WriteTask(v)' = WriteTask(v)
  BY <1>2 DEF LastTask, WriteTask
<1>6. \A v \in User, e \in Details :
         v # u => /\ e \in Opened'[v] <=> e \in Opened[v]
                  /\ e \in Threads'[v] <=> e \in Threads[v]
                  /\ e \in Threads[v] => e # d
  <2> SUFFICES ASSUME NEW v \in User, NEW e \in Details, v # u
               PROVE  /\ e \in Opened'[v] <=> e \in Opened[v]
                      /\ e \in Threads'[v] <=> e \in Threads[v]
                      /\ e \in Threads[v] => e # d
    OBVIOUS
  <2>1. e # d \/ (e \notin Opened[v] /\ e \notin Closed[v])
    BY <1>2, NullIsNoDetails DEF Opened, Closed
  <2>2. handle[v] \in Handle /\ handle[v] = h => u = "console" /\ v = "main"
    BY <1>1 DEF Orderly, NothingYet, User, Handle, ADC_HANDLE_INVALID
  <2>3. handle[v] \in Handle => handle[v] # h
    <3>1. CASE u = "main"
      BY <2>2, <3>1
    <3>2. CASE u = "console"
      BY <1>1, <1>2, <2>2, <3>2 DEF Orderly, MainStaysOpen
    <3> QED BY <3>1, <3>2 DEF User
  <2>4. e \in Opened'[v] <=> e \in Opened[v]
    BY <1>2, <2>3 DEF Opened
  <2>5. e # d => (e \in Closed'[v] <=> e \in Closed[v])
    BY <1>2, <1>3, <1>5 DEF Closed
  <2>6. e = d => e \notin Closed'[v]
    BY <1>4, <1>5, NullIsNoDetails DEF Closed, LastTask, WriteTask, WaitTask
  <2> QED BY <2>1, <2>4, <2>5, <2>6 DEF Threads
<1>7. \A e \in Details : (e \in Opened'[u] <=> e = d) /\ (e \in Threads'[u] <=> e = d)
  <2> SUFFICES ASSUME NEW e \in Details
               PROVE  (e \in Opened'[u] <=> e = d) /\ (e \in Threads'[u] <=> e = d)
    OBVIOUS
  <2>1. e \in Opened'[u] <=> e = d
    BY <1>2, NullIsNoDetails DEF Opened
  <2>2. ASSUME e # d PROVE e \notin Closed'[u]
    <3>1. CASE u = "main"
      BY <1>1, <1>2, <2>2, <3>1 DEF Orderly, NothingYet, Closed
    <3>2. CASE u = "console"
      <4>1. LastTask(u)' = LastTask(u)
        BY <3>2 DEF LastTask
      <4>2. e \notin Closed[u]
        BY DEF Threads
      <4> QED BY <1>2, <1>3, <2>2, <4>1, <4>2 DEF Closed
    <3> QED BY <3>1, <3>2 DEF User
  <2> QED BY <2>1, <2>2 DEF Threads
<1>8. NothingYet'
  BY DEF NothingYet
<1>9. Apart'
  <2>1. ASSUME NEW v \in User, buffer'[v] \in Afifo PROVE heap'[buffer'[v]] # "unused"
    BY <1>1, <1>2, <2>1 DEF Orderly, Apart
  <2>2. ASSUME handle'["main"] = handle'["console"] PROVE handle'["main"] = ADC_HANDLE_INVALID
    <3>1. CASE u = "main"
      BY <1>1, <1>2, <2>2, <3>1 DEF Orderly, NothingYet, User
    <3>2. CASE u = "console"
      <4>1. handle["main"] = h /\ h \in Handle
        BY <1>2, <2>2, <3>2 DEF User
      <4> QED BY <1>1, <1>2, <3>2, <4>1 DEF Orderly, MainStaysOpen
    <3> QED BY <3>1, <3>2 DEF User
  <2>3. ASSUME buffer'["main"] = buffer'["console"] PROVE buffer'["main"] = NULL
    BY <1>1, <1>2, <2>3 DEF Orderly, Apart, User
  <2> QED BY <2>1, <2>2, <2>3 DEF Apart
<1>10. OneThreadEach'
  <2>1. ASSUME NEW g \in Handle, open_handles'[g] # NULL PROVE \E v \in User : handle'[v] = g
    <3>1. CASE g = h
      BY <1>2, <3>1
    <3>2. CASE g # h
      <4>1. open_handles[g] \in Details
        BY <1>2, <2>1, <3>2 DEF SessionInv, TypeOK
      <4>2. PICK v \in User : handle[v] = g
        BY <1>1, <1>2, <2>1, <3>2 DEF Orderly, OneThreadEach
      <4>3. v # u
        BY <4>1, <4>2 DEF Threads, Opened
      <4> QED BY <1>2, <4>2, <4>3
    <3> QED BY <3>1, <3>2
  <2>2. ASSUME NEW e \in Details, pc'[e] # "none"
        PROVE  pc'[e] # "missing" /\ \E v \in User : e \in Threads'[v]
    <3>1. CASE e = d
      BY <1>2, <1>7, <3>1, NullIsNoDetails
    <3>2. CASE e # d
      BY <1>1, <1>2, <1>6, <2>2, <3>2 DEF Orderly, OneThreadEach
    <3> QED BY <3>1, <3>2
  <2>3. ASSUME NEW v \in User, NEW e \in Details, NEW g \in Details,
               e \in Threads'[v], g \in Threads'[v]
        PROVE  e = g
    BY <1>1, <1>6, <1>7, <2>3 DEF Orderly, OneThreadEach
  <2> QED BY <2>1, <2>2, <2>3 DEF OneThreadEach
<1>11. MainStaysOpen'
  BY <1>1, <1>2 DEF Orderly, MainStaysOpen, User
<1>12. AliveWhileUsed'
  <2> SUFFICES ASSUME NEW v \in User, NEW e \in Details
               PROVE  /\ e \in Opened'[v] => \/ task'[e] = WriteTask(v)'
                                             \/ v = "main" /\ buffer'[v] = NULL /\ task'[e] = WaitTask
                      /\ e \in Threads'[v] /\ task'[e] # WaitTask => Live(buffer[v])'
                      /\ e \in Threads'[v] /\ pc'[e] = "measuring" =>
                           task'[e] # WaitTask /\ current_task'[e].callback_env = buffer'[v]
    BY DEF AliveWhileUsed, WriteTask, WaitTask
  <2>1. CASE v = u
    <3>1. e \in Opened'[v] => \/ task'[e] = WriteTask(v)'
                              \/ v = "main" /\ buffer'[v] = NULL /\ task'[e] = WaitTask
      BY <1>2, <1>4, <1>7, <2>1, NullIsNoDetails
    <3>2. e \in Threads'[v] /\ task'[e] # WaitTask => Live(buffer[v])'
      BY <1>2, <1>4, <1>7, <2>1, NullIsNoDetails DEF Live
    <3>3. e \in Threads'[v] => pc'[e] # "measuring"
      BY <1>2, <1>7, <2>1
    <3> QED BY <3>1, <3>2, <3>3
  <2>2. CASE v # u
    <3>1. e \in Opened'[v] => \/ task'[e] = WriteTask(v)'
                              \/ v = "main" /\ buffer'[v] = NULL /\ task'[e] = WaitTask
      <4> SUFFICES ASSUME e \in Opened'[v]
                   PROVE  \/ task'[e] = WriteTask(v)'
                          \/ v = "main" /\ buffer'[v] = NULL /\ task'[e] = WaitTask
        OBVIOUS
      <4>1. e \in Opened[v] /\ e \in Threads[v]
        BY <1>6, <2>2 DEF Threads
      <4>2. task[e] = WriteTask(v) \/ (v = "main" /\ buffer[v] = NULL /\ task[e] = WaitTask)
        BY <1>1, <4>1 DEF Orderly, AliveWhileUsed
      <4>3. task'[e] = task[e] /\ buffer'[v] = buffer[v] /\ WriteTask(v)' = WriteTask(v)
        BY <1>2, <1>3, <1>5, <1>6, <2>2, <4>1
      <4> QED BY <4>2, <4>3
    <3>2. e \in Threads'[v] /\ task'[e] # WaitTask => Live(buffer[v])'
      BY <1>1, <1>2, <1>3, <1>6, <2>2 DEF Orderly, AliveWhileUsed, Live
    <3>3. e \in Threads'[v] /\ pc'[e] = "measuring" =>
             task'[e] # WaitTask /\ current_task'[e].callback_env = buffer'[v]
      BY <1>1, <1>2, <1>3, <1>6, <2>2 DEF Orderly, AliveWhileUsed
    <3> QED BY <3>1, <3>2, <3>3
  <2> QED BY <2>1, <2>2
<1>13. LastTaskTaken'
  BY <1>1, <1>2, <1>3 DEF Orderly, LastTaskTaken
<1>14. TimersOfOpen'
  <2>1. ASSUME NEW g \in Afifo, report_timer'[g]
        PROVE  \E v \in User : buffer'[v] = g /\ \E e \in Details : e \in Opened'[v]
    <3>1. CASE g = f /\ d # NULL
      BY <1>2, <1>7, <3>1
    <3>2. CASE report_timer[g]
      <4>1. PICK v \in User, e \in Details : buffer[v] = g /\ e \in Opened[v]
        BY <1>1, <3>2 DEF Orderly, TimersOfOpen
      <4>2. v # u
        BY <4>1 DEF Threads
      <4> QED BY <1>2, <1>6, <4>1, <4>2
    <3> QED BY <1>3, <2>1, <3>1, <3>2
  <2> QED BY <2>1 DEF TimersOfOpen
<1>15. AliveIsOwned'
  <2>1. handle'["console"] = ADC_HANDLE_INVALID => buffer'["console"] = NULL
    BY <1>1, <1>2 DEF Orderly, AliveIsOwned, User, Handle, ADC_HANDLE_INVALID
  <2>2. ASSUME NEW g \in Afifo, heap'[g] = "live"
        PROVE  \E v \in User : /\ buffer'[v] = g
                               /\ \/ handle'[v] = ADC_HANDLE_INVALID
                                  \/ \E e \in Details : e \in Threads'[v]
    <3>1. CASE g = f
      BY <1>2, <1>7, <3>1
    <3>2. CASE g # f
      <4>1. heap[g] = "live"
        BY <1>2, <2>2, <3>2
      <4>2. PICK v \in User : /\ buffer[v] = g
                              /\ \/ handle[v] = ADC_HANDLE_INVALID
                                 \/ \E e \in Details : e \in Threads[v]
        BY <1>1, <4>1 DEF Orderly, AliveIsOwned
      <4>3. v # u
        <5>1. CASE u = "main"
          BY <1>1, <4>1, <5>1 DEF Orderly, NothingYet
        <5>2. CASE u = "console"
          BY <1>1, <4>2, <5>2, NullIsNoDetails DEF Orderly, AliveIsOwned
        <5> QED BY <5>1, <5>2 DEF User
      <4> QED BY <1>2, <1>6, <4>2, <4>3
    <3> QED BY <3>1, <3>2
  <2> QED BY <2>1, <2>2 DEF AliveIsOwned
<1> QED BY <1>8, <1>9, <1>10, <1>11, <1>12, <1>13, <1>14, <1>15 DEF Orderly

(* Without a stray thread nobody works for the console.                    *)
LEMMA NoStrayNoThread ==
    ASSUME SessionInv, oddities = {}, Strays = {}
    PROVE  Threads["console"] = {}
<1> SUFFICES ASSUME NEW d \in Threads["console"] PROVE FALSE
  OBVIOUS
<1>1. "console" \in User /\ "main" \in User
  BY DEF User
<1>2. d \in Details /\ (d \in Opened["console"] \/ d \in Closed["console"])
  BY <1>1 DEF Threads, Opened, Closed
<1>3. pc[d] # "none"
  BY <1>1, <1>2, NullIsNoDetails DEF SessionInv, OpenListens, Opened, Closed
<1>4. handle["main"] \in Handle /\ d = open_handles[handle["main"]]
  BY <1>2, <1>3 DEF Strays
<1>5. CASE d \in Opened["console"]
  <2>1. handle["console"] = handle["main"]
    BY <1>1, <1>2, <1>4, <1>5, NullIsNoDetails DEF SessionInv, OpenListens, Opened
  <2> QED BY <1>4, <2>1 DEF SessionInv, Orderly, Apart, Handle, ADC_HANDLE_INVALID
<1>6. CASE d \in Closed["console"]
  BY <1>1, <1>2, <1>4, <1>6, NullIsNoDetails DEF SessionInv, OpenListens, Closed, LastTask
<1> QED BY <1>2, <1>5, <1>6

LEMMA ConsoleOpenKeeps ==
    ASSUME SessionInv, NEW h \in Handle \cup {ADC_HANDLE_INVALID}, NEW d \in Details \cup {NULL},
           NEW f \in Afifo \cup {NULL}, NEW threads \in BOOLEAN, ConsoleOpen(h, d, f, threads)
    PROVE  SessionInv'
<1>1. /\ phase = "running" /\ phase' = phase
      /\ NewSession("console", h, d, f, threads) /\ Measuring(d, f)
      /\ misused' = (d = NULL \/ f = NULL)
      /\ oddities' = oddities \cup (IF d = NULL \/ f = NULL THEN {"unchecked_open"} ELSE {})
                            \cup (IF d # NULL /\ ~threads THEN {"no_thread"} ELSE {})
                            \cup (IF Strays # {} THEN {"out_of_turn"} ELSE {})
  BY DEF ConsoleOpen
<1>2. "console" \in User
  BY DEF User
<1>3. phase' \in {"off", "running", "quit"} /\ oddities' \subseteq Oddity /\ misused' \in BOOLEAN
  BY <1>1 DEF SessionInv, TypeOK, Oddity
<1>4. TypeOK' /\ OpenListens' /\ LateLeaves'
  BY <1>1, <1>2, <1>3, NewSessionKeeps
<1>5. MisuseExplained'
  BY <1>1 DEF MisuseExplained
<1>6. ASSUME oddities' = {} PROVE Orderly'
  <2>1. oddities = {} /\ d # NULL /\ f # NULL /\ threads /\ Strays = {}
    BY <1>1, <1>6
  <2>2. Threads["console"] = {}
    BY <2>1, NoStrayNoThread
  <2> QED BY <1>1, <1>2, <2>1, <2>2, NewSessionIsOrderly
<1> QED BY <1>4, <1>5, <1>6 DEF SessionInv

LEMMA CreateKeeps ==
    ASSUME SessionInv, ~misused, NEW h \in Handle \cup {ADC_HANDLE_INVALID},
           NEW d \in Details \cup {NULL}, NEW f \in Afifo \cup {NULL}, NEW threads \in BOOLEAN,
           Create(h, d, f, threads)
    PROVE  SessionInv'
<1>1. phase = "off" /\ phase' = "running" /\ misused' = misused
  BY DEF Create
<1>2. CASE /\ NewSession("main", h, d, f, threads)
           /\ IF d # NULL /\ f # NULL THEN Measuring(d, f) ELSE NotMeasuring(d)
           /\ Odd("no_thread", d # NULL /\ ~threads)
  <2>1. "main" \in User
    BY DEF User
  <2>2. oddities' = oddities \cup (IF d # NULL /\ ~threads THEN {"no_thread"} ELSE {})
    BY <1>2 DEF Odd
  <2>3. phase' \in {"off", "running", "quit"} /\ oddities' \subseteq Oddity /\ misused' \in BOOLEAN
    BY <1>1, <2>2 DEF SessionInv, TypeOK, Oddity
  <2>4. TypeOK' /\ OpenListens' /\ LateLeaves'
    <3>1. Measuring(d, f) \/ NotMeasuring(d)
      BY <1>2
    <3> QED BY <1>2, <2>1, <2>3, <3>1, NewSessionKeeps
  <2>5. MisuseExplained'
    BY <1>1 DEF MisuseExplained
  <2>6. ASSUME oddities' = {} PROVE Orderly'
    <3>1. oddities = {} /\ (d # NULL => threads)
      BY <2>2, <2>6
    <3>2. Threads["main"] = {}
      BY <1>1, <2>1, <3>1 DEF SessionInv, Orderly, NothingYet, Threads, Opened, Closed, Handle,
                              ADC_HANDLE_INVALID
    <3> QED BY <1>1, <1>2, <2>1, <3>1, <3>2, NewSessionIsOrderly
  <2> QED BY <2>4, <2>5, <2>6 DEF SessionInv
<1>3. CASE UNCHANGED <<open_handles, task, current_task, pc, heap, report_timer, handle, buffer, late,
                       oddities>>
  <2>1. TypeOK' /\ OpenListens' /\ LateLeaves' /\ MisuseExplained'
    BY <1>1, <1>3 DEF SessionInv, TypeOK, OpenListens, LateLeaves, MisuseExplained
  <2>2. Opened' = Opened /\ Threads' = Threads
    BY <1>3 DEF Opened, Threads, Closed, LastTask
  <2>3. ASSUME oddities = {} PROVE Orderly'
    <3>1. Orderly
      BY <2>3 DEF SessionInv
    <3>2. NothingYet' /\ Apart' /\ LastTaskTaken'
      BY <1>1, <1>3, <3>1 DEF Orderly, NothingYet, Apart, LastTaskTaken
    <3>3. MainStaysOpen'
      BY <1>1, <1>3, <3>1 DEF Orderly, NothingYet, MainStaysOpen, User, Handle, ADC_HANDLE_INVALID
    <3>4. OneThreadEach' /\ TimersOfOpen' /\ AliveIsOwned'
      BY <1>3, <2>2, <3>1 DEF Orderly, OneThreadEach, TimersOfOpen, AliveIsOwned
    <3>5. AliveWhileUsed'
      BY <1>3, <2>2, <3>1 DEF Orderly, AliveWhileUsed, WriteTask, Live, WaitTask
    <3> QED BY <3>2, <3>3, <3>4, <3>5 DEF Orderly
  <2> QED BY <1>3, <2>1, <2>3 DEF SessionInv
<1> QED BY <1>2, <1>3 DEF Create, statics

-----------------------------------------------------------------------------
LEMMA SessionsStep == SessionInv /\ [Next]_vars => SessionInv'
<1> SUFFICES ASSUME SessionInv, [Next]_vars PROVE SessionInv'
  OBVIOUS
<1>1. CASE UNCHANGED vars
  BY <1>1, LooksOnly DEF vars, statics, history, SessionInv, TypeOK, MisuseExplained
<1>2. CASE Next
  <2>1. ~misused
    BY <1>2 DEF Next
  <2>2. CASE \E h \in Handle \cup {ADC_HANDLE_INVALID}, d \in Details \cup {NULL},
                f \in Afifo \cup {NULL}, threads \in BOOLEAN :
               Create(h, d, f, threads) \/ ConsoleOpen(h, d, f, threads)
    BY <2>1, <2>2, CreateKeeps, ConsoleOpenKeeps
  <2>3. CASE Quit \/ ConsoleClose \/ ConsoleView
    BY <2>3, QuitKeeps, ConsoleCloseKeeps, ConsoleViewKeeps
  <2>4. CASE \E f \in Afifo : ReportTimer(f)
    BY <2>4, ReportTimerKeeps
  <2>5. CASE \E d \in Details : Thread(d)
    BY <2>1, <2>5, EnterKeeps, GetTaskKeeps, DeliverKeeps, LeaveKeeps DEF Thread
  <2> QED BY <1>2, <2>2, <2>3, <2>4, <2>5 DEF Next
<1> QED BY <1>1, <1>2

(* Sessions come and go in order until something out of the ordinary       *)
(* happens, and what does not depend on that holds afterwards, too         *)
(* (measure.c:154-187, 256-290, main.c:84-87, console.c:231-252).          *)
THEOREM SessionInvariant == Spec => []SessionInv
BY InitSessionInv, SessionsStep, PTL DEF Spec

(* Every variable has its type.                                            *)
THEOREM MeasureTypeCorrect == Spec => []TypeOK
<1>1. SessionInv => TypeOK
  BY DEF SessionInv
<1> QED BY <1>1, SessionInvariant, PTL

(* A thread is missing only where its creation failed.                     *)
MissingTold == \A d \in Details : pc[d] = "missing" => "no_thread" \in oddities

LEMMA MissingStep == TypeOK /\ MissingTold /\ [Next]_vars => MissingTold'
<1> SUFFICES ASSUME TypeOK, MissingTold, [Next]_vars, NEW e \in Details, pc'[e] = "missing"
             PROVE  "no_thread" \in oddities'
  BY DEF MissingTold
<1>1. CASE pc' = pc /\ oddities \subseteq oddities'
  BY <1>1 DEF MissingTold
<1>2. ASSUME NEW h \in Handle \cup {ADC_HANDLE_INVALID}, NEW d \in Details \cup {NULL},
             NEW f \in Afifo \cup {NULL}, NEW threads \in BOOLEAN, NEW u \in User,
             NewSession(u, h, d, f, threads), oddities \subseteq oddities',
             d # NULL /\ ~threads => "no_thread" \in oddities'
      PROVE  "no_thread" \in oddities'
  <2>1. pc'[e] = IF e = d THEN (IF threads THEN "enter" ELSE "missing") ELSE pc[e]
    BY <1>2 DEF NewSession
  <2>2. CASE e = d
    BY <1>2, <2>1, <2>2, NullIsNoDetails
  <2>3. CASE e # d
    BY <1>2, <2>1, <2>3 DEF MissingTold
  <2> QED BY <2>2, <2>3
<1>3. ASSUME NEW h \in Handle \cup {ADC_HANDLE_INVALID}, NEW d \in Details \cup {NULL},
             NEW f \in Afifo \cup {NULL}, NEW threads \in BOOLEAN, Create(h, d, f, threads)
      PROVE  "no_thread" \in oddities'
  BY <1>1, <1>2, <1>3 DEF Create, Odd, User
<1>4. ASSUME NEW h \in Handle \cup {ADC_HANDLE_INVALID}, NEW d \in Details \cup {NULL},
             NEW f \in Afifo \cup {NULL}, NEW threads \in BOOLEAN, ConsoleOpen(h, d, f, threads)
      PROVE  "no_thread" \in oddities'
  BY <1>2, <1>4 DEF ConsoleOpen, User
<1>5. CASE Quit \/ ConsoleClose \/ ConsoleView \/ \E f \in Afifo : ReportTimer(f)
  BY <1>1, <1>5 DEF Quit, ConsoleClose, ConsoleView, ReportTimer, Odd
<1>6. ASSUME NEW d \in Details, Thread(d)
      PROVE  "no_thread" \in oddities'
  <2>1. oddities' = oddities
    BY <1>6 DEF Thread, Enter, GetTask, Deliver, Leave, history
  <2>2. \E to \in {"loop", "leaving", "measuring", "none"} : pc' = [pc EXCEPT ![d] = to]
    <3>1. CASE GetTask(d)
      <4>1. task[d].op \in Op
        BY DEF TypeOK, Task
      <4> QED BY <3>1, <4>1 DEF GetTask, Op
    <3> QED BY <1>6, <3>1 DEF Thread, Enter, Deliver, Leave
  <2>3. pc[e] = "missing"
    BY <2>2 DEF TypeOK
  <2> QED BY <2>1, <2>3 DEF MissingTold
<1>7. CASE UNCHANGED vars
  BY <1>1, <1>7 DEF vars, history
<1> QED BY <1>3, <1>4, <1>5, <1>6, <1>7 DEF Next

(* A handle in open_handles has a thread of its own that runs and was not  *)
(* told to end, or one that could not be created (measure.c:254, 264-265). *)
THEOREM OpenHandlesServed == Spec => []OpenMeansServed
<1>1. Init => MissingTold
  BY DEF Init, MissingTold
<1>2. SessionInv /\ MissingTold => OpenMeansServed
  <2> SUFFICES ASSUME SessionInv, MissingTold, NEW h \in Handle, open_handles[h] # NULL
               PROVE  /\ \/ pc[open_handles[h]] \in {"enter", "loop", "measuring"}
                         \/ pc[open_handles[h]] = "missing" /\ "no_thread" \in oddities
                      /\ task[open_handles[h]].op # "TERMINATE"
                      /\ \A g \in Handle : open_handles[g] = open_handles[h] => g = h
    BY DEF OpenMeansServed
  <2>1. open_handles[h] \in Details /\ pc[open_handles[h]] \in Pc
    BY DEF SessionInv, TypeOK
  <2> QED BY <2>1 DEF SessionInv, OpenListens, MissingTold, Pc
<1>3. SessionInv => TypeOK
  BY DEF SessionInv
<1> QED BY <1>1, <1>2, <1>3, MissingStep, SessionInvariant, PTL DEF Spec

(* After close_hx711 returned, the old callback is called once more at     *)
(* most (measure.c:156-178).                                               *)
THEOREM OneLateCallback == Spec => []OneLateMeasurement
<1>1. SessionInv => OneLateMeasurement
  BY DEF SessionInv, TypeOK, LateLeaves, OneLateMeasurement
<1> QED BY <1>1, SessionInvariant, PTL

(* An afifo is used only while it lives, unless something out of the       *)
(* ordinary happened before (measure.c:154-187, main.c:84-87, 251-253,     *)
(* console.c:51-54, 231-252).                                              *)
THEOREM UsedWhileAlive == Spec => []MisuseExplained
<1>1. SessionInv => MisuseExplained
  BY DEF SessionInv
<1> QED BY <1>1, SessionInvariant, PTL

(* No afifo is left behind by a session that is over (console.c:51-54,     *)
(* measure.c:186).                                                         *)
THEOREM NothingLeaks == Spec => []NoLeak
<1>1. ASSUME SessionInv, oddities = {}, NEW f \in Afifo, heap[f] = "live"
      PROVE  \E u \in User :
                /\ buffer[u] = f
                /\ \/ handle[u] \in Handle /\ open_handles[handle[u]] # NULL
                   \/ handle[u] = ADC_HANDLE_INVALID
                   \/ \E d \in Details : pc[d] # "none" /\ task[d] = LastTask(u)
  <2>1. PICK u \in User : /\ buffer[u] = f
                          /\ \/ handle[u] = ADC_HANDLE_INVALID
                             \/ \E d \in Details : d \in Threads[u]
    BY <1>1 DEF SessionInv, Orderly, AliveIsOwned
  <2>2. ASSUME NEW d \in Details, d \in Opened[u]
        PROVE  handle[u] \in Handle /\ open_handles[handle[u]] # NULL
    BY <2>2, NullIsNoDetails DEF Opened
  <2>3. ASSUME NEW d \in Details, d \in Closed[u]
        PROVE  pc[d] # "none" /\ task[d] = LastTask(u)
    BY <2>3 DEF Closed
  <2> QED BY <2>1, <2>2, <2>3 DEF Threads
<1>2. SessionInv => NoLeak
  BY <1>1 DEF NoLeak
<1> QED BY <1>2, SessionInvariant, PTL
=============================================================================
