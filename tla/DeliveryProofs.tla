--------------------------- MODULE DeliveryProofs ---------------------------
(***************************************************************************)
(* For any number of reports, seconds, concurrent requests and faults: no  *)
(* report is lost silently, the reporter has one exchange at a time and    *)
(* deletes the file it sent, only three faults can wedge it, and without   *)
(* anybody at the console all of it implements Outbox.                     *)
(***************************************************************************)
EXTENDS Delivery, TLAPS

USE TelecomAssumption, ReportAssumption, DeliveryAssumption

(* Whatever was answered was heard of.                                     *)
AnsweredIsHeard ==
    \A x \in Exchange :
        stage[x] \in {"answered", "reading"} /\ message[x] \in Reports =>
            HeardOf(message[x])

(* An exchange has somebody to report to, the reporter a file to delete.   *)
Attended ==
    Active # {} => /\ done_cb \in Callback
                   /\ done_cb \in ReportCallback => current_report_filename \in Time

IInv ==
    /\ TypeOK
    /\ AnsweredIsHeard
    /\ Attended
    /\ OneAtATime
    /\ DeletesWhatItSent
    /\ NoSilentLoss
    /\ WedgedOnlyByFault

-----------------------------------------------------------------------------
LEMMA InitInv == Init => IInv
<1> SUFFICES ASSUME Init PROVE IInv
  OBVIOUS
<1> USE DEF Init, TelecomInit, ReportInit
<1>1. Active = {}
  BY DEF Active
<1>2. TypeOK
  <2>1. TelecomTypeOK
    BY DEF TelecomTypeOK, Body, Stage
  <2>2. made \in 0 .. MaxReports
    BY SMT
  <2>3. ReportTypeOK
    BY <2>2, Zenon DEF ReportTypeOK
  <2>4. faults \in [FaultKind -> Nat] /\ received \in [Reports -> 0 .. 2]
    BY SMT
  <2> QED BY <2>1, <2>3, <2>4 DEF TypeOK
<1>3. WedgedOnlyByFault
  BY DEF WedgedOnlyByFault
<1> QED BY <1>1, <1>2, <1>3 DEF IInv, AnsweredIsHeard, Attended, OneAtATime,
             DeletesWhatItSent, NoSilentLoss

-----------------------------------------------------------------------------
(* Types.                                                                  *)
LEMMA PostBodies ==
    /\ Reports \subseteq Body /\ Torn \in Body /\ Other \in Body
    /\ Reports \subseteq Post
BY DEF Body

LEMMA FaultTypes ==
    ASSUME TypeOK, NEW k \in FaultKind, UNCHANGED faults \/ Fault(k)
    PROVE  faults' \in [FaultKind -> Nat]
BY SMT DEF TypeOK, Fault

LEMMA TelecomTypes ==
    ASSUME TelecomTypeOK
    PROVE  /\ \A m \in Body, cb \in Callback : http_post(m, cb) => TelecomTypeOK'
           /\ \A cb \in Callback : http_get(cb) => TelecomTypeOK'
           /\ \A x \in Exchange : \A accepted \in BOOLEAN :
                 https_set_channel_cb(x, accepted) => TelecomTypeOK'
           /\ \A x \in Exchange : Answer(x) => TelecomTypeOK'
           /\ \A x \in Exchange : \A ok, more \in BOOLEAN :
                 https_response_cb(x, ok, more) => TelecomTypeOK'
           /\ \A x \in Exchange : \A more \in BOOLEAN :
                 https_read_content_cb(x, more) => TelecomTypeOK'
           /\ https_termination_cb => TelecomTypeOK'
           /\ TelecomRestart => TelecomTypeOK'
<1> USE PostBodies DEF TelecomTypeOK, Stage, vm_https_set_channel, Dropped, AllDropped
<1>1. \A m \in Body, cb \in Callback : http_post(m, cb) => TelecomTypeOK'
  BY DEF http_post
<1>2. \A cb \in Callback : http_get(cb) => TelecomTypeOK'
  BY DEF http_get
<1>3. \A x \in Exchange : \A accepted \in BOOLEAN :
        https_set_channel_cb(x, accepted) => TelecomTypeOK'
  BY DEF https_set_channel_cb
<1>4. \A x \in Exchange : Answer(x) => TelecomTypeOK'
  BY DEF Answer
<1>5. \A x \in Exchange : \A ok, more \in BOOLEAN :
        https_response_cb(x, ok, more) => TelecomTypeOK'
  BY DEF https_response_cb
<1>6. \A x \in Exchange : \A more \in BOOLEAN :
        https_read_content_cb(x, more) => TelecomTypeOK'
  BY DEF https_read_content_cb
<1>7. https_termination_cb => TelecomTypeOK'
  BY DEF https_termination_cb
<1>8. TelecomRestart => TelecomTypeOK'
  BY DEF TelecomRestart
<1> QED BY <1>1, <1>2, <1>3, <1>4, <1>5, <1>6, <1>7, <1>8

LEMMA ReportTypes ==
    ASSUME ReportTypeOK
    PROVE  /\ \A t \in Time, outcome \in {"whole", "torn", "unopened"} :
                 report_timer_callback(t, outcome) => ReportTypeOK'
           /\ \A t \in Time, readable \in BOOLEAN :
                 send_delayed_report(t, readable) => ReportTypeOK'
           /\ \A ok, deleted \in BOOLEAN : Completed(ok, deleted) => ReportTypeOK'
           /\ \A on \in BOOLEAN : set_http_report(on) => ReportTypeOK'
           /\ Reboot => ReportTypeOK'
           /\ ReportRestart => ReportTypeOK'
<1> USE DEF ReportTypeOK
<1>1. ASSUME NEW t \in Time, NEW outcome \in {"whole", "torn", "unopened"},
             report_timer_callback(t, outcome)
      PROVE  ReportTypeOK'
  <2>1. made' \in 0 .. MaxReports /\ made + 1 \in Reports
    BY <1>1, SMT DEF report_timer_callback, Reports
  <2>2. files' \in [Time -> Post \cup {NoFile}]
    BY <1>1, <2>1, PostBodies, SMT DEF report_timer_callback, Written
  <2> QED BY <1>1, <2>1, <2>2 DEF report_timer_callback
<1>2. \A t \in Time, readable \in BOOLEAN :
        send_delayed_report(t, readable) => ReportTypeOK'
  BY DEF send_delayed_report
<1>3. ASSUME NEW ok \in BOOLEAN, NEW deleted \in BOOLEAN, Completed(ok, deleted)
      PROVE  ReportTypeOK'
  <2>1. files' \in [Time -> Post \cup {NoFile}]
    BY <1>3 DEF Completed, http_done_callback, http_done_callback_delayed, vm_fs_delete, report
  <2> QED BY <1>3, <2>1 DEF Completed, http_done_callback, http_done_callback_delayed, report
<1>4. \A on \in BOOLEAN : set_http_report(on) => ReportTypeOK'
  BY DEF set_http_report
<1>5. Reboot => ReportTypeOK'
  BY DEF Reboot
<1>6. ReportRestart => ReportTypeOK'
  BY DEF ReportRestart
<1> QED BY <1>1, <1>2, <1>3, <1>4, <1>5, <1>6

LEMMA TypeStep == TypeOK /\ [Next]_vars => TypeOK'
<1> SUFFICES ASSUME TypeOK, [Next]_vars
             PROVE  TypeOK'
  OBVIOUS
<1>0. TelecomTypeOK /\ ReportTypeOK
  BY DEF TypeOK
<1>a. (UNCHANGED telecom => TelecomTypeOK') /\ (UNCHANGED report => ReportTypeOK')
  BY <1>0 DEF telecom, report, TelecomTypeOK, ReportTypeOK
<1> DEFINE HistoryTypeOK ==
             /\ received \in [Reports -> 0 .. 2]
             /\ rejected \subseteq Reports
             /\ stored \subseteq Reports
             /\ clashed \subseteq Reports
             /\ mixed \in BOOLEAN
           FaultsTypeOK == faults \in [FaultKind -> Nat]
<1>b. UNCHANGED <<received, rejected, history>> => HistoryTypeOK'
  BY DEF TypeOK, history
<1>1. ASSUME NEW t \in Time, NEW outcome \in {"whole", "torn", "unopened"},
             ReportTimer(t, outcome)
      PROVE  TypeOK'
  <2>1. report_timer_callback(t, outcome)
    BY <1>1 DEF ReportTimer
  <2>2. ReportTypeOK'
    BY <1>0, <2>1, ReportTypes
  <2>3. made + 1 \in Reports
    BY <2>1, SMT DEF report_timer_callback, TypeOK, ReportTypeOK, Reports
  <2>4. TelecomTypeOK'
    <3>2. CASE http_post(made + 1, "http_done_callback")
      BY <1>0, <2>3, <3>2, TelecomTypes, PostBodies
    <3> QED BY <1>a, <2>1, <3>2 DEF report_timer_callback
  <2>5. FaultsTypeOK'
    BY <1>1, FaultTypes DEF ReportTimer, FaultUnless, FaultKind
  <2>6. HistoryTypeOK'
    BY <1>1, <2>3 DEF ReportTimer, SameName, TypeOK
  <2> QED BY <2>2, <2>4, <2>5, <2>6 DEF TypeOK
<1>2. ASSUME NEW t \in Time, NEW readable \in BOOLEAN, SendDelayed(t, readable)
      PROVE  TypeOK'
  <2>1. send_delayed_report(t, readable)
    BY <1>2 DEF SendDelayed
  <2>2. ReportTypeOK'
    BY <1>0, <2>1, ReportTypes
  <2>3. files[t] \in Post
    BY <1>0, <2>1 DEF send_delayed_report, ReportTypeOK
  <2>4. TelecomTypeOK'
    <3>1. CASE http_post(files[t], "http_done_callback_delayed")
      BY <1>0, <2>3, <3>1, TelecomTypes DEF Body
    <3> QED BY <1>a, <2>1, <3>1 DEF send_delayed_report
  <2>5. FaultsTypeOK'
    BY <1>2, FaultTypes DEF SendDelayed, FaultUnless, FaultKind, Wedging
  <2>6. HistoryTypeOK'
    BY <1>2 DEF SendDelayed, TypeOK
  <2> QED BY <2>2, <2>4, <2>5, <2>6 DEF TypeOK
<1>3. ASSUME NEW x \in Exchange, NEW accepted \in BOOLEAN, SetChannelCb(x, accepted)
      PROVE  TypeOK'
  <2>1. FaultsTypeOK'
    BY <1>3, FaultTypes DEF SetChannelCb, FaultUnless, FaultKind, Wedging
  <2> QED BY <1>0, <1>3, <1>a, <1>b, <2>1, TelecomTypes DEF SetChannelCb, TypeOK
<1>4. ASSUME NEW x \in Exchange, NEW accepted \in BOOLEAN, ServerAnswers(x, accepted)
      PROVE  TypeOK'
  <2>1. FaultsTypeOK'
    BY <1>4, FaultTypes DEF ServerAnswers, FaultUnless, FaultKind, world
  <2>2. received' \in [Reports -> 0 .. 2]
    BY <1>4, SMT DEF ServerAnswers, TypeOK, world
  <2>3. HistoryTypeOK'
    BY <1>4, <2>2 DEF ServerAnswers, TypeOK, world, history
  <2> QED BY <1>0, <1>4, <1>a, <2>1, <2>3, TelecomTypes DEF ServerAnswers, TypeOK
<1>5. ASSUME NEW ok \in BOOLEAN, NEW deleted \in BOOLEAN
      PROVE  Completed(ok, deleted) /\ Outcome(ok, deleted) => ReportTypeOK' /\ FaultsTypeOK'
  BY <1>0, FaultTypes, ReportTypes DEF Outcome, FaultUnless, FaultKind, Repeating
<1>6. ASSUME NEW x \in Exchange, NEW ok \in BOOLEAN, NEW deleted \in BOOLEAN,
             ResponseCb(x, ok, deleted) \/ ReadContentCb(x, ok, deleted)
      PROVE  TypeOK'
  <2>1. TelecomTypeOK'
    BY <1>0, <1>6, TelecomTypes DEF ResponseCb, ReadContentCb
  <2>2. ReportTypeOK' /\ FaultsTypeOK'
    BY <1>5, <1>6, <1>a DEF ResponseCb, ReadContentCb, TypeOK
  <2> QED BY <1>6, <1>b, <2>1, <2>2 DEF ResponseCb, ReadContentCb, TypeOK
<1>7. CASE Termination
  <2>1. FaultsTypeOK'
    BY <1>7, FaultTypes DEF Termination, FaultKind, Wedging
  <2> QED BY <1>0, <1>7, <1>a, <1>b, <2>1, TelecomTypes DEF Termination, TypeOK
<1>8. CASE ConsoleRequest
  <2>1. TelecomTypeOK'
    BY <1>0, <1>8, TelecomTypes, PostBodies DEF ConsoleRequest
  <2> QED BY <1>8, <1>a, <2>1 DEF ConsoleRequest, TypeOK, world
<1>9. ASSUME NEW on \in BOOLEAN, ConsoleReportHttp(on)
      PROVE  TypeOK'
  BY <1>0, <1>9, <1>a, <1>b, ReportTypes DEF ConsoleReportHttp, TypeOK, world
<1>10. CASE ConsoleReboot
  BY <1>0, <1>10, <1>a, <1>b, ReportTypes DEF ConsoleReboot, TypeOK, world
<1>11. CASE Restart
  BY <1>0, <1>11, <1>b, ReportTypes, TelecomTypes DEF Restart, FreshStart, TypeOK
<1>12. CASE PowerCut
  <2>1. FaultsTypeOK'
    BY <1>12, FaultTypes DEF PowerCut, FaultKind, Repeating
  <2> QED BY <1>0, <1>12, <1>b, <2>1, ReportTypes, TelecomTypes DEF PowerCut, FreshStart, TypeOK
<1>13. CASE UNCHANGED vars
  BY <1>0, <1>13, <1>a, <1>b DEF vars, world, history, TypeOK
<1> QED BY <1>1, <1>2, <1>3, <1>4, <1>6, <1>7, <1>8, <1>9, <1>10, <1>11, <1>12, <1>13
        DEF Next, ResendTimer, Service

-----------------------------------------------------------------------------
(* How the sets of exchanges change.                                       *)
LEMMA Opening ==
    ASSUME TypeOK, vm_https_set_channel
    PROVE  \E x \in Exchange \ Active :
              /\ Active' = Active \cup {x}
              /\ stage'[x] = "opening"
              /\ \A y \in Exchange \ {x} : stage'[y] = stage[y]
              /\ message' = message
BY DEF vm_https_set_channel, Active, TypeOK, TelecomTypeOK

LEMMA Dropping ==
    ASSUME TypeOK, NEW x \in Exchange, Dropped(x)
    PROVE  /\ Active' = Active \ {x}
           /\ \A y \in Active' : stage'[y] = stage[y] /\ message'[y] = message[y]
           /\ \A y \in Exchange : stage'[y] = "idle" \/ (stage'[y] = stage[y] /\ message'[y] = message[y])
BY DEF Dropped, Active, TypeOK, TelecomTypeOK

(* The reporter finds telecom.c idle when it is not busy itself.           *)
LEMMA IdleWhenFree ==
    ASSUME IInv, ~mixed, ~reporter_busy, ~(done_cb = "console" /\ Active # {})
    PROVE  Active = {}
BY DEF IInv, Attended, OneAtATime, ReportCallback

(* Faults do not go away.                                                  *)
LEMMA FaultsStay ==
    ASSUME TypeOK, NEW k \in FaultKind, UNCHANGED faults \/ Fault(k)
    PROVE  \A j \in FaultKind : faults[j] > 0 => faults'[j] > 0
BY SMT DEF TypeOK, Fault

LEMMA FaultHappened ==
    ASSUME TypeOK, NEW k \in FaultKind, Fault(k)
    PROVE  faults'[k] > 0
BY SMT DEF TypeOK, Fault

LEMMA ReportTimerStep ==
    ASSUME IInv, NEW t \in Time, NEW outcome \in {"whole", "torn", "unopened"},
           ReportTimer(t, outcome), TypeOK'
    PROVE  IInv'
<1>1. /\ report_timer_callback(t, outcome)
      /\ received' = received /\ rejected' = rejected
      /\ stored' = IF outcome = "whole" THEN stored \cup {made + 1} ELSE stored
      /\ clashed' = clashed \cup (SameName(t) \cap Reports)
      /\ mixed' = (mixed \/ (~reporter_busy /\ done_cb = "console" /\ Active # {}))
  BY DEF ReportTimer
<1>2. /\ made + 1 \in Reports
      /\ files \in [Time -> Post \cup {NoFile}]
      /\ files' = Written(t, outcome)
      /\ TypeOK /\ mixed \in BOOLEAN
  BY <1>1, SMT DEF report_timer_callback, IInv, TypeOK, ReportTypeOK, Reports
<1>3. /\ \A s \in Time : s # t => files'[s] = files[s]
      /\ outcome = "whole" => files'[t] = made + 1
      /\ outcome = "torn" => files'[t] = Torn
      /\ outcome = "unopened" => files'[t] = files[t]
  BY <1>2 DEF Written
<1>4. \A j \in FaultKind : faults[j] > 0 => faults'[j] > 0
  BY <1>2, FaultsStay DEF ReportTimer, FaultUnless, FaultKind
<1>5. NoSilentLoss'
  <2> SUFFICES ASSUME ~mixed, NEW r \in stored' \ clashed'
               PROVE  OnDisk(r)' \/ HeardOf(r)'
    BY <1>1 DEF NoSilentLoss
  <2>1. CASE r \in stored
    <3>1. OnDisk(r) \/ HeardOf(r)
      BY <1>1, <2>1 DEF IInv, NoSilentLoss
    <3>2. r \in Reports
      BY <1>2, <2>1 DEF TypeOK
    <3>3. files[t] # r
      BY <1>1, <3>2 DEF SameName
    <3> QED BY <1>1, <1>3, <3>1, <3>3 DEF OnDisk, HeardOf
  <2>2. CASE outcome = "whole" /\ r = made + 1
    BY <1>3, <2>2 DEF OnDisk
  <2> QED BY <1>1, <2>1, <2>2
<1>6. CASE ~reporter_busy
  <2>1. /\ reporter_busy' = TRUE
        /\ current_report_filename' = t
        /\ http_post(made + 1, "http_done_callback")
    BY <1>1, <1>6 DEF report_timer_callback
  <2>2. /\ body' = made + 1
        /\ done_cb' = "http_done_callback"
        /\ vm_https_set_channel
    BY <2>1 DEF http_post
  <2>3. PICK x \in Exchange \ Active :
          /\ Active' = Active \cup {x}
          /\ stage'[x] = "opening"
          /\ \A y \in Exchange \ {x} : stage'[y] = stage[y]
          /\ message' = message
    BY <1>2, <2>2, Opening
  <2>4. ~mixed' => ~mixed /\ Active' = {x}
    BY <1>1, <1>6, <2>3, IdleWhenFree
  <2>5. AnsweredIsHeard'
    BY <1>1, <2>3 DEF IInv, AnsweredIsHeard, HeardOf
  <2>6. Attended'
    BY <2>1, <2>2 DEF Attended
  <2>7. OneAtATime' /\ WedgedOnlyByFault'
    BY <2>1, <2>2, <2>4 DEF OneAtATime, WedgedOnlyByFault, ReportCallback
  <2>8. DeletesWhatItSent'
    <3>1. files'[t] \in Reports \ clashed' => files'[t] = made + 1
      <4>1. CASE outcome = "unopened"
        BY <1>1, <1>3, <4>1 DEF SameName
      <4> QED BY <1>3, <4>1
    <3> QED BY <2>1, <2>2, <2>3, <2>4, <3>1 DEF DeletesWhatItSent, InFlight
  <2> QED BY <1>5, <2>5, <2>6, <2>7, <2>8 DEF IInv
<1>7. CASE reporter_busy
  <2>1. UNCHANGED <<reporter_busy, current_report_filename, body, done_cb, stage, message>>
    BY <1>1, <1>7 DEF report_timer_callback, telecom
  <2>2. Active' = Active /\ mixed' = mixed
    BY <1>1, <1>2, <1>7, <2>1 DEF Active
  <2>3. AnsweredIsHeard' /\ Attended' /\ OneAtATime' /\ WedgedOnlyByFault'
    BY <1>1, <1>4, <2>1, <2>2 DEF IInv, AnsweredIsHeard, HeardOf, Attended, OneAtATime,
       WedgedOnlyByFault, FaultKind
  <2>4. DeletesWhatItSent'
    <3> SUFFICES ASSUME ~mixed, done_cb \in ReportCallback, NEW x \in Active,
                        current_report_filename \in Time,
                        files'[current_report_filename] \in Reports \ clashed'
                 PROVE  files'[current_report_filename] = InFlight(x)'
      BY <1>1, <2>1, <2>2 DEF DeletesWhatItSent
    <3>1. InFlight(x)' = InFlight(x)
      BY <2>1 DEF InFlight
    <3>2. CASE current_report_filename # t
      BY <1>1, <1>3, <3>1, <3>2 DEF IInv, DeletesWhatItSent
    <3>3. CASE current_report_filename = t
      <4>1. files'[t] # made + 1 /\ files'[t] # files[t]
        BY <1>1, <1>2, <1>7, <3>3 DEF SameName
      <4> QED BY <1>3, <3>3, <4>1
    <3> QED BY <3>2, <3>3
  <2> QED BY <1>5, <2>3, <2>4 DEF IInv
<1> QED BY <1>6, <1>7

LEMMA SendDelayedStep ==
    ASSUME IInv, NEW t \in Time, NEW readable \in BOOLEAN,
           SendDelayed(t, readable), TypeOK'
    PROVE  IInv'
<1>1. /\ send_delayed_report(t, readable)
      /\ UNCHANGED <<received, rejected, stored, clashed, files>>
      /\ mixed' = (mixed \/ (readable /\ done_cb = "console" /\ Active # {}))
      /\ reporter_busy = FALSE /\ reporter_busy' = TRUE
      /\ current_report_filename' = t
  BY DEF SendDelayed, send_delayed_report, IInv, TypeOK, ReportTypeOK
<1>2. NoSilentLoss'
  BY <1>1 DEF IInv, NoSilentLoss, OnDisk, HeardOf
<1>3. CASE readable
  <2>1. /\ body' = files[t]
        /\ done_cb' = "http_done_callback_delayed"
        /\ vm_https_set_channel
    BY <1>1, <1>3 DEF http_post, send_delayed_report
  <2>2. PICK x \in Exchange \ Active :
          /\ Active' = Active \cup {x}
          /\ stage'[x] = "opening"
          /\ \A y \in Exchange \ {x} : stage'[y] = stage[y]
          /\ message' = message
    BY <2>1, Opening DEF IInv
  <2>3. ~mixed' => ~mixed /\ Active' = {x}
    BY <1>1, <1>3, <2>2, IdleWhenFree
  <2>4. AnsweredIsHeard'
    BY <1>1, <2>2 DEF IInv, AnsweredIsHeard, HeardOf
  <2>5. Attended' /\ OneAtATime' /\ WedgedOnlyByFault'
    BY <1>1, <2>1, <2>3 DEF Attended, OneAtATime, WedgedOnlyByFault, ReportCallback
  <2>6. DeletesWhatItSent'
    BY <1>1, <2>1, <2>2, <2>3 DEF DeletesWhatItSent, InFlight
  <2> QED BY <1>2, <2>4, <2>5, <2>6 DEF IInv
<1>4. CASE ~readable
  <2>1. UNCHANGED <<body, done_cb, stage, message>> /\ mixed' = mixed
    BY <1>1, <1>4 DEF send_delayed_report, telecom, IInv, TypeOK
  <2>2. Active' = Active
    BY <2>1 DEF Active
  <2>3. faults'["unreadable"] > 0
    BY <1>4, FaultHappened DEF SendDelayed, FaultUnless, IInv, FaultKind, Wedging
  <2>4. AnsweredIsHeard' /\ Attended'
    BY <1>1, <2>1, <2>2 DEF IInv, AnsweredIsHeard, HeardOf, Attended
  <2>5. OneAtATime' /\ WedgedOnlyByFault'
    BY <1>1, <2>1, <2>2, <2>3 DEF IInv, OneAtATime, WedgedOnlyByFault, Wedging
  <2>6. DeletesWhatItSent'
    BY <1>1, <2>1, <2>2 DEF IInv, DeletesWhatItSent, OneAtATime
  <2> QED BY <1>2, <2>4, <2>5, <2>6 DEF IInv
<1> QED BY <1>3, <1>4

LEMMA SetChannelCbStep ==
    ASSUME IInv, NEW x \in Exchange, NEW accepted \in BOOLEAN,
           SetChannelCb(x, accepted), TypeOK'
    PROVE  IInv'
<1>1. /\ UNCHANGED <<body, done_cb, files, reporter_busy, current_report_filename>>
      /\ UNCHANGED <<received, rejected, stored, clashed, mixed>>
      /\ stage[x] = "opening"
  BY DEF SetChannelCb, https_set_channel_cb, report, history
<1>2. NoSilentLoss'
  BY <1>1 DEF IInv, NoSilentLoss, OnDisk, HeardOf
<1>3. CASE accepted
  <2>1. /\ stage' = [stage EXCEPT ![x] = "sent"]
        /\ message' = [message EXCEPT ![x] = body]
        /\ faults' = faults
    BY <1>3 DEF SetChannelCb, https_set_channel_cb, FaultUnless
  <2>2. Active' = Active /\ \A y \in Exchange : y # x => stage'[y] = stage[y] /\ message'[y] = message[y]
    BY <1>1, <2>1 DEF Active, IInv, TypeOK, TelecomTypeOK
  <2>3. AnsweredIsHeard'
    BY <1>1, <2>1, <2>2 DEF IInv, AnsweredIsHeard, HeardOf, TypeOK, TelecomTypeOK
  <2>4. Attended' /\ OneAtATime' /\ WedgedOnlyByFault'
    BY <1>1, <2>1, <2>2 DEF IInv, Attended, OneAtATime, WedgedOnlyByFault
  <2>5. \A y \in Active : InFlight(y)' = InFlight(y)
    BY <1>1, <2>1, <2>2 DEF InFlight, IInv, TypeOK, TelecomTypeOK, Active
  <2>6. DeletesWhatItSent'
    BY <1>1, <2>2, <2>5 DEF IInv, DeletesWhatItSent
  <2> QED BY <1>2, <2>3, <2>4, <2>6 DEF IInv
<1>4. CASE ~accepted
  <2>1. Dropped(x) /\ Fault("refused")
    BY <1>4 DEF SetChannelCb, https_set_channel_cb, FaultUnless
  <2>2. /\ Active' = Active \ {x}
        /\ \A y \in Active' : stage'[y] = stage[y] /\ message'[y] = message[y]
        /\ \A y \in Exchange : stage'[y] = "idle" \/ (stage'[y] = stage[y] /\ message'[y] = message[y])
    BY <2>1, Dropping DEF IInv
  <2>3. faults'["refused"] > 0
    BY <2>1, FaultHappened DEF IInv, FaultKind, Wedging
  <2>4. AnsweredIsHeard' /\ Attended' /\ OneAtATime'
    BY <1>1, <2>2 DEF IInv, AnsweredIsHeard, HeardOf, Attended, OneAtATime
  <2>5. WedgedOnlyByFault'
    BY <2>3 DEF WedgedOnlyByFault, Wedging
  <2>6. DeletesWhatItSent'
    BY <1>1, <2>2 DEF IInv, DeletesWhatItSent, InFlight
  <2> QED BY <1>2, <2>4, <2>5, <2>6 DEF IInv
<1> QED BY <1>3, <1>4

LEMMA ServerAnswersStep ==
    ASSUME IInv, NEW x \in Exchange, NEW accepted \in BOOLEAN,
           ServerAnswers(x, accepted), TypeOK'
    PROVE  IInv'
<1>1. /\ UNCHANGED <<body, done_cb, message, files, reporter_busy, current_report_filename>>
      /\ UNCHANGED <<stored, clashed, mixed>>
      /\ stage[x] = "sent"
      /\ stage' = [stage EXCEPT ![x] = "answered"]
  BY DEF ServerAnswers, Answer, report, history
<1>2. Active' = Active /\ \A y \in Exchange : y # x => stage'[y] = stage[y]
  BY <1>1 DEF Active, IInv, TypeOK, TelecomTypeOK
<1>3. \A r \in Reports : HeardOf(r) => HeardOf(r)'
  <2>1. /\ \A r \in Reports : received[r] > 0 => received'[r] > 0
        /\ rejected \subseteq rejected'
    BY SMT DEF ServerAnswers, world, IInv, TypeOK
  <2> QED BY <2>1 DEF HeardOf
<1>4. message[x] \in Reports => HeardOf(message[x])'
  <2> SUFFICES ASSUME message[x] \in Reports
               PROVE  received'[message[x]] > 0 \/ message[x] \in rejected'
    BY <1>1 DEF HeardOf
  <2>1. CASE accepted
    <3>1. /\ received' = [received EXCEPT ![message[x]] =
                             IF accepted /\ @ < 2 THEN @ + 1 ELSE @]
          /\ received \in [Reports -> 0 .. 2]
      BY DEF ServerAnswers, IInv, TypeOK
    <3>2. received'[message[x]] = IF received[message[x]] < 2
                                  THEN received[message[x]] + 1
                                  ELSE received[message[x]]
      BY <2>1, <3>1
    <3>3. received[message[x]] \in 0 .. 2
      BY <3>1
    <3> QED BY <3>2, <3>3, SMT
  <2>2. CASE ~accepted
    BY <2>2 DEF ServerAnswers
  <2> QED BY <2>1, <2>2
<1>5. AnsweredIsHeard'
  BY <1>1, <1>2, <1>3, <1>4 DEF IInv, AnsweredIsHeard, HeardOf
<1>6. \A j \in FaultKind : faults[j] > 0 => faults'[j] > 0
  BY FaultsStay DEF ServerAnswers, FaultUnless, FaultKind, IInv, world
<1>7. Attended' /\ OneAtATime' /\ WedgedOnlyByFault'
  BY <1>1, <1>2, <1>6 DEF IInv, Attended, OneAtATime, WedgedOnlyByFault, FaultKind
<1>8. NoSilentLoss'
  BY <1>1, <1>3 DEF IInv, NoSilentLoss, OnDisk, TypeOK
<1>9. \A y \in Active : InFlight(y)' = InFlight(y)
  BY <1>1, <1>2 DEF InFlight, IInv, TypeOK, TelecomTypeOK
<1>10. DeletesWhatItSent'
  BY <1>1, <1>2, <1>9 DEF IInv, DeletesWhatItSent
<1> QED BY <1>5, <1>7, <1>8, <1>10 DEF IInv

(* What the end of an exchange does to the reporter's state.               *)
LEMMA CompletedStep ==
    ASSUME IInv, NEW x \in Exchange, NEW ok \in BOOLEAN, NEW deleted \in BOOLEAN,
           stage[x] \in {"sent", "answered", "reading"},
           stage[x] = "sent" => ~ok,
           Dropped(x), Completed(ok, deleted), Outcome(ok, deleted),
           UNCHANGED <<done_cb, received, rejected, history>>,
           TypeOK'
    PROVE  IInv'
<1>1. /\ Active' = Active \ {x}
      /\ \A y \in Active' : stage'[y] = stage[y] /\ message'[y] = message[y]
      /\ \A y \in Exchange : stage'[y] = "idle" \/ (stage'[y] = stage[y] /\ message'[y] = message[y])
  BY Dropping DEF IInv
<1>2. UNCHANGED <<stored, clashed, mixed>>
  BY DEF history
<1>3. x \in Active
  BY DEF Active
<1>4. UNCHANGED current_report_filename
  BY DEF Completed, http_done_callback, http_done_callback_delayed, report
<1>5. ~mixed => Active' = {}
  BY <1>1, <1>3 DEF IInv, OneAtATime
<1>6. AnsweredIsHeard' /\ Attended' /\ OneAtATime' /\ DeletesWhatItSent'
  BY <1>1, <1>2, <1>4, <1>5 DEF IInv, AnsweredIsHeard, HeardOf, Attended, OneAtATime,
     DeletesWhatItSent
<1>7. \A j \in FaultKind : faults[j] > 0 => faults'[j] > 0
  BY FaultsStay DEF Outcome, FaultUnless, FaultKind, Repeating, IInv
<1>8. CASE done_cb \in ReportCallback
  <2>1. /\ reporter_busy' = FALSE
        /\ files' = files \/ (ok /\ vm_fs_delete(deleted))
    BY <1>8 DEF Completed, http_done_callback, http_done_callback_delayed, ReportCallback
  <2>2. WedgedOnlyByFault'
    BY <2>1 DEF WedgedOnlyByFault
  <2>3. NoSilentLoss'
    <3> SUFFICES ASSUME ~mixed, NEW r \in stored \ clashed, OnDisk(r), ~OnDisk(r)'
                 PROVE  HeardOf(r)
      BY <1>2 DEF IInv, NoSilentLoss, HeardOf
    <3>1. /\ files' = [files EXCEPT ![current_report_filename] = NoFile]
          /\ current_report_filename \in Time
          /\ ok
      BY <2>1 DEF vm_fs_delete, OnDisk
    <3>2. files[current_report_filename] = r
      BY <3>1 DEF OnDisk, IInv, TypeOK, ReportTypeOK
    <3>3. r \in Reports \ clashed
      BY DEF IInv, TypeOK
    <3>4. r = message[x] /\ stage[x] \in {"answered", "reading"}
      BY <1>3, <1>8, <3>1, <3>2, <3>3 DEF IInv, DeletesWhatItSent, InFlight
    <3> QED BY <3>3, <3>4 DEF IInv, AnsweredIsHeard
  <2> QED BY <1>6, <2>2, <2>3 DEF IInv
<1>9. CASE done_cb = "console"
  <2>1. UNCHANGED <<files, reporter_busy>>
    BY <1>9 DEF Completed, report
  <2>2. NoSilentLoss'
    BY <1>2, <2>1 DEF IInv, NoSilentLoss, OnDisk, HeardOf
  <2>3. WedgedOnlyByFault'
    BY <1>2, <1>7, <1>9, <2>1 DEF IInv, WedgedOnlyByFault, FaultKind, ReportCallback
  <2> QED BY <1>6, <2>2, <2>3 DEF IInv
<1> QED BY <1>8, <1>9 DEF Completed, ReportCallback

LEMMA ResponseCbStep ==
    ASSUME IInv, NEW x \in Exchange, NEW ok \in BOOLEAN, NEW deleted \in BOOLEAN,
           ResponseCb(x, ok, deleted), TypeOK'
    PROVE  IInv'
<1>1. CASE https_response_cb(x, ok, FALSE) /\ Completed(ok, deleted) /\ Outcome(ok, deleted)
  BY <1>1, CompletedStep DEF ResponseCb, https_response_cb
<1>2. CASE https_response_cb(x, ok, TRUE) /\ UNCHANGED <<report, faults>>
  <2>1. /\ UNCHANGED <<done_cb, message, files, reporter_busy, current_report_filename, faults>>
        /\ UNCHANGED <<received, rejected, stored, clashed, mixed>>
        /\ stage[x] = "answered"
        /\ stage' = [stage EXCEPT ![x] = "reading"]
    BY <1>2 DEF https_response_cb, report, ResponseCb, history
  <2>2. Active' = Active /\ \A y \in Exchange : y # x => stage'[y] = stage[y]
    BY <2>1 DEF Active, IInv, TypeOK, TelecomTypeOK
  <2>3. AnsweredIsHeard'
    BY <2>1, <2>2 DEF IInv, AnsweredIsHeard, HeardOf
  <2>4. Attended' /\ OneAtATime' /\ WedgedOnlyByFault' /\ NoSilentLoss'
    BY <2>1, <2>2 DEF IInv, Attended, OneAtATime, WedgedOnlyByFault, NoSilentLoss,
       OnDisk, HeardOf
  <2>5. ~mixed => \A y \in Active : InFlight(y)' = InFlight(y)
    BY <2>1, <2>2 DEF InFlight, IInv, TypeOK, TelecomTypeOK, OneAtATime, Active
  <2>6. DeletesWhatItSent'
    BY <2>1, <2>2, <2>5 DEF IInv, DeletesWhatItSent
  <2> QED BY <2>3, <2>4, <2>6 DEF IInv
<1> QED BY <1>1, <1>2 DEF ResponseCb

LEMMA QuietStep ==
    ASSUME IInv, TypeOK', UNCHANGED telecom, UNCHANGED <<world, history>>,
           UNCHANGED <<files, reporter_busy, current_report_filename>>
    PROVE  IInv'
<1>1. Active' = Active
  BY DEF telecom, Active
<1> QED BY <1>1 DEF IInv, telecom, world, history, AnsweredIsHeard, HeardOf, Attended,
        OneAtATime, DeletesWhatItSent, InFlight, NoSilentLoss, OnDisk, WedgedOnlyByFault

LEMMA ReadContentCbStep ==
    ASSUME IInv, NEW x \in Exchange, NEW ok \in BOOLEAN, NEW deleted \in BOOLEAN,
           ReadContentCb(x, ok, deleted), TypeOK'
    PROVE  IInv'
<1>1. CASE https_read_content_cb(x, FALSE) /\ Completed(ok, deleted) /\ Outcome(ok, deleted)
  BY <1>1, CompletedStep DEF ReadContentCb, https_read_content_cb
<1>2. CASE https_read_content_cb(x, TRUE) /\ UNCHANGED <<report, faults>>
  BY <1>2, QuietStep DEF ReadContentCb, https_read_content_cb, report, telecom, world
<1> QED BY <1>1, <1>2 DEF ReadContentCb

LEMMA TerminationStep ==
    ASSUME IInv, Termination, TypeOK'
    PROVE  IInv'
<1>1. /\ UNCHANGED <<done_cb, files, reporter_busy, current_report_filename>>
      /\ UNCHANGED <<received, rejected, stored, clashed, mixed>>
      /\ stage' = [y \in Exchange |-> "idle"]
  BY DEF Termination, https_termination_cb, AllDropped, report, history
<1>2. Active' = {}
  BY <1>1 DEF Active
<1>3. faults'["terminated"] > 0
  BY FaultHappened DEF Termination, IInv, FaultKind, Wedging
<1>4. AnsweredIsHeard' /\ Attended' /\ OneAtATime' /\ DeletesWhatItSent'
  BY <1>1, <1>2 DEF AnsweredIsHeard, Attended, OneAtATime, DeletesWhatItSent
<1>5. WedgedOnlyByFault' /\ NoSilentLoss'
  BY <1>1, <1>3 DEF WedgedOnlyByFault, Wedging, IInv, NoSilentLoss, OnDisk, HeardOf
<1> QED BY <1>4, <1>5 DEF IInv

LEMMA ConsoleRequestStep ==
    ASSUME IInv, ConsoleRequest, TypeOK'
    PROVE  IInv'
<1>1. /\ UNCHANGED <<files, reporter_busy, current_report_filename>>
      /\ UNCHANGED <<faults, received, rejected, stored, clashed>>
      /\ done_cb' = "console"
      /\ vm_https_set_channel
      /\ mixed' = (mixed \/ Active # {})
  BY DEF ConsoleRequest, report, world, http_get, http_post
<1>2. PICK x \in Exchange \ Active :
        /\ Active' = Active \cup {x}
        /\ stage'[x] = "opening"
        /\ \A y \in Exchange \ {x} : stage'[y] = stage[y]
        /\ message' = message
  BY <1>1, Opening DEF IInv
<1>3. ~mixed' => ~mixed /\ Active = {} /\ Active' = {x}
  BY <1>1, <1>2
<1>4. AnsweredIsHeard'
  BY <1>1, <1>2 DEF IInv, AnsweredIsHeard, HeardOf
<1>5. Attended' /\ OneAtATime' /\ DeletesWhatItSent'
  BY <1>1, <1>3 DEF Attended, OneAtATime, DeletesWhatItSent, ReportCallback
<1>6. WedgedOnlyByFault' /\ NoSilentLoss'
  BY <1>1, <1>3 DEF IInv, WedgedOnlyByFault, NoSilentLoss, OnDisk, HeardOf
<1> QED BY <1>4, <1>5, <1>6 DEF IInv

LEMMA FreshStartStep ==
    ASSUME IInv, FreshStart, TypeOK'
    PROVE  IInv'
<1>1. /\ UNCHANGED <<files, received, rejected, stored, clashed, mixed>>
      /\ reporter_busy' = FALSE
      /\ stage' = [y \in Exchange |-> "idle"]
  BY DEF FreshStart, TelecomRestart, ReportRestart, AllDropped, history
<1>2. Active' = {}
  BY <1>1 DEF Active
<1> QED BY <1>1, <1>2 DEF IInv, AnsweredIsHeard, Attended, OneAtATime, DeletesWhatItSent,
        WedgedOnlyByFault, NoSilentLoss, OnDisk, HeardOf

-----------------------------------------------------------------------------
LEMMA NextInv == IInv /\ [Next]_vars => IInv'
<1> SUFFICES ASSUME IInv, [Next]_vars
             PROVE  IInv'
  OBVIOUS
<1>1. TypeOK'
  BY TypeStep DEF IInv
<1>2. ASSUME NEW t \in Time, NEW outcome \in {"whole", "torn", "unopened"},
             ReportTimer(t, outcome)
      PROVE  IInv'
  BY <1>1, <1>2, ReportTimerStep
<1>3. CASE ResendTimer
  BY <1>1, <1>3, SendDelayedStep DEF ResendTimer
<1>4. ASSUME NEW x \in Exchange, Service(x)
      PROVE  IInv'
  BY <1>1, <1>4, SetChannelCbStep, ServerAnswersStep, ResponseCbStep, ReadContentCbStep
     DEF Service
<1>5. CASE Termination
  BY <1>1, <1>5, TerminationStep
<1>6. CASE ConsoleRequest
  BY <1>1, <1>6, ConsoleRequestStep
<1>7. ASSUME NEW on \in BOOLEAN, ConsoleReportHttp(on)
      PROVE  IInv'
  BY <1>1, <1>7, QuietStep DEF ConsoleReportHttp, set_http_report
<1>8. CASE ConsoleReboot
  BY <1>1, <1>8, QuietStep DEF ConsoleReboot, Reboot
<1>9. CASE Restart \/ PowerCut
  BY <1>1, <1>9, FreshStartStep DEF Restart, PowerCut
<1>10. CASE UNCHANGED vars
  BY <1>1, <1>10, QuietStep DEF vars, report
<1> QED BY <1>2, <1>3, <1>4, <1>5, <1>6, <1>7, <1>8, <1>9, <1>10 DEF Next

THEOREM Invariance == Spec => []IInv
BY InitInv, NextInv, PTL DEF Spec

(* The statics of report.c and telecom.c, the files and what is known of   *)
(* the reports keep their types (report.c:35-42, telecom.c:13-22).         *)
THEOREM TypeCorrect == Spec => []TypeOK
BY Invariance, PTL DEF IInv

(* A report in a file is not deleted before the server answered it, for    *)
(* any sequence of faults and restarts (report.c:149-151, 179-182).        *)
THEOREM ReportsNotLost == Spec => []NoSilentLoss
BY Invariance, PTL DEF IInv

(* The reporter deletes the very file whose contents it sent, although the *)
(* name is a static that the next report overwrites (report.c:268, 312).   *)
THEOREM RightFileDeleted == Spec => []DeletesWhatItSent
BY Invariance, PTL DEF IInv

(* reporter_busy excludes a second exchange of the reporter (report.c:264, *)
(* 301).                                                                   *)
THEOREM ReporterExclusive == Spec => []OneAtATime
BY Invariance, PTL DEF IInv

(* Only the three faults named wedge the reporter (report.c:313-323,       *)
(* telecom.c:27, 47).                                                      *)
THEOREM WedgesExplained == Spec => []WedgedOnlyByFault
BY Invariance, PTL DEF IInv

-----------------------------------------------------------------------------
(* Reporter, telecom.c, timers, server, restarts and every fault together  *)
(* implement Outbox while nobody is at the console.                        *)

(* What is known of a report is of one that was made.                      *)
OnlyMade ==
    /\ stored \subseteq 1 .. made
    /\ clashed \subseteq 1 .. made
    /\ \A t \in Time : files[t] \in Reports => files[t] <= made
    /\ body \in Reports => body <= made
    /\ \A x \in Exchange : message[x] \in Reports => message[x] <= made

(* What is being sent is on disk still, if it ever was.                    *)
SendsWhatIsKept ==
    \A x \in Active : InFlight(x) \in stored \ clashed => OnDisk(InFlight(x))

Undisturbed == ~mixed /\ done_cb # "console"

OInv == IInv /\ OnlyMade /\ SendsWhatIsKept /\ Undisturbed

-----------------------------------------------------------------------------
LEMMA InitOInv == Init => OInv
<1> SUFFICES ASSUME Init PROVE OInv
  OBVIOUS
<1> USE DEF Init, TelecomInit, ReportInit
<1>1. OnlyMade
  BY PostBodies DEF OnlyMade, Body
<1>2. SendsWhatIsKept
  BY DEF SendsWhatIsKept
<1>3. Undisturbed
  BY DEF Undisturbed
<1> QED BY <1>1, <1>2, <1>3, InitInv DEF OInv

(* Reports are numbers, and neither torn files nor missing ones are.       *)
LEMMA ReportNumbers ==
    ASSUME TypeOK
    PROVE  /\ Reports = 1 .. MaxReports /\ Reports \subseteq Int
           /\ made \in 0 .. MaxReports
           /\ NoFile \notin Reports /\ Torn \notin Reports /\ Other \notin Reports
           /\ files \in [Time -> Post \cup {NoFile}]
           /\ body \in Body /\ message \in [Exchange -> Body]
BY PostBodies DEF TypeOK, ReportTypeOK, TelecomTypeOK, Reports, Body

LEMMA ReportTimerO ==
    ASSUME OInv, IInv', NEW t \in Time, NEW outcome \in {"whole", "torn", "unopened"},
           ReportTimer(t, outcome)
    PROVE  OInv' /\ OB!Next
<1>1. /\ report_timer_callback(t, outcome)
      /\ received' = received /\ rejected' = rejected
      /\ stored' = IF outcome = "whole" THEN stored \cup {made + 1} ELSE stored
      /\ clashed' = clashed \cup (SameName(t) \cap Reports)
      /\ mixed' = (mixed \/ (~reporter_busy /\ done_cb = "console" /\ Active # {}))
  BY DEF ReportTimer
<1>2. TypeOK /\ IInv
  BY DEF OInv, IInv
<1>3. PICK n \in Reports : /\ n = made + 1 /\ made' = n
                           /\ files' = Written(t, outcome)
  BY <1>1, <1>2, ReportNumbers, SMT DEF report_timer_callback
<1>4. /\ \A s \in Time : s # t => files'[s] = files[s]
      /\ outcome = "whole" => files'[t] = n
      /\ outcome = "torn" => files'[t] = Torn
      /\ outcome = "unopened" => files'[t] = files[t]
  BY <1>2, <1>3, ReportNumbers DEF Written
<1>5. \A s \in Time : files'[s] = files[s] \/ files'[s] \notin Reports \/ files'[s] = n
  BY <1>2, <1>4, ReportNumbers
<1>6. \A q \in Reports : q # n /\ q # files[t] => (OnDisk(q)' <=> OnDisk(q))
  BY <1>2, <1>4, <1>5, ReportNumbers DEF OnDisk
<1>7. \A q \in clashed' : q \in clashed \/ q = n \/ q = files[t]
  BY <1>1, <1>3 DEF SameName
<1>8. files[t] \in Reports => files[t] \in clashed' /\ files[t] <= made
  BY <1>1 DEF SameName, OInv, OnlyMade
<1>9. OnlyMade'
  <2>1. stored' \subseteq 1 .. made' /\ clashed' \subseteq 1 .. made'
    <3>1. \A q \in stored' : q \in Reports /\ q <= made'
      <4>1. \A q \in stored' : q \in stored \/ q = n
        BY <1>1, <1>3
      <4>2. \A q \in stored : q \in Reports /\ q <= made
        BY <1>2, ReportNumbers DEF OInv, OnlyMade, TypeOK
      <4> QED BY <1>2, <1>3, <4>1, <4>2, ReportNumbers, SMT
    <3>2. \A q \in clashed' : q \in Reports /\ q <= made'
      <4>1. \A q \in clashed : q \in Reports /\ q <= made
        BY <1>2, ReportNumbers DEF OInv, OnlyMade, TypeOK
      <4>2. clashed' \subseteq Reports
        BY DEF IInv, TypeOK
      <4> QED BY <1>2, <1>3, <1>7, <1>8, <4>1, <4>2, ReportNumbers, SMT
    <3> QED BY <1>2, <1>3, <3>1, <3>2, ReportNumbers, SMT
  <2>2. \A s \in Time : files'[s] \in Reports => files'[s] <= made'
    BY <1>2, <1>3, <1>5, ReportNumbers, SMT DEF OInv, OnlyMade
  <2>3. message' = message /\ (body' = body \/ body' = n)
    BY <1>1, <1>3 DEF report_timer_callback, http_post, vm_https_set_channel, telecom
  <2>4. (body' \in Reports => body' <= made')
    BY <1>2, <1>3, <2>3, ReportNumbers, SMT DEF OInv, OnlyMade
  <2>5. \A x \in Exchange : message'[x] \in Reports => message'[x] <= made'
    BY <1>2, <1>3, <2>3, ReportNumbers, SMT DEF OInv, OnlyMade
  <2> QED BY <2>1, <2>2, <2>4, <2>5 DEF OnlyMade
<1>10. Undisturbed'
  BY <1>1 DEF OInv, Undisturbed, report_timer_callback, http_post, telecom
<1>11. n \in stored' \ clashed' => OnDisk(n)'
  <2>1. n \notin stored
    BY <1>2, <1>3, ReportNumbers, SMT DEF OInv, OnlyMade
  <2> QED BY <1>1, <1>4, <2>1 DEF OnDisk
<1>12. \A q \in stored' \ clashed' : q # n =>
         q \in stored \ clashed /\ q \in Reports /\ q # files[t]
  BY <1>1, <1>2, <1>3, <1>8 DEF TypeOK
<1>13. SendsWhatIsKept'
  <2> SUFFICES ASSUME NEW x \in Active', InFlight(x)' \in stored' \ clashed'
               PROVE  OnDisk(InFlight(x))'
    BY DEF SendsWhatIsKept
  <2>1. CASE reporter_busy
    <3>1. UNCHANGED telecom
      BY <1>1, <2>1 DEF report_timer_callback
    <3>2. Active' = Active /\ InFlight(x)' = InFlight(x)
      BY <3>1 DEF telecom, Active, InFlight
    <3>3. CASE InFlight(x) = n
      BY <1>11, <3>2, <3>3 DEF OnDisk
    <3>4. CASE InFlight(x) # n
      <4>1. InFlight(x) \in stored \ clashed /\ InFlight(x) \in Reports /\ InFlight(x) # files[t]
        BY <1>12, <3>2, <3>4
      <4>2. OnDisk(InFlight(x))
        BY <3>2, <4>1 DEF OInv, SendsWhatIsKept
      <4>3. PICK s \in Time : files[s] = InFlight(x)
        BY <4>2 DEF OnDisk
      <4>4. s # t
        BY <4>1, <4>3
      <4> QED BY <1>4, <3>2, <4>3, <4>4 DEF OnDisk
    <3> QED BY <3>3, <3>4
  <2>2. CASE ~reporter_busy
    <3>1. http_post(n, "http_done_callback")
      BY <1>1, <1>3, <2>2 DEF report_timer_callback
    <3>2. PICK y \in Exchange \ Active :
            /\ Active' = Active \cup {y}
            /\ stage'[y] = "opening"
      BY <1>2, <3>1, Opening DEF http_post
    <3>3. Active = {}
      BY <1>2, <2>2, IdleWhenFree DEF OInv, Undisturbed
    <3>4. InFlight(x)' = n
      BY <3>1, <3>2, <3>3 DEF InFlight, http_post
    <3> QED BY <1>11, <3>4 DEF OnDisk
  <2> QED BY <2>1, <2>2
<1>14. OB!Next
  <2> DEFINE pushed == {q \in Reports : q = files[t] /\ Place(q) = "kept"}
  <2>1. Place(n) = "new"
    BY <1>2, <1>3, ReportNumbers, SMT DEF Place
  <2>2. Place(n)' \in {"kept", "adrift"}
    <3>1. ~(n > made')
      BY <1>2, <1>3, ReportNumbers, SMT
    <3> QED BY <1>3, <1>11, <3>1, Zenon DEF Place
  <2>3. ASSUME NEW q \in Reports, q # n, q = files[t]
        PROVE  /\ Place(q)' = "adrift"
               /\ Place(q) \in {"kept", "adrift"}
    <3>1. OnDisk(q)
      BY <2>3 DEF OnDisk
    <3>2. ~(q > made) /\ ~(q > made')
      BY <1>2, <1>3, <1>8, <2>3, ReportNumbers, SMT
    <3>3. q \notin stored' \ clashed'
      BY <1>8, <2>3
    <3> QED BY <3>1, <3>2, <3>3, Zenon DEF Place
  <2>4. ASSUME NEW q \in Reports, q # n, q # files[t]
        PROVE  Place(q)' = Place(q)
    <3>1. (q > made') <=> (q > made)
      BY <1>2, <1>3, <2>4, ReportNumbers, SMT
    <3>2. q \in stored' \ clashed' <=> q \in stored \ clashed
      BY <1>1, <1>3, <1>7, <2>4
    <3>3. OnDisk(q)' <=> OnDisk(q)
      BY <1>6, <2>4
    <3> QED BY <3>1, <3>2, <3>3, Zenon DEF Place
  <2>5. \A q \in Reports : Place(q)' = IF q = n THEN Place(n)'
                                       ELSE IF q \in pushed THEN "adrift"
                                       ELSE Place(q)
    BY <2>3, <2>4
  <2>6. /\ [q \in Reports |-> Place(q)]' =
             [q \in Reports |-> IF q = n THEN Place(n)'
                                ELSE IF q \in pushed THEN "adrift"
                                ELSE [r \in Reports |-> Place(r)][q]]
        /\ [q \in Reports |-> Place(q)][n] = "new"
        /\ \A q \in pushed : [r \in Reports |-> Place(r)][q] = "kept"
    BY <1>3, <2>1, <2>5
  <2>7. UNCHANGED [q \in Reports |-> Answers(q)]
    BY <1>1 DEF Answers
  <2>8. OB!Make(n, pushed)
    BY <2>2, <2>6, <2>7, Zenon DEF OB!Make
  <2> QED BY <1>3, <2>8, Zenon DEF OB!Next
<1> QED BY <1>9, <1>10, <1>13, <1>14 DEF OInv

(* A step that changes neither the files nor what is known of the reports. *)
LEMMA UnseenStep ==
    ASSUME UNCHANGED <<made, files, stored, clashed, received, rejected>>
    PROVE  UNCHANGED OB!obvars
BY DEF OB!obvars, Place, Answers, OnDisk

LEMMA SendDelayedO ==
    ASSUME OInv, IInv', NEW t \in Time, NEW readable \in BOOLEAN,
           SendDelayed(t, readable)
    PROVE  OInv' /\ UNCHANGED OB!obvars
<1>1. /\ send_delayed_report(t, readable)
      /\ UNCHANGED <<made, files, stored, clashed, received, rejected>>
      /\ mixed' = (mixed \/ (readable /\ done_cb = "console" /\ Active # {}))
      /\ ~reporter_busy
  BY DEF SendDelayed, send_delayed_report
<1>2. TypeOK /\ IInv
  BY DEF OInv, IInv
<1>3. CASE readable
  <2>1. http_post(files[t], "http_done_callback_delayed")
    BY <1>1, <1>3 DEF send_delayed_report
  <2>2. PICK y \in Exchange \ Active :
          /\ Active' = Active \cup {y}
          /\ stage'[y] = "opening"
          /\ message' = message
    BY <1>2, <2>1, Opening DEF http_post
  <2>3. Active = {}
    BY <1>1, <1>2, IdleWhenFree DEF OInv, Undisturbed
  <2>4. body' = files[t]
    BY <2>1 DEF http_post
  <2>5. OnlyMade'
    BY <1>1, <2>2, <2>4 DEF OInv, OnlyMade
  <2>6. SendsWhatIsKept'
    BY <1>1, <2>2, <2>3, <2>4 DEF SendsWhatIsKept, InFlight, OnDisk
  <2>7. Undisturbed'
    BY <1>1, <2>1 DEF OInv, Undisturbed, http_post
  <2> QED BY <1>1, <2>5, <2>6, <2>7, UnseenStep DEF OInv
<1>4. CASE ~readable
  <2>1. UNCHANGED telecom
    BY <1>1, <1>4 DEF send_delayed_report
  <2> QED BY <1>1, <1>4, <2>1, UnseenStep DEF OInv, OnlyMade, SendsWhatIsKept, Undisturbed,
          telecom, Active, InFlight, OnDisk
<1> QED BY <1>3, <1>4

LEMMA SetChannelCbO ==
    ASSUME OInv, IInv', NEW x \in Exchange, NEW accepted \in BOOLEAN,
           SetChannelCb(x, accepted)
    PROVE  OInv' /\ UNCHANGED OB!obvars
<1>1. /\ UNCHANGED <<made, files, stored, clashed, received, rejected>>
      /\ UNCHANGED <<body, done_cb, mixed>>
      /\ stage[x] = "opening"
  BY DEF SetChannelCb, https_set_channel_cb, report, history
<1>2. TypeOK
  BY DEF OInv, IInv
<1>3. /\ \A y \in Exchange : message'[y] \in {message[y], body, Other}
      /\ \A y \in Active' : y \in Active /\ InFlight(y)' = InFlight(y)
  <2>1. CASE accepted
    <3>1. /\ stage' = [stage EXCEPT ![x] = "sent"]
          /\ message' = [message EXCEPT ![x] = body]
      BY <2>1 DEF SetChannelCb, https_set_channel_cb
    <3> QED BY <1>1, <1>2, <3>1 DEF TypeOK, TelecomTypeOK, Active, InFlight
  <2>2. CASE ~accepted
    <3>1. Dropped(x)
      BY <2>2 DEF SetChannelCb, https_set_channel_cb
    <3> QED BY <1>1, <1>2, <3>1 DEF Dropped, TypeOK, TelecomTypeOK, Active, InFlight
  <2> QED BY <2>1, <2>2
<1>4. OnlyMade'
  BY <1>1, <1>2, <1>3, ReportNumbers DEF OInv, OnlyMade
<1>5. SendsWhatIsKept'
  BY <1>1, <1>3 DEF OInv, SendsWhatIsKept, OnDisk
<1> QED BY <1>1, <1>4, <1>5, UnseenStep DEF OInv, Undisturbed

LEMMA ServerAnswersO ==
    ASSUME OInv, IInv', NEW x \in Exchange, NEW accepted \in BOOLEAN,
           ServerAnswers(x, accepted)
    PROVE  OInv' /\ [OB!Next]_(OB!obvars)
<1>1. /\ UNCHANGED <<made, files, stored, clashed, mixed>>
      /\ UNCHANGED <<body, done_cb, message>>
      /\ stage[x] = "sent"
      /\ stage' = [stage EXCEPT ![x] = "answered"]
  BY DEF ServerAnswers, Answer, report, history
<1>2. TypeOK
  BY DEF OInv, IInv
<1>3. Active' = Active /\ \A y \in Active : InFlight(y)' = InFlight(y)
  BY <1>1, <1>2 DEF TypeOK, TelecomTypeOK, Active, InFlight
<1>4. OInv'
  BY <1>1, <1>3 DEF OInv, OnlyMade, SendsWhatIsKept, Undisturbed, OnDisk
<1>5. CASE message[x] \notin Reports
  BY <1>1, <1>4, <1>5, UnseenStep DEF ServerAnswers, world
<1>6. CASE message[x] \in Reports
  <2> DEFINE r == message[x]
  <2>1. \A q \in Reports : q # r => Answers(q)' = Answers(q)
    BY <1>1, <1>2, <1>6, SMT DEF ServerAnswers, Answers, TypeOK
  <2>2. Answers(r)' \in {Answers(r), Answers(r) + 1}
    BY <1>1, <1>2, <1>6, SMT DEF ServerAnswers, Answers, TypeOK
  <2>3. Place(r) \in {"kept", "adrift"}
    <3>1. x \in Active /\ InFlight(x) = r
      BY <1>1 DEF Active, InFlight
    <3>2. ~(r > made)
      BY <1>2, <1>6, ReportNumbers, SMT DEF OInv, OnlyMade
    <3>3. r \in stored \ clashed => OnDisk(r)
      BY <3>1 DEF OInv, SendsWhatIsKept
    <3> QED BY <3>2, <3>3, Zenon DEF Place
  <2>4. UNCHANGED [q \in Reports |-> Place(q)]
    BY <1>1 DEF Place, OnDisk
  <2>5. CASE Answers(r)' = Answers(r)
    <3>1. UNCHANGED [q \in Reports |-> Answers(q)]
      BY <1>1, <2>1, <2>5
    <3> QED BY <1>4, <2>4, <3>1 DEF OB!obvars
  <2>6. CASE Answers(r)' = Answers(r) + 1
    <3>1. [q \in Reports |-> Answers(q)]' =
            [[q \in Reports |-> Answers(q)] EXCEPT ![r] = @ + 1]
      BY <1>1, <1>6, <2>1, <2>6
    <3>2. [q \in Reports |-> Place(q)][r] \in {"kept", "adrift"}
      BY <1>6, <2>3
    <3>3. OB!Hear(r)
      BY <2>4, <3>1, <3>2, Zenon DEF OB!Hear
    <3> QED BY <1>4, <1>6, <3>3, Zenon DEF OB!Next
  <2> QED BY <2>2, <2>5, <2>6
<1> QED BY <1>5, <1>6

(* The end of an exchange changes the place of one report at most: of the  *)
(* one whose file it deletes.                                              *)
LEMMA CompletedO ==
    ASSUME OInv, IInv', NEW x \in Exchange, NEW ok \in BOOLEAN, NEW deleted \in BOOLEAN,
           stage[x] # "idle", Dropped(x), Completed(ok, deleted),
           body' \in {body, Other},
           UNCHANGED <<done_cb, received, rejected, history>>
    PROVE  OInv' /\ [OB!Next]_(OB!obvars)
<1>1. /\ UNCHANGED <<made, current_report_filename, stored, clashed, mixed>>
      /\ files' = files \/ vm_fs_delete(deleted)
  BY DEF Completed, http_done_callback, http_done_callback_delayed, report, history
<1>2. TypeOK /\ IInv
  BY DEF OInv, IInv
<1>3. Active' = {}
  BY <1>2, Dropping DEF OInv, Undisturbed, IInv, OneAtATime, Active
<1>4. CASE files' = files
  <2>1. OInv'
    BY <1>1, <1>2, <1>3, <1>4, ReportNumbers DEF OInv, OnlyMade, SendsWhatIsKept, Undisturbed,
       Dropped
  <2> QED BY <1>1, <1>4, <2>1, UnseenStep
<1>5. CASE files' # files
  <2>1. /\ current_report_filename \in Time
        /\ files' = [files EXCEPT ![current_report_filename] = NoFile]
    BY <1>1, <1>5 DEF vm_fs_delete
  <2>2. \A t \in Time : files'[t] = IF t = current_report_filename THEN NoFile ELSE files[t]
    BY <1>2, <2>1, ReportNumbers
  <2>3. OInv'
    BY <1>1, <1>2, <1>3, <2>2, ReportNumbers DEF OInv, OnlyMade, SendsWhatIsKept, Undisturbed,
       Dropped
  <2> DEFINE r == files[current_report_filename]
  <2>4. \A q \in Reports : q # r => Place(q)' = Place(q)
    <3>1. \A q \in Reports : q # r => (OnDisk(q)' <=> OnDisk(q))
      BY <1>2, <2>1, <2>2, ReportNumbers DEF OnDisk
    <3> QED BY <1>1, <3>1, Zenon DEF Place
  <2>5. UNCHANGED [q \in Reports |-> Answers(q)]
    BY <1>1 DEF Answers
  <2>6. CASE \E n \in Reports : n = r /\ Place(n)' # Place(n)
    <3>1. PICK n \in Reports : n = r /\ Place(n)' # Place(n)
      BY <2>6
    <3>2. OnDisk(n)
      BY <2>1, <3>1 DEF OnDisk
    <3>3. n \in stored \ clashed /\ ~OnDisk(n)' /\ ~(n > made)
      BY <1>1, <3>1, <3>2, Zenon DEF Place
    <3>4. Place(n) = "kept" /\ Place(n)' = "gone"
      BY <1>1, <3>2, <3>3, Zenon DEF Place
    <3>5. HeardOf(n)
      BY <1>1, <3>3 DEF OInv, Undisturbed, IInv, NoSilentLoss, HeardOf
    <3>6. Answers(n) > 0
      <4>1. received[n] \in 0 .. 2
        BY <1>2 DEF TypeOK
      <4> QED BY <3>5, <4>1, SMT DEF HeardOf, Answers
    <3>7. [q \in Reports |-> Place(q)]' = [[q \in Reports |-> Place(q)] EXCEPT ![n] = "gone"]
      BY <2>4, <3>1, <3>4
    <3>8. [q \in Reports |-> Place(q)][n] = "kept" /\ [q \in Reports |-> Answers(q)][n] > 0
      BY <3>4, <3>6
    <3>9. OB!Discard(n)
      BY <2>5, <3>7, <3>8, Zenon DEF OB!Discard
    <3> QED BY <2>3, <3>9, Zenon DEF OB!Next
  <2>7. CASE \A n \in Reports : Place(n)' = Place(n)
    <3>1. UNCHANGED [q \in Reports |-> Place(q)]
      BY <2>7
    <3> QED BY <2>3, <2>5, <3>1 DEF OB!obvars
  <2> QED BY <2>4, <2>6, <2>7
<1> QED BY <1>1, <1>4, <1>5

LEMMA ResponseCbO ==
    ASSUME OInv, IInv', NEW x \in Exchange, NEW ok \in BOOLEAN, NEW deleted \in BOOLEAN,
           ResponseCb(x, ok, deleted)
    PROVE  OInv' /\ [OB!Next]_(OB!obvars)
<1>1. CASE https_response_cb(x, ok, FALSE) /\ Completed(ok, deleted)
  BY <1>1, CompletedO DEF ResponseCb, https_response_cb
<1>2. CASE https_response_cb(x, ok, TRUE) /\ UNCHANGED <<report, faults>>
  <2>1. /\ UNCHANGED <<made, files, stored, clashed, received, rejected>>
        /\ UNCHANGED <<done_cb, mixed, message>>
        /\ body' \in {body, Other}
        /\ stage[x] = "answered"
        /\ stage' = [stage EXCEPT ![x] = "reading"]
    BY <1>2 DEF https_response_cb, report, ResponseCb, history
  <2>2. TypeOK /\ IInv
    BY DEF OInv, IInv
  <2>3. Active' = Active /\ x \in Active
    BY <2>1, <2>2 DEF TypeOK, TelecomTypeOK, Active
  <2>4. \A y \in Active : InFlight(y)' = InFlight(y)
    BY <2>1, <2>2, <2>3 DEF OInv, Undisturbed, IInv, OneAtATime, InFlight, TypeOK,
       TelecomTypeOK
  <2>5. OnlyMade'
    BY <2>1, <2>2, ReportNumbers DEF OInv, OnlyMade
  <2>6. SendsWhatIsKept'
    BY <2>1, <2>3, <2>4 DEF OInv, SendsWhatIsKept, OnDisk
  <2> QED BY <2>1, <2>5, <2>6, UnseenStep DEF OInv, Undisturbed
<1> QED BY <1>1, <1>2 DEF ResponseCb

(* Everything the outbox does not see and that leaves telecom.c alone.     *)
LEMMA QuietO ==
    ASSUME OInv, IInv', UNCHANGED telecom,
           UNCHANGED <<made, files, stored, clashed, received, rejected, mixed>>
    PROVE  OInv' /\ UNCHANGED OB!obvars
BY UnseenStep DEF OInv, OnlyMade, SendsWhatIsKept, Undisturbed, telecom, Active, InFlight,
   OnDisk

LEMMA ReadContentCbO ==
    ASSUME OInv, IInv', NEW x \in Exchange, NEW ok \in BOOLEAN, NEW deleted \in BOOLEAN,
           ReadContentCb(x, ok, deleted)
    PROVE  OInv' /\ [OB!Next]_(OB!obvars)
<1>1. CASE https_read_content_cb(x, FALSE) /\ Completed(ok, deleted)
  BY <1>1, CompletedO DEF ReadContentCb, https_read_content_cb
<1>2. CASE https_read_content_cb(x, TRUE) /\ UNCHANGED <<report, faults>>
  BY <1>2, QuietO DEF ReadContentCb, https_read_content_cb, report, telecom, history
<1> QED BY <1>1, <1>2 DEF ReadContentCb

(* The exchanges are gone, by termination of the service or a restart.     *)
LEMMA AllDroppedO ==
    ASSUME OInv, IInv', Termination \/ FreshStart
    PROVE  OInv' /\ UNCHANGED OB!obvars
<1>1. /\ UNCHANGED <<made, files, stored, clashed, received, rejected, mixed>>
      /\ body' \in {body, Other} /\ done_cb' \in {done_cb, NoCallback}
      /\ AllDropped
  BY DEF Termination, https_termination_cb, FreshStart, TelecomRestart, ReportRestart,
     report, history
<1>2. Active' = {} /\ TypeOK
  BY <1>1 DEF AllDropped, Active, OInv, IInv
<1>3. OnlyMade' /\ SendsWhatIsKept'
  BY <1>1, <1>2, ReportNumbers DEF OInv, OnlyMade, SendsWhatIsKept, AllDropped
<1>4. Undisturbed'
  BY <1>1 DEF OInv, Undisturbed
<1> QED BY <1>1, <1>3, <1>4, UnseenStep DEF OInv

-----------------------------------------------------------------------------
LEMMA NextO ==
    ASSUME ~Console, OInv, [Next]_vars
    PROVE  OInv' /\ [OB!Next]_(OB!obvars)
<1>1. IInv'
  BY NextInv DEF OInv
<1>2. ASSUME NEW t \in Time, NEW outcome \in {"whole", "torn", "unopened"},
             ReportTimer(t, outcome)
      PROVE  OInv' /\ OB!Next
  BY <1>1, <1>2, ReportTimerO
<1>3. CASE ResendTimer
  BY <1>1, <1>3, SendDelayedO DEF ResendTimer
<1>4. ASSUME NEW x \in Exchange, Service(x)
      PROVE  OInv' /\ [OB!Next]_(OB!obvars)
  BY <1>1, <1>4, SetChannelCbO, ServerAnswersO, ResponseCbO, ReadContentCbO DEF Service
<1>5. CASE Termination \/ Restart \/ PowerCut
  BY <1>1, <1>5, AllDroppedO DEF Restart, PowerCut
<1>6. CASE UNCHANGED vars
  BY <1>1, <1>6, QuietO DEF vars, report, world, history
<1> QED BY <1>2, <1>3, <1>4, <1>5, <1>6
        DEF Next, ConsoleRequest, ConsoleReportHttp, ConsoleReboot

LEMMA InitO == Init => OB!Init
BY DEF Init, ReportInit, OB!Init, Place, Answers, Reports

(* While nobody is at the console, the device's reports are in an outbox:  *)
(* a stored one is kept until it was answered and not sent once it is gone *)
(* (report.c:149-151, 179-182, 264-268, 301-312).                          *)
THEOREM DeliveryIsOutbox == ~Console => (Spec => ImplementsOutbox)
<1> SUFFICES ASSUME ~Console PROVE Spec => OB!Spec
  BY DEF ImplementsOutbox
<1>1. Init => OInv /\ OB!Init
  BY InitOInv, InitO
<1>2. OInv /\ [Next]_vars => OInv' /\ [OB!Next]_(OB!obvars)
  BY NextO
<1> QED BY <1>1, <1>2, PTL DEF Spec, OB!Spec

-----------------------------------------------------------------------------
(* No fault so far that makes the device send what the server has.         *)
Steady == \A k \in Repeating : faults[k] = 0

(* Each report is in one file at most, and one that is on its way is in    *)
(* no other file than the one that goes with the end of its exchange.      *)
OneFileEach ==
    /\ \A s, t \in Time : files[s] = files[t] /\ files[s] \in Reports => s = t
    /\ \A x \in Active, t \in Time :
          InFlight(x) \in Reports /\ files[t] = InFlight(x) => t = current_report_filename

(* A report the server stored is not on its way to it a second time.  If   *)
(* it is on disk still, its exchange is not over, or never will be, and    *)
(* the reporter is busy with it.                                           *)
StoredOnce ==
    \A r \in Reports : received[r] # 0 =>
        /\ received[r] = 1 /\ r <= made
        /\ \A x \in Active : InFlight(x) = r => stage[x] \in {"answered", "reading"}
        /\ OnDisk(r) => reporter_busy /\ \A x \in Active : InFlight(x) = r

Once == ~rebooting /\ OneFileEach /\ StoredOnce

OnceInv == Steady => Once

LEMMA InitOnce == Init => OnceInv
<1> SUFFICES ASSUME Init PROVE Once
  BY DEF OnceInv
<1> USE DEF Init, ReportInit, TelecomInit
<1>1. Active = {}
  BY DEF Active
<1>2. OneFileEach
  BY <1>1, ReportNumbers, InitInv DEF OneFileEach, IInv
<1>3. StoredOnce
  BY DEF StoredOnce
<1> QED BY <1>2, <1>3 DEF Once

(* Of a report that was stored the reporter is done, if it is free.        *)
LEMMA StoredAndFree ==
    ASSUME OInv, Once, ~reporter_busy, NEW r \in Reports, received[r] # 0
    PROVE  ~OnDisk(r)
BY DEF Once, StoredOnce

LEMMA ReportTimerOnce ==
    ASSUME OInv, Once, NEW t \in Time, NEW outcome \in {"whole", "torn", "unopened"},
           ReportTimer(t, outcome)
    PROVE  Once'
<1>1. /\ report_timer_callback(t, outcome)
      /\ received' = received
  BY DEF ReportTimer
<1>2. TypeOK /\ IInv
  BY DEF OInv, IInv
<1>3. PICK n \in Reports : /\ n = made + 1 /\ made' = n
                           /\ files' = Written(t, outcome)
  BY <1>1, <1>2, ReportNumbers, SMT DEF report_timer_callback
<1>4. ~(n <= made)
  BY <1>2, <1>3, ReportNumbers, SMT
<1>5. /\ \A s \in Time : s # t => files'[s] = files[s]
      /\ files'[t] = n \/ files'[t] = files[t] \/ files'[t] \notin Reports
  BY <1>2, <1>3, ReportNumbers DEF Written
<1>6. \A s \in Time : files[s] # n
  BY <1>4 DEF OInv, OnlyMade
<1>7. \A r \in Reports : received[r] # 0 => r # n /\ r <= made /\ r <= made'
  <2>1. \A r \in Reports : received[r] # 0 => r # n /\ r <= made
    BY <1>4 DEF Once, StoredOnce
  <2> QED BY <1>2, <1>3, <2>1, ReportNumbers, SMT
<1>8. \A r \in Reports : r # n /\ OnDisk(r)' => OnDisk(r)
  BY <1>5 DEF OnDisk
<1>9. \A s, u \in Time : files'[s] = files'[u] /\ files'[s] \in Reports => s = u
  <2> SUFFICES ASSUME NEW s \in Time, NEW u \in Time, files'[s] = files'[u],
                      files'[s] \in Reports
               PROVE  s = u
    OBVIOUS
  <2>1. CASE files'[s] = n
    BY <1>5, <1>6, <2>1
  <2>2. CASE files'[s] # n
    BY <1>5, <2>2 DEF Once, OneFileEach
  <2> QED BY <2>1, <2>2
<1>10. ~rebooting'
  BY <1>1 DEF Once, report_timer_callback
<1>11. CASE reporter_busy
  <2>1. UNCHANGED <<telecom, reporter_busy, current_report_filename>>
    BY <1>1, <1>11 DEF report_timer_callback
  <2>2. Active' = Active /\ stage' = stage /\ \A x \in Active : InFlight(x)' = InFlight(x)
    BY <2>1 DEF telecom, Active, InFlight
  <2>3. \A x \in Active : InFlight(x) \in Reports => InFlight(x) # n
    BY <1>4 DEF OInv, OnlyMade, InFlight, Active
  <2>4. \A x \in Active, s \in Time : InFlight(x) \in Reports /\ files'[s] = InFlight(x) =>
            files[s] = InFlight(x)
    BY <1>5, <2>3
  <2>5. OneFileEach'
    BY <1>9, <2>1, <2>2, <2>4 DEF Once, OneFileEach
  <2>6. StoredOnce'
    BY <1>1, <1>7, <1>8, <2>1, <2>2 DEF Once, StoredOnce
  <2> QED BY <1>10, <2>5, <2>6 DEF Once
<1>12. CASE ~reporter_busy
  <2>1. /\ http_post(n, "http_done_callback")
        /\ current_report_filename' = t
    BY <1>1, <1>3, <1>12 DEF report_timer_callback
  <2>2. PICK y \in Exchange \ Active :
          /\ Active' = Active \cup {y}
          /\ stage'[y] = "opening"
    BY <1>2, <2>1, Opening DEF http_post
  <2>3. Active = {}
    BY <1>2, <1>12, IdleWhenFree DEF OInv, Undisturbed
  <2>4. \A x \in Active' : InFlight(x)' = n
    BY <2>1, <2>2, <2>3 DEF InFlight, http_post
  <2>5. \A s \in Time : files'[s] = n => s = t
    BY <1>5, <1>6
  <2>6. OneFileEach'
    BY <1>9, <2>1, <2>4, <2>5 DEF OneFileEach
  <2>7. \A r \in Reports : received[r] # 0 => ~OnDisk(r)'
    BY <1>7, <1>8, <1>12, StoredAndFree
  <2>8. StoredOnce'
    BY <1>1, <1>7, <2>4, <2>7 DEF Once, StoredOnce
  <2> QED BY <1>10, <2>6, <2>8 DEF Once
<1> QED BY <1>11, <1>12

LEMMA SendDelayedOnce ==
    ASSUME OInv, Once, NEW t \in Time, NEW readable \in BOOLEAN,
           SendDelayed(t, readable)
    PROVE  Once'
<1>1. /\ send_delayed_report(t, readable)
      /\ UNCHANGED <<made, files, received, rebooting>>
      /\ current_report_filename' = t
      /\ ~reporter_busy
  BY DEF SendDelayed, send_delayed_report
<1>2. TypeOK /\ IInv
  BY DEF OInv, IInv
<1>3. Active = {}
  BY <1>1, <1>2, IdleWhenFree DEF OInv, Undisturbed
<1>4. \A r \in Reports : received[r] # 0 => ~OnDisk(r)
  BY <1>1, StoredAndFree
<1>5. \A x \in Active' : InFlight(x)' = files[t]
  <2>1. CASE readable
    <3>1. http_post(files[t], "http_done_callback_delayed")
      BY <1>1, <2>1 DEF send_delayed_report
    <3>2. PICK y \in Exchange \ Active :
            /\ Active' = Active \cup {y}
            /\ stage'[y] = "opening"
      BY <1>2, <3>1, Opening DEF http_post
    <3> QED BY <1>3, <3>1, <3>2 DEF InFlight, http_post
  <2>2. CASE ~readable
    <3>1. UNCHANGED telecom
      BY <1>1, <2>2 DEF send_delayed_report
    <3> QED BY <1>3, <3>1 DEF telecom, Active
  <2> QED BY <2>1, <2>2
<1>6. OneFileEach'
  BY <1>1, <1>5 DEF Once, OneFileEach
<1>7. StoredOnce'
  BY <1>1, <1>4, <1>5 DEF Once, StoredOnce, OnDisk
<1> QED BY <1>1, <1>6, <1>7 DEF Once

LEMMA SetChannelCbOnce ==
    ASSUME OInv, Once, NEW x \in Exchange, NEW accepted \in BOOLEAN,
           SetChannelCb(x, accepted)
    PROVE  Once'
<1>1. /\ UNCHANGED <<made, files, received, rebooting, reporter_busy, current_report_filename>>
      /\ stage[x] = "opening"
      /\ body' = body
  BY DEF SetChannelCb, https_set_channel_cb, report
<1>2. TypeOK
  BY DEF OInv, IInv
<1>3. \A y \in Active' : /\ y \in Active /\ InFlight(y)' = InFlight(y)
                         /\ stage'[y] = stage[y] \/ stage[y] = "opening"
  <2>1. CASE accepted
    <3>1. /\ stage' = [stage EXCEPT ![x] = "sent"]
          /\ message' = [message EXCEPT ![x] = body]
      BY <2>1 DEF SetChannelCb, https_set_channel_cb
    <3> QED BY <1>1, <1>2, <3>1 DEF TypeOK, TelecomTypeOK, Active, InFlight
  <2>2. CASE ~accepted
    <3>1. Dropped(x)
      BY <2>2 DEF SetChannelCb, https_set_channel_cb
    <3> QED BY <1>1, <1>2, <3>1 DEF Dropped, TypeOK, TelecomTypeOK, Active, InFlight
  <2> QED BY <2>1, <2>2
<1>4. OneFileEach'
  BY <1>1, <1>3 DEF Once, OneFileEach
<1>5. StoredOnce'
  BY <1>1, <1>3 DEF Once, StoredOnce, OnDisk
<1> QED BY <1>1, <1>4, <1>5 DEF Once

(* The step that counts: it is the first time the server gets this report. *)
LEMMA ServerAnswersOnce ==
    ASSUME OInv, OInv', Once, NEW x \in Exchange, NEW accepted \in BOOLEAN,
           ServerAnswers(x, accepted)
    PROVE  Once'
<1>1. /\ UNCHANGED <<made, files, rebooting, reporter_busy, current_report_filename>>
      /\ UNCHANGED <<body, message>>
      /\ stage[x] = "sent"
      /\ stage' = [stage EXCEPT ![x] = "answered"]
  BY DEF ServerAnswers, Answer, report
<1>2. TypeOK /\ IInv
  BY DEF OInv, IInv
<1>3. /\ Active' = Active
      /\ \A y \in Active : InFlight(y)' = InFlight(y)
      /\ \A y \in Active : y # x => stage'[y] = stage[y]
      /\ stage'[x] = "answered"
      /\ x \in Active /\ InFlight(x) = message[x]
  BY <1>1, <1>2 DEF TypeOK, TelecomTypeOK, Active, InFlight
<1>4. Active = {x} /\ reporter_busy
  BY <1>2, <1>3 DEF OInv, Undisturbed, IInv, OneAtATime, Attended, ReportCallback,
     DeliveryAssumption
<1>5. \A r \in Reports :
        \/ received'[r] = received[r]
        \/ r = message[x] /\ received[r] = 0 /\ received'[r] = 1
  <2>1. message[x] \in Reports => received[message[x]] = 0
    BY <1>1, <1>3 DEF Once, StoredOnce
  <2> QED BY <1>2, <2>1, SMT DEF ServerAnswers, TypeOK, world
<1>6. OneFileEach'
  BY <1>1, <1>3 DEF Once, OneFileEach
<1>7. StoredOnce'
  <2> SUFFICES ASSUME NEW r \in Reports, received'[r] # 0
               PROVE  /\ received'[r] = 1 /\ r <= made
                      /\ \A y \in Active : InFlight(y) = r => stage'[y] \in {"answered", "reading"}
                      /\ OnDisk(r) => reporter_busy /\ \A y \in Active : InFlight(y) = r
    BY <1>1, <1>3 DEF StoredOnce, OnDisk
  <2>1. CASE r = message[x] /\ received'[r] = 1
    <3>1. r <= made
      BY <2>1 DEF OInv, OnlyMade
    <3> QED BY <1>3, <1>4, <2>1, <3>1
  <2>2. CASE received'[r] = received[r]
    BY <1>3, <1>4, <2>2 DEF Once, StoredOnce
  <2> QED BY <1>5, <2>1, <2>2
<1> QED BY <1>1, <1>6, <1>7 DEF Once

(* The end of an exchange in which nothing failed deletes the one file of  *)
(* the report it was about, so a stored report is not sent again.          *)
LEMMA CompletedOnce ==
    ASSUME OInv, Once, Steady', NEW x \in Exchange, NEW ok \in BOOLEAN,
           NEW deleted \in BOOLEAN, stage[x] # "idle", Dropped(x),
           Completed(ok, deleted), Outcome(ok, deleted),
           received' = received
    PROVE  Once'
<1>1. TypeOK /\ IInv
  BY DEF OInv, IInv
<1>2. ok /\ deleted
  <2>1. ASSUME NEW k \in Repeating, Fault(k)
        PROVE  FALSE
    <3>1. faults'[k] > 0 /\ faults'[k] = 0
      BY <1>1, <2>1, FaultHappened DEF Steady, FaultKind
    <3> QED BY <3>1, SMT
  <2> QED BY <2>1 DEF Outcome, FaultUnless, Repeating
<1>3. x \in Active /\ Active = {x} /\ Active' = {}
  BY <1>1, Dropping DEF OInv, Undisturbed, IInv, OneAtATime, Active
<1>4. current_report_filename \in Time /\ done_cb \in ReportCallback
  BY <1>1, <1>3 DEF OInv, Undisturbed, IInv, Attended, ReportCallback, DeliveryAssumption
<1>5. /\ UNCHANGED <<made, rebooting, current_report_filename>>
      /\ reporter_busy' = FALSE
      /\ files' = [files EXCEPT ![current_report_filename] = NoFile]
  BY <1>2, <1>4 DEF Completed, http_done_callback, http_done_callback_delayed, vm_fs_delete,
     ReportCallback
<1>6. \A s \in Time : files'[s] = IF s = current_report_filename THEN NoFile ELSE files[s]
  BY <1>1, <1>5, ReportNumbers
<1>7. OneFileEach'
  BY <1>1, <1>3, <1>6, ReportNumbers DEF Once, OneFileEach
<1>8. \A r \in Reports : received[r] # 0 => ~OnDisk(r)'
  <2> SUFFICES ASSUME NEW r \in Reports, received[r] # 0, NEW s \in Time, files'[s] = r
               PROVE  FALSE
    BY DEF OnDisk
  <2>1. s # current_report_filename /\ files[s] = r
    BY <1>1, <1>6, ReportNumbers
  <2>2. InFlight(x) = r
    BY <1>3, <2>1 DEF Once, StoredOnce, OnDisk
  <2> QED BY <1>3, <2>1, <2>2 DEF Once, OneFileEach
<1>9. StoredOnce'
  BY <1>3, <1>5, <1>8 DEF Once, StoredOnce
<1> QED BY <1>5, <1>7, <1>9 DEF Once

LEMMA ResponseCbOnce ==
    ASSUME OInv, Once, Steady', NEW x \in Exchange, NEW ok \in BOOLEAN,
           NEW deleted \in BOOLEAN, ResponseCb(x, ok, deleted)
    PROVE  Once'
<1>1. CASE https_response_cb(x, ok, FALSE) /\ Completed(ok, deleted) /\ Outcome(ok, deleted)
  BY <1>1, CompletedOnce DEF ResponseCb, https_response_cb
<1>2. CASE https_response_cb(x, ok, TRUE) /\ UNCHANGED <<report, faults>>
  <2>1. /\ UNCHANGED <<made, files, reporter_busy, current_report_filename, rebooting>>
        /\ UNCHANGED <<received, message>>
        /\ stage[x] = "answered"
        /\ stage' = [stage EXCEPT ![x] = "reading"]
    BY <1>2 DEF https_response_cb, report, ResponseCb
  <2>2. TypeOK /\ IInv
    BY DEF OInv, IInv
  <2>3. /\ Active' = Active /\ x \in Active
        /\ stage'[x] = "reading"
        /\ \A y \in Active : y # x => stage'[y] = stage[y]
    BY <2>1, <2>2 DEF TypeOK, TelecomTypeOK, Active
  <2>4. \A y \in Active : InFlight(y)' = InFlight(y)
    BY <2>1, <2>2, <2>3 DEF OInv, Undisturbed, IInv, OneAtATime, InFlight
  <2>5. OneFileEach'
    BY <2>1, <2>3, <2>4 DEF Once, OneFileEach
  <2>6. StoredOnce'
    BY <2>1, <2>3, <2>4 DEF Once, StoredOnce, OnDisk
  <2> QED BY <2>1, <2>5, <2>6 DEF Once
<1> QED BY <1>1, <1>2 DEF ResponseCb

(* What leaves the reports, the files and the exchanges as they are.       *)
LEMMA QuietOnce ==
    ASSUME Once, UNCHANGED <<telecom, report, received>>
    PROVE  Once'
<1>1. /\ UNCHANGED <<made, files, reporter_busy, current_report_filename, rebooting>>
      /\ stage' = stage /\ received' = received
      /\ Active' = Active
      /\ \A x \in Exchange : InFlight(x)' = InFlight(x)
  BY DEF report, telecom, Active, InFlight
<1>2. OneFileEach'
  BY <1>1 DEF Once, OneFileEach, Active
<1>3. StoredOnce'
  BY <1>1 DEF Once, StoredOnce, OnDisk, Active
<1> QED BY <1>1, <1>2, <1>3 DEF Once

LEMMA ReadContentCbOnce ==
    ASSUME OInv, Once, Steady', NEW x \in Exchange, NEW ok \in BOOLEAN,
           NEW deleted \in BOOLEAN, ReadContentCb(x, ok, deleted)
    PROVE  Once'
<1>1. CASE https_read_content_cb(x, FALSE) /\ Completed(ok, deleted) /\ Outcome(ok, deleted)
  BY <1>1, CompletedOnce DEF ReadContentCb, https_read_content_cb
<1>2. CASE https_read_content_cb(x, TRUE) /\ UNCHANGED <<report, faults>>
  BY <1>2, QuietOnce DEF ReadContentCb, https_read_content_cb, telecom
<1> QED BY <1>1, <1>2 DEF ReadContentCb

LEMMA TerminationOnce ==
    ASSUME OInv, Once, Termination
    PROVE  Once'
<1>1. /\ UNCHANGED <<made, files, reporter_busy, rebooting, received>>
      /\ Active' = {}
  BY DEF Termination, https_termination_cb, AllDropped, Active, report
<1>2. OneFileEach'
  BY <1>1 DEF Once, OneFileEach
<1>3. StoredOnce'
  BY <1>1 DEF Once, StoredOnce, OnDisk
<1> QED BY <1>1, <1>2, <1>3 DEF Once

(* The faults that repeat a report stay on record.                         *)
LEMMA SteadyBefore ==
    ASSUME TypeOK, [Next]_vars, ~Console, Steady'
    PROVE  Steady
<1>1. UNCHANGED faults \/ \E k \in FaultKind : Fault(k)
  BY DEF Next, vars, world, ReportTimer, ResendTimer, SendDelayed, Service, SetChannelCb,
     ServerAnswers, ResponseCb, ReadContentCb, Outcome, FaultUnless, Termination,
     ConsoleRequest, ConsoleReportHttp, ConsoleReboot, Restart, PowerCut,
     FaultKind, Wedging, Repeating
<1>2. \A j \in FaultKind : faults[j] > 0 => faults'[j] > 0
  BY <1>1, FaultsStay
<1>3. ASSUME NEW k \in Repeating
      PROVE  faults[k] = 0
  <2>1. k \in FaultKind /\ faults'[k] = 0 /\ faults[k] \in Nat
    BY DEF Steady, FaultKind, TypeOK
  <2> QED BY <1>2, <2>1, SMT
<1> QED BY <1>3 DEF Steady

LEMMA NextOnce ==
    ASSUME ~Console, OInv, OInv', OnceInv, [Next]_vars
    PROVE  OnceInv'
<1> SUFFICES ASSUME Steady' PROVE Once'
  BY DEF OnceInv
<1>1. TypeOK
  BY DEF OInv, IInv
<1>2. Once
  BY <1>1, SteadyBefore DEF OnceInv
<1>3. ASSUME NEW t \in Time, NEW outcome \in {"whole", "torn", "unopened"},
             ReportTimer(t, outcome)
      PROVE  Once'
  BY <1>2, <1>3, ReportTimerOnce
<1>4. CASE ResendTimer
  BY <1>2, <1>4, SendDelayedOnce DEF ResendTimer
<1>5. ASSUME NEW x \in Exchange, Service(x)
      PROVE  Once'
  BY <1>2, <1>5, SetChannelCbOnce, ServerAnswersOnce, ResponseCbOnce, ReadContentCbOnce
     DEF Service
<1>6. CASE Termination
  BY <1>2, <1>6, TerminationOnce
<1>7. ~Restart
  BY <1>2 DEF Once, Restart
<1>8. ~PowerCut
  <2> SUFFICES ASSUME Fault("power") PROVE FALSE
    BY DEF PowerCut
  <2>1. faults'["power"] > 0 /\ faults'["power"] = 0
    BY <1>1, FaultHappened DEF Steady, FaultKind, Repeating
  <2> QED BY <2>1, SMT
<1>9. CASE UNCHANGED vars
  BY <1>2, <1>9, QuietOnce DEF vars, world
<1> QED BY <1>3, <1>4, <1>5, <1>6, <1>7, <1>8, <1>9
        DEF Next, ConsoleRequest, ConsoleReportHttp, ConsoleReboot

(* With nobody at the console, the server stores a report twice only after *)
(* an answer was lost, a file could not be deleted, or the power failed.   *)
THEOREM SentOnce == Spec => []NoNeedlessRepeat
<1>1. CASE Console
  <2>1. NoNeedlessRepeat
    BY <1>1 DEF NoNeedlessRepeat
  <2> QED BY <2>1, PTL
<1>2. CASE ~Console
  <2>1. Init => OInv /\ OnceInv
    BY InitOInv, InitOnce
  <2>2. OInv /\ OnceInv /\ [Next]_vars => OInv' /\ OnceInv'
    BY <1>2, NextO, NextOnce
  <2>3. OInv /\ OnceInv => NoNeedlessRepeat
    <3> SUFFICES ASSUME OInv, OnceInv, Steady, NEW r \in Reports
                 PROVE  received[r] < 2
      BY DEF NoNeedlessRepeat, Steady
    <3>1. received[r] \in {0, 1}
      BY DEF OnceInv, Once, StoredOnce
    <3> QED BY <3>1, SMT
  <2> QED BY <2>1, <2>2, <2>3, PTL DEF Spec
<1> QED BY <1>1, <1>2
=============================================================================
