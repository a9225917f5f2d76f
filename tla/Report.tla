------------------------------- MODULE Report -------------------------------
(***************************************************************************)
(* The reporting half of report.c: the report timer writes what the afifo  *)
(* holds to a file named by the current second and posts it; the resend    *)
(* timer (or the console) posts a file left behind by an earlier attempt;  *)
(* the callbacks they leave with telecom.c delete the file or reboot.      *)
(* reporter_busy is what keeps the two from getting into each other's way. *)
(***************************************************************************)
EXTENDS Telecom

CONSTANTS
    Time,                \* what vm_time_get_unix_time may return
    NoTime,
    MaxReports,          \* bound: the report timer fires this often
    Torn,                \* the contents of a file whose writing was cut short
    NoFile,
    report_http_default  \* the report_http key of config.txt

Reports == 1 .. MaxReports

ASSUME ReportAssumption ==
    /\ MaxReports \in Nat
    /\ NoTime \notin Time
    /\ Post = Reports \cup {Torn}
    /\ NoFile \notin Body
    /\ Torn \notin Reports
    /\ report_http_default \in BOOLEAN

VARIABLES
    made,                     \* how many reports there have been
    files,                    \* REPORT_TMP_FOLDER, by the second in the name
    reporter_busy,
    current_report_filename,
    report_http,
    rebooting                 \* vm_pwr_reboot was called

report == <<made, files, reporter_busy, current_report_filename, report_http, rebooting>>

ReportTypeOK ==
    /\ made \in 0 .. MaxReports
    /\ files \in [Time -> Post \cup {NoFile}]
    /\ reporter_busy \in BOOLEAN
    /\ current_report_filename \in Time \cup {NoTime}
    /\ report_http \in BOOLEAN
    /\ rebooting \in BOOLEAN

ReportInit ==
    /\ made = 0
    /\ files = [t \in Time |-> NoFile]
    /\ reporter_busy = FALSE
    /\ current_report_filename = NoTime
    /\ report_http = report_http_default
    /\ rebooting = FALSE

(* What is in the folder after the new report was written at second t: the *)
(* whole report, a part of it, or what was there if the open failed.       *)
Written(t, outcome) ==
    CASE outcome = "whole"    -> [files EXCEPT ![t] = made + 1]
      [] outcome = "torn"     -> [files EXCEPT ![t] = Torn]
      [] outcome = "unopened" -> files

report_timer_callback_early_name(t, outcome) ==  \* mutant: name copied even if busy
    /\ report_http
    /\ made < MaxReports
    /\ made' = made + 1
    /\ files' = Written(t, outcome)
    /\ current_report_filename' = t
    /\ \/ /\ ~reporter_busy
          /\ reporter_busy' = TRUE
          /\ http_post(made + 1, "http_done_callback")
       \/ /\ reporter_busy
          /\ UNCHANGED <<reporter_busy, telecom>>
    /\ UNCHANGED <<report_http, rebooting>>

(* With report_http off the values are read and dropped, and nothing here  *)
(* changes.  Otherwise the report is posted from memory, whatever became   *)
(* of its file, unless the reporter is busy: then it waits on disk.        *)
report_timer_callback(t, outcome) ==
    /\ report_http
    /\ made < MaxReports
    /\ made' = made + 1
    /\ files' = Written(t, outcome)
    /\ \/ /\ ~reporter_busy
          /\ reporter_busy' = TRUE
          /\ current_report_filename' = t
          /\ http_post(made + 1, "http_done_callback")
       \/ /\ reporter_busy
          /\ UNCHANGED <<reporter_busy, current_report_filename, telecom>>
    /\ UNCHANGED <<report_http, rebooting>>

send_delayed_report_unasked(t, readable) ==  \* mutant: not asking if it is busy
    /\ report_http
    /\ files[t] # NoFile
    /\ reporter_busy' = TRUE
    /\ current_report_filename' = t
    /\ \/ /\ readable
          /\ http_post(files[t], "http_done_callback_delayed")
       \/ /\ ~readable
          /\ UNCHANGED telecom
    /\ UNCHANGED <<made, files, report_http, rebooting>>

send_delayed_report_unfound(t, readable) ==  \* mutant: not asking if there is a file
    /\ report_http
    /\ ~reporter_busy
    /\ reporter_busy' = TRUE
    /\ current_report_filename' = t
    /\ \/ /\ readable
          /\ http_post(files[t], "http_done_callback_delayed")
       \/ /\ ~readable
          /\ UNCHANGED telecom
    /\ UNCHANGED <<made, files, report_http, rebooting>>

(* vm_fs_find_first comes up with any of the files.  The reporter is busy  *)
(* from here on even if the file cannot be read, and then nothing is sent. *)
send_delayed_report(t, readable) ==
    /\ report_http
    /\ files[t] # NoFile
    /\ ~reporter_busy
    /\ reporter_busy' = TRUE
    /\ current_report_filename' = t
    /\ \/ /\ readable
          /\ http_post(files[t], "http_done_callback_delayed")
       \/ /\ ~readable
          /\ UNCHANGED telecom
    /\ UNCHANGED <<made, files, report_http, rebooting>>

vm_fs_delete(deleted) ==
    files' = IF deleted /\ current_report_filename \in Time
             THEN [files EXCEPT ![current_report_filename] = NoFile]
             ELSE files

http_done_callback_keeps(ok, deleted) ==  \* mutant: the file is not deleted
    /\ reporter_busy' = FALSE
    /\ rebooting' = (rebooting \/ ~ok)
    /\ UNCHANGED <<made, files, current_report_filename, report_http>>

http_done_callback_delayed_deletes(ok, deleted) ==  \* mutant: even after a failure
    /\ vm_fs_delete(deleted)
    /\ reporter_busy' = FALSE
    /\ UNCHANGED <<made, current_report_filename, report_http, rebooting>>

http_done_callback_delayed_busy(ok, deleted) ==  \* mutant: busy after a failure
    /\ \/ /\ ok
          /\ vm_fs_delete(deleted)
       \/ /\ ~ok
          /\ UNCHANGED files
    /\ reporter_busy' = ~ok
    /\ UNCHANGED <<made, current_report_filename, report_http, rebooting>>

(* The two completions, for a report sent at once and for a delayed one:   *)
(* they differ in what a failure leads to.  The status is not looked at.   *)
http_done_callback(ok, deleted) ==
    /\ \/ /\ ok
          /\ vm_fs_delete(deleted)
          /\ UNCHANGED rebooting
       \/ /\ ~ok
          /\ rebooting' = TRUE
          /\ UNCHANGED files
    /\ reporter_busy' = FALSE
    /\ UNCHANGED <<made, current_report_filename, report_http>>

http_done_callback_delayed(ok, deleted) ==
    /\ \/ /\ ok
          /\ vm_fs_delete(deleted)
       \/ /\ ~ok
          /\ UNCHANGED files
    /\ reporter_busy' = FALSE
    /\ UNCHANGED <<made, current_report_filename, report_http, rebooting>>

set_http_report(on) ==
    /\ report_http' = on
    /\ UNCHANGED <<made, files, reporter_busy, current_report_filename, rebooting>>

Reboot ==
    /\ rebooting' = TRUE
    /\ UNCHANGED <<made, files, reporter_busy, current_report_filename, report_http>>

(* The statics as the program starts anew, main.c having read config.txt.  *)
ReportRestart ==
    /\ reporter_busy' = FALSE
    /\ current_report_filename' = NoTime
    /\ report_http' = report_http_default
    /\ rebooting' = FALSE
    /\ UNCHANGED <<made, files>>
=============================================================================
