------------------------------ MODULE Telecom ------------------------------
(***************************************************************************)
(* telecom.c: one set of static variables holds the request being set up   *)
(* and the callback to run when it is over, whoever asked for it.  The     *)
(* https service of the firmware calls back in between; all of this runs   *)
(* in the main thread, one callback at a time.                             *)
(*                                                                         *)
(* url, headers and body are filled together and overwritten together, so  *)
(* body stands for the three of them.  Every request is made with request  *)
(* id 0: what tells them apart is known to the service alone.              *)
(***************************************************************************)
EXTENDS Integers, FiniteSets

CONSTANTS
    Exchange,  \* the requests the service can have under way (a bound)
    Post,      \* the bodies that matter to somebody
    Other,     \* any other body: a console request's, a reply's, none
    Callback,  \* the functions passed as done_callback
    NoCallback

ASSUME TelecomAssumption == Other \notin Post /\ NoCallback \notin Callback

VARIABLES
    body,      \* what https_set_channel_cb would send now
    done_cb,   \* what would be called on completion now
    stage,     \* how far the service is with each exchange
    message    \* the body that an exchange was sent with

telecom == <<body, done_cb, stage, message>>

Stage == {"idle", "opening", "sent", "answered", "reading"}
Body == Post \cup {Other}

TelecomTypeOK ==
    /\ body \in Body
    /\ done_cb \in Callback \cup {NoCallback}
    /\ stage \in [Exchange -> Stage]
    /\ message \in [Exchange -> Body]

Active == {x \in Exchange : stage[x] # "idle"}

TelecomInit ==
    /\ body = Other
    /\ done_cb = NoCallback
    /\ stage = [x \in Exchange |-> "idle"]
    /\ message = [x \in Exchange |-> Other]

(* vm_https_set_channel: the service takes on one more exchange.           *)
vm_https_set_channel ==
    /\ \E x \in Exchange \ Active : stage' = [stage EXCEPT ![x] = "opening"]
    /\ UNCHANGED message

http_post(request_body, done_callback) ==
    /\ body' = request_body
    /\ done_cb' = done_callback
    /\ vm_https_set_channel

http_get(done_callback) ==
    /\ body' = Other
    /\ done_cb' = done_callback
    /\ vm_https_set_channel

(* vm_https_cancel and vm_https_unset_channel, or the service giving up.   *)
Dropped(x) ==
    /\ stage' = [stage EXCEPT ![x] = "idle"]
    /\ message' = [message EXCEPT ![x] = Other]

AllDropped ==
    /\ stage' = [x \in Exchange |-> "idle"]
    /\ message' = [x \in Exchange |-> Other]

(* The callback ignores the result it is given, and what                   *)
(* vm_https_send_request returns: a refused request is not heard of again. *)
https_set_channel_cb(x, accepted) ==
    /\ stage[x] = "opening"
    /\ \/ /\ accepted
          /\ stage' = [stage EXCEPT ![x] = "sent"]
          /\ message' = [message EXCEPT ![x] = body]
       \/ /\ ~accepted
          /\ Dropped(x)
    /\ UNCHANGED <<body, done_cb>>

(* The web server got the request and answered it.                         *)
Answer(x) ==
    /\ stage[x] = "sent"
    /\ stage' = [stage EXCEPT ![x] = "answered"]
    /\ UNCHANGED <<body, done_cb, message>>

(* A failure may come before or after the server saw the request.  With    *)
(* ~more this step includes the call of done_cb(result), which is the      *)
(* caller's business.  Only a successful reply has more to read.           *)
https_response_cb(x, ok, more) ==
    /\ stage[x] = "answered" \/ (stage[x] = "sent" /\ ~ok)
    /\ more => ok
    /\ body' = IF ok THEN Other ELSE body
    /\ \/ /\ more
          /\ stage' = [stage EXCEPT ![x] = "reading"]
          /\ UNCHANGED message
       \/ /\ ~more
          /\ Dropped(x)
    /\ UNCHANGED done_cb

https_read_content_cb(x, more) ==
    /\ stage[x] = "reading"
    /\ \/ /\ more
          /\ UNCHANGED <<stage, message>>
       \/ /\ ~more
          /\ Dropped(x)
    /\ UNCHANGED <<body, done_cb>>

(* The https agent of the firmware ended; the callback does nothing.       *)
https_termination_cb ==
    /\ Active # {}
    /\ AllDropped
    /\ UNCHANGED <<body, done_cb>>

(* The program starts anew.                                                *)
TelecomRestart ==
    /\ body' = Other
    /\ done_cb' = NoCallback
    /\ AllDropped
=============================================================================
