------------------------------ MODULE LoginRetry ------------------------------
(***************************************************************************)
(* HTTP requests of the browser across the end of a session, a login, and  *)
(* a network that loses answers.  The interceptor of axelor.auth.js keeps  *)
(* requests that were answered 401, 502 or not at all, and asks for a      *)
(* login; when the login (doLogin in axelor.app.js) is confirmed they are  *)
(* sent again.  Login requests pass the interceptor like any other.  The   *)
(* server decides by AuthFilter.                                           *)
(***************************************************************************)
EXTENDS Naturals

CONSTANTS
  Requests,
  Logins,      \* login requests there may be at the same time
  MaxFaults    \* bound on expired sessions, lost answers and wrong passwords

ASSUME MaxFaultsAssumption == MaxFaults \in Nat

VARIABLES
  req,         \* where each request is
  retried,     \* the requests sent by retry, not by their caller
  served,      \* how often the server executed each
  lost,        \* how many answers of an executed request were lost
  login,       \* where each login request is
  right,       \* the login requests that have the right password
  session,     \* the session of the browser is authenticated
  loginWindow, \* the login window is open
  faults

vars == <<req, retried, served, lost, login, right, session, loginWindow, faults>>

(* "ok", "error" and "denied" are answers under way.  A request is "hung"  *)
(* when nothing will settle the promise its caller has.                    *)
Executed == {"ok", "error"}
Ended == {"resolved", "rejected", "hung"}
ReqStates == {"idle", "sent", "denied", "parked"} \cup Executed \cup Ended
LoginStates == {"idle", "sent", "denied", "ok", "parked"}

Init ==
  /\ req = [r \in Requests |-> "idle"]
  /\ retried = {}
  /\ served = [r \in Requests |-> 0]
  /\ lost = [r \in Requests |-> 0]
  /\ login = [l \in Logins |-> "idle"]
  /\ right = {}
  /\ session \in BOOLEAN
  /\ loginWindow = FALSE
  /\ faults = 0

Fault == faults < MaxFaults /\ faults' = faults + 1

(***************************************************************************)
(* Requests.                                                               *)
(***************************************************************************)
Goto(r, state) == req' = [req EXCEPT ![r] = state]

Send(r) ==
  /\ req[r] = "idle"
  /\ Goto(r, "sent")
  /\ UNCHANGED <<retried, served, lost, login, right, session, loginWindow, faults>>

(* Mutant of Serve: the request is executed although it is denied. *)
ServeDenied(r) ==
  /\ req[r] = "sent"
  /\ \E answer \in IF session THEN Executed ELSE {"denied"} : Goto(r, answer)
  /\ served' = [served EXCEPT ![r] = @ + 1]
  /\ UNCHANGED <<retried, lost, login, right, session, loginWindow, faults>>

(* onAccessDenied: without a session nothing is executed. *)
Serve(r) ==
  /\ req[r] = "sent"
  /\ \/ /\ session
        /\ \E answer \in Executed : Goto(r, answer)
        /\ served' = [served EXCEPT ![r] = @ + 1]
     \/ ~session /\ Goto(r, "denied") /\ UNCHANGED served
  /\ UNCHANGED <<retried, lost, login, right, session, loginWindow, faults>>

(* Mutant of PushToBuffer: no window while a login is under way. *)
PushToBufferQuietly(r) ==
  Goto(r, "parked") /\ loginWindow' = (loginWindow \/ \A l \in Logins : login[l] # "sent")

(* pushToBuffer, and event:auth-loginRequired. *)
PushToBuffer(r) == Goto(r, "parked") /\ loginWindow' = TRUE

(* retry passes on what resolves, and nothing else. *)
Settle(r) ==
  Goto(r, IF req[r] = "ok" THEN "resolved" ELSE IF r \in retried THEN "hung" ELSE "rejected")

Receive(r) ==
  /\ \/ req[r] \in Executed /\ Settle(r) /\ UNCHANGED loginWindow
     \/ req[r] = "denied" /\ PushToBuffer(r)
  /\ UNCHANGED <<retried, served, lost, login, right, session, faults>>

(* Status 0 or 502, before or after the server has executed it. *)
Lose(r) ==
  /\ Fault
  /\ req[r] \in {"sent", "denied"} \cup Executed
  /\ lost' = [lost EXCEPT ![r] = @ + IF req[r] \in Executed THEN 1 ELSE 0]
  /\ PushToBuffer(r)
  /\ UNCHANGED <<retried, served, login, right, session>>

(***************************************************************************)
(* Logins.                                                                 *)
(***************************************************************************)
(* retryAll: what is in the buffer, logins too, is sent again. *)
RetryAll(others) ==
  /\ req' = [r \in Requests |-> IF req[r] = "parked" THEN "sent" ELSE req[r]]
  /\ retried' = retried \cup {r \in Requests : req[r] = "parked"}
  /\ login' = [l \in Logins |->
                 IF l \notin others THEN "idle"
                 ELSE IF login[l] = "parked" THEN "sent" ELSE login[l]]

DoLogin(l, good) ==
  /\ loginWindow /\ login[l] = "idle"
  /\ good \/ Fault
  /\ good => UNCHANGED faults
  /\ login' = [login EXCEPT ![l] = "sent"]
  /\ right' = IF good THEN right \cup {l} ELSE right \ {l}
  /\ UNCHANGED <<req, retried, served, lost, session, loginWindow>>

(* Mutant of ServeLogin: the login is confirmed and leaves no session. *)
ServeLoginForgets(l) ==
  /\ login[l] = "sent"
  /\ login' = [login EXCEPT ![l] = IF session \/ l \in right THEN "ok" ELSE "denied"]
  /\ UNCHANGED <<req, retried, served, lost, right, session, loginWindow, faults>>

(* doLogin on the server; who has a session already is let through. *)
ServeLogin(l) ==
  /\ login[l] = "sent"
  /\ LET accepted == session \/ l \in right
     IN /\ session' = accepted
        /\ login' = [login EXCEPT ![l] = IF accepted THEN "ok" ELSE "denied"]
  /\ UNCHANGED <<req, retried, served, lost, right, loginWindow, faults>>

LoginConfirmed(l) ==
  /\ login[l] = "ok"
  /\ loginWindow' = FALSE
  /\ RetryAll(Logins \ {l})
  /\ UNCHANGED <<served, lost, right, session, faults>>

ParkLogin(l) ==
  /\ login' = [login EXCEPT ![l] = "parked"]
  /\ loginWindow' = TRUE
  /\ UNCHANGED <<req, retried, served, lost, right, session>>

LoginFailed(l) == login[l] = "denied" /\ ParkLogin(l) /\ UNCHANGED faults

LoseLogin(l) == login[l] \in {"sent", "ok", "denied"} /\ ParkLogin(l) /\ Fault

Expire ==
  /\ session /\ Fault
  /\ session' = FALSE
  /\ UNCHANGED <<req, retried, served, lost, login, right, loginWindow>>

Next ==
  \/ \E r \in Requests : Send(r) \/ Serve(r) \/ Receive(r) \/ Lose(r)
  \/ \E l \in Logins :
       \/ \E good \in BOOLEAN : DoLogin(l, good)
       \/ ServeLogin(l) \/ LoginConfirmed(l) \/ LoginFailed(l) \/ LoseLogin(l)
  \/ Expire

Spec == Init /\ [][Next]_vars

(* The server answers and the browser handles the answers; the user logs   *)
(* in with the right password at last when asked to.                       *)
FairSpec ==
  /\ Spec
  /\ \A r \in Requests : WF_vars(Serve(r) \/ Receive(r))
  /\ \A l \in Logins : WF_vars(ServeLogin(l) \/ LoginConfirmed(l) \/ LoginFailed(l))
  /\ WF_vars(\E l \in Logins : DoLogin(l, TRUE))

TypeOK ==
  /\ req \in [Requests -> ReqStates]
  /\ retried \subseteq Requests
  /\ served \in [Requests -> Nat]
  /\ lost \in [Requests -> Nat]
  /\ login \in [Logins -> LoginStates]
  /\ right \subseteq Logins
  /\ session \in BOOLEAN
  /\ loginWindow \in BOOLEAN
  /\ faults \in 0..MaxFaults

(* Sending again repeats nothing by itself: a request is executed twice    *)
(* only if the answer of an execution was lost.  It is not executed at all *)
(* when its caller is told of an answer that was not given.                *)
ServedOnce ==
  \A r \in Requests :
    /\ served[r] <= lost[r] + 1
    /\ req[r] \in Ended => served[r] = lost[r] + 1

(* While a request waits for a login the login window is open, whatever    *)
(* late or repeated login has closed it in between.                        *)
ParkedIsAsked ==
  (\E r \in Requests : req[r] = "parked") \/ (\E l \in Logins : login[l] = "parked")
    => loginWindow

(* A request is not forgotten over the login: its caller gets an answer,   *)
(* or the answer to what was sent again was an error.                      *)
RequestsEnd ==
  \A r \in Requests :
    req[r] = "sent" ~> (req[r] \in {"resolved", "rejected"} \/ (req[r] = "hung" /\ r \in retried))
=============================================================================
