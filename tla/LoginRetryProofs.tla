--------------------------- MODULE LoginRetryProofs ---------------------------
(* Proofs about LoginRetry, for any number of requests, logins and faults. *)
EXTENDS LoginRetry, TLAPS

(* What a request has been through can be told from where it is. *)
Counted ==
  \A r \in Requests :
    served[r] = lost[r] + IF req[r] \in Executed \cup Ended THEN 1 ELSE 0

IInv == TypeOK /\ Counted /\ ParkedIsAsked

LEMMA InitInv == Init => IInv
<1> SUFFICES ASSUME Init PROVE IInv
  OBVIOUS
<1>1. /\ req = [r \in Requests |-> "idle"] /\ login = [l \in Logins |-> "idle"]
      /\ served = [r \in Requests |-> 0] /\ lost = [r \in Requests |-> 0]
      /\ retried = {} /\ right = {} /\ faults = 0
  BY DEF Init
<1>2. session \in BOOLEAN /\ loginWindow \in BOOLEAN
  BY Zenon DEF Init
<1>3. faults \in 0..MaxFaults
  BY <1>1, MaxFaultsAssumption
<1>4. TypeOK
  <2>1. req \in [Requests -> ReqStates] /\ login \in [Logins -> LoginStates]
    BY <1>1 DEF ReqStates, LoginStates
  <2>2. served \in [Requests -> Nat] /\ lost \in [Requests -> Nat]
    BY <1>1
  <2> QED BY <1>1, <1>2, <1>3, <2>1, <2>2, Zenon DEF TypeOK
<1>5. Counted
  <2>1. ASSUME NEW r \in Requests
        PROVE  served[r] = 0 /\ lost[r] = 0 /\ req[r] \notin Executed \cup Ended
    BY <1>1 DEF Executed, Ended
  <2>2. ASSUME NEW r \in Requests
        PROVE  served[r] = lost[r] + IF req[r] \in Executed \cup Ended THEN 1 ELSE 0
    BY <2>1
  <2> QED BY <2>2 DEF Counted
<1>6. ParkedIsAsked
  BY <1>1 DEF ParkedIsAsked
<1> QED BY <1>4, <1>5, <1>6 DEF IInv

(* The steps of a request. *)
LEMMA RequestInv ==
  ASSUME IInv, NEW r \in Requests, Send(r) \/ Serve(r) \/ Receive(r) \/ Lose(r)
  PROVE  IInv'
<1> USE DEF IInv, TypeOK, Counted, ParkedIsAsked, ReqStates, LoginStates, Executed, Ended, Goto
<1>1. CASE Send(r)
  BY <1>1 DEF Send
<1>2. CASE Serve(r)
  BY <1>2 DEF Serve
<1>3. CASE Receive(r)
  BY <1>3 DEF Receive, Settle, PushToBuffer
<1>4. CASE Lose(r)
  <2>1. TypeOK'
    BY <1>4, MaxFaultsAssumption DEF Lose, Fault, PushToBuffer
  <2>2. Counted'
    BY <1>4 DEF Lose, PushToBuffer
  <2>3. ParkedIsAsked'
    BY <1>4 DEF Lose, PushToBuffer
  <2> QED BY <2>1, <2>2, <2>3
<1> QED BY <1>1, <1>2, <1>3, <1>4

(* The steps of a login. *)
LEMMA LoginInv ==
  ASSUME IInv, NEW l \in Logins,
         \/ \E good \in BOOLEAN : DoLogin(l, good)
         \/ ServeLogin(l) \/ LoginConfirmed(l) \/ LoginFailed(l) \/ LoseLogin(l)
  PROVE  IInv'
<1> USE DEF IInv, TypeOK, Counted, ParkedIsAsked, ReqStates, LoginStates, Executed, Ended
<1>1. ASSUME NEW good \in BOOLEAN, DoLogin(l, good) PROVE IInv'
  BY <1>1, MaxFaultsAssumption DEF DoLogin, Fault
<1>2. CASE ServeLogin(l)
  BY <1>2 DEF ServeLogin
<1>3. CASE LoginConfirmed(l)
  <2>1. TypeOK'
    BY <1>3 DEF LoginConfirmed, RetryAll
  <2>2. Counted'
    BY <1>3 DEF LoginConfirmed, RetryAll
  <2>3. ParkedIsAsked'
    BY <1>3 DEF LoginConfirmed, RetryAll
  <2> QED BY <2>1, <2>2, <2>3
<1>4. CASE LoginFailed(l)
  BY <1>4 DEF LoginFailed, ParkLogin
<1>5. CASE LoseLogin(l)
  <2>1. TypeOK'
    BY <1>5, MaxFaultsAssumption DEF LoseLogin, ParkLogin, Fault
  <2>2. Counted'
    BY <1>5 DEF LoseLogin, ParkLogin
  <2>3. ParkedIsAsked'
    BY <1>5 DEF LoseLogin, ParkLogin
  <2> QED BY <2>1, <2>2, <2>3
<1> QED BY <1>1, <1>2, <1>3, <1>4, <1>5

LEMMA Inductive == Spec => []IInv
<1>1. ASSUME IInv, [Next]_vars PROVE IInv'
  <2>1. CASE Expire
    <3>1. faults' \in 0..MaxFaults
      BY <1>1, <2>1, MaxFaultsAssumption DEF Expire, Fault, IInv, TypeOK
    <3>2. Counted' /\ ParkedIsAsked'
      BY <1>1, <2>1 DEF Expire, IInv, Counted, ParkedIsAsked
    <3>3. TypeOK'
      BY <1>1, <2>1, <3>1, Zenon DEF Expire, IInv, TypeOK
    <3> QED BY <3>2, <3>3 DEF IInv
  <2>2. CASE UNCHANGED vars
    BY <1>1, <2>2 DEF vars, IInv, TypeOK, Counted, ParkedIsAsked
  <2> QED BY <1>1, <2>1, <2>2, RequestInv, LoginInv DEF Next
<1> QED BY <1>1, InitInv, PTL DEF Spec

(* Requests, logins and counters are what they are meant to be. *)
THEOREM TypeCorrect == Spec => []TypeOK
BY Inductive, PTL DEF IInv

(* However many requests, logins and lost answers there are, the server    *)
(* executes a request once, and once more for each lost answer.            *)
THEOREM RequestsServedOnce == Spec => []ServedOnce
<1>1. IInv => ServedOnce
  <2> SUFFICES ASSUME IInv, NEW r \in Requests
               PROVE  /\ served[r] <= lost[r] + 1
                      /\ req[r] \in Ended => served[r] = lost[r] + 1
    BY DEF ServedOnce
  <2>1. lost[r] \in Nat /\ served[r] \in Nat
    BY DEF IInv, TypeOK
  <2>2. served[r] = lost[r] + IF req[r] \in Executed \cup Ended THEN 1 ELSE 0
    BY DEF IInv, Counted
  <2> QED BY <2>1, <2>2
<1> QED BY <1>1, Inductive, PTL

(* The login window is open as long as anything waits for it. *)
THEOREM WindowIsOpen == Spec => []ParkedIsAsked
BY Inductive, PTL DEF IInv
=============================================================================
