---------------------------- MODULE CachedRequests ---------------------------
(* Connection used by threads that call any of its methods in any order.   *)
EXTENDS Connection

CONSTANTS
  Requests,  \* the calls there are
  MaxCalls   \* bound on the calls of one thread

ASSUME CallsAssumption == MaxCalls \in Nat
ASSUME RequestsAssumption == \A r \in Requests : IsRequest(r)

VARIABLE calls  \* how many calls each thread made

vars == <<conn_vars, calls>>

TypeOK ==
  /\ ConnTypeOK
  /\ call \in [Threads -> Requests \cup {NoRequest}]
  /\ calls \in [Threads -> 0..MaxCalls]

Init == ConnInit /\ calls = [t \in Threads |-> 0]

Call(t, r) ==
  /\ pc[t] = "idle" /\ calls[t] < MaxCalls
  /\ Ask(t, r)
  /\ calls' = [calls EXCEPT ![t] = @ + 1]
  /\ UNCHANGED <<device, caches, request_mutex, walk, expiries, history>>

Return(t) ==
  /\ pc[t] = "done"
  /\ Goes(t, "idle")
  /\ call' = [call EXCEPT ![t] = NoRequest]
  /\ response' = [response EXCEPT ![t] = NoResponse]
  /\ UNCHANGED <<device, caches, request_mutex, walk, expiries, history, calls>>

Next ==
  \/ \E t \in Threads : (Thread(t) /\ UNCHANGED calls) \/ Return(t) \/ \E r \in Requests : Call(t, r)
  \/ AppChange /\ UNCHANGED <<caches, request_mutex, pc, call, response, walk, expiries, history, calls>>
  \/ Expire /\ UNCHANGED calls

Spec == Init /\ [][Next]_vars
=============================================================================
