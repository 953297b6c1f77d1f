---------------------------- MODULE AtomicRequests ---------------------------
(***************************************************************************)
(* What a Dokan thread may rely on when it calls one of the req_ methods   *)
(* of Connection: the daemon executes its request at most once, one        *)
(* request at a time, and the call returns only after the daemon has       *)
(* executed it.  A call may also fail (an exception reaches the callback); *)
(* then the request may or may not have been executed.  All this is        *)
(* promised until the stream of requests breaks, and nothing after that.   *)
(* RequestChannel implements this specification, and FileOps builds on it. *)
(***************************************************************************)
CONSTANT Threads

VARIABLES
  call,    \* where each thread's call stands
  broken   \* no promise is left

States == {"idle", "asked", "executed", "failed"}

Init ==
  /\ call = [t \in Threads |-> "idle"]
  /\ broken = FALSE

Goes(t, from, to) ==
  /\ call[t] = from
  /\ call' = [call EXCEPT ![t] = to]

Begin(t) == Goes(t, "idle", "asked")

\* The daemon executes the request of t; no other answer is outstanding.
Execute(t) ==
  /\ \A u \in Threads : call[u] # "executed"
  /\ Goes(t, "asked", "executed")

Return(t) == Goes(t, "executed", "idle")

Fail(t) == Goes(t, "asked", "failed") \/ Goes(t, "executed", "failed")

Kept ==
  /\ ~broken /\ UNCHANGED broken
  /\ \E t \in Threads : Begin(t) \/ Execute(t) \/ Return(t) \/ Fail(t)

Broken == broken' = TRUE /\ call' \in [Threads -> States]

Next == Kept \/ Broken

Spec == Init /\ [][Next]_<<call, broken>>
=============================================================================
