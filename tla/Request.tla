------------------------------ MODULE Request ------------------------------
(***************************************************************************)
(* What a Request promises its users (spec.md 4.1): the calls made on it  *)
(* add sub-operations while it is open, each sub-operation is answered    *)
(* once, the errors the peers report are collected in the Request, and    *)
(* it completes, once, only when no sub-operation is outstanding.  After  *)
(* completion nothing happens to it any more.                             *)
(*                                                                         *)
(* The errors are a bag: the order in which the responses of different    *)
(* sub-operations arrive is not part of the promise, their number is.     *)
(***************************************************************************)
EXTENDS Naturals, Bags

CONSTANTS
  ReqIds        \* Requests

VARIABLES
  state,   \* [ReqIds -> {"unused", "open", "done"}]
  out,     \* sub-operations issued and not yet answered
  errs     \* bag of the errors reported for the Request's sub-operations

avars == <<state, out, errs>>

Init ==
  /\ state = [r \in ReqIds |-> "unused"]
  /\ out = [r \in ReqIds |-> 0]
  /\ errs = [r \in ReqIds |-> EmptyBag]

\* A Request is created empty.
Open(r) ==
  /\ state[r] = "unused"
  /\ state' = [state EXCEPT ![r] = "open"]
  /\ UNCHANGED <<out, errs>>

\* A call that fails before it uses its Request completes it untouched.
Abandon(r) ==
  /\ state[r] = "unused"
  /\ state' = [state EXCEPT ![r] = "done"]
  /\ UNCHANGED <<out, errs>>

\* A call adds a sub-operation; the first call may create the Request.
Issue(r) ==
  /\ state[r] \in {"unused", "open"}
  /\ state' = [state EXCEPT ![r] = "open"]
  /\ out' = [out EXCEPT ![r] = @ + 1]
  /\ UNCHANGED errs

\* A peer reports errors for an outstanding sub-operation.
Report(r) ==
  /\ state[r] = "open"
  /\ out[r] > 0
  /\ errs[r] \sqsubseteq errs'[r]
  /\ errs'[r] # errs[r]
  /\ errs' = [errs EXCEPT ![r] = errs'[r]]
  /\ UNCHANGED <<state, out>>

\* A sub-operation is answered; a Request may complete with its last
\* answer.
Answer(r) ==
  /\ state[r] = "open"
  /\ out[r] > 0
  /\ out' = [out EXCEPT ![r] = @ - 1]
  /\ state' \in {state, [state EXCEPT ![r] = "done"]}
  /\ state'[r] = "done" => out'[r] = 0
  /\ UNCHANGED errs

\* An open Request with nothing outstanding completes.
Complete(r) ==
  /\ state[r] = "open"
  /\ out[r] = 0
  /\ state' = [state EXCEPT ![r] = "done"]
  /\ UNCHANGED <<out, errs>>

Next ==
  \E r \in ReqIds :
    Open(r) \/ Abandon(r) \/ Issue(r) \/ Report(r) \/ Answer(r) \/ Complete(r)

Spec == Init /\ [][Next]_avars

=============================================================================
