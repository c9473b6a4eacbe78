-------------------------- MODULE GetSamplesRelay --------------------------
(***************************************************************************)
(* What the router promises the clients of getSamples (spec.md 3,          *)
(* invariant 2, and 8): the router is transparent.  Each request a client  *)
(* sends is answered to that client, with the request's own id, exactly    *)
(* once, and eventually.  Nothing else is visible: which server answers,   *)
(* how the id is carried, and the router's heap are all hidden.            *)
(***************************************************************************)
EXTENDS Naturals

CONSTANTS
  Clients,  \* client channels
  MaxReqs   \* requests each client sends

Ids == 1 .. MaxReqs

VARIABLES
  issued,   \* issued[c]: client c has sent requests 1 .. issued[c]
  answers   \* answers[c][n]: how many answers to request n client c got

vars == <<issued, answers>>

Init ==
  /\ issued = [c \in Clients |-> 0]
  /\ answers = [c \in Clients |-> [n \in Ids |-> 0]]

\* client c sends its next request
Send(c) ==
  /\ issued[c] < MaxReqs
  /\ issued' = [issued EXCEPT ![c] = @ + 1]
  /\ UNCHANGED answers

\* request n of client c, sent and not yet answered, is answered
Answer(c, n) ==
  /\ n <= issued[c]
  /\ answers[c][n] = 0
  /\ answers' = [answers EXCEPT ![c][n] = 1]
  /\ UNCHANGED issued

Next ==
  \/ \E c \in Clients : Send(c)
  \/ \E c \in Clients, n \in Ids : Answer(c, n)

\* an outstanding request does not stay unanswered; clients may stop
\* sending
Spec == Init /\ [][Next]_vars /\ \A c \in Clients, n \in Ids : WF_vars(Answer(c, n))
====
