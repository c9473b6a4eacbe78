------------------------------ MODULE MC_TcpFraming ------------------------------
(***************************************************************************)
(* A TcpEventChannel's frames and its configuration string.  The channel  *)
(* parses its string once, in the constructor, and the frames it carries  *)
(* do not depend on what the string said, so one run checks both: the    *)
(* part is chosen once and only its steps are taken, which keeps the      *)
(* state space the sum of the two parts, not their product.              *)
(***************************************************************************)
EXTENDS TcpFraming, TcpConfigSplit, TLC

VARIABLE part   \* "framing" or "config"

\* a frame with a 2-byte payload, then one with an empty payload
MCLens == <<2, 0>>

\* keys and values over two letters; strings of up to 6 characters hold two
\* key=value words ("a=b b=") and every run of blanks before, between and
\* after them
MCLetters == {"a", "b"}

mcVars == <<part, vars, cfgVars>>

MCInit == part \in {"framing", "config"} /\ Init /\ CfgInit

MCNext ==
  \/ part = "framing" /\ Next /\ UNCHANGED <<part, cfgVars>>
  \/ part = "config" /\ CfgNext /\ UNCHANGED <<part, vars>>

MCSpec == MCInit /\ [][MCNext]_mcVars
====
