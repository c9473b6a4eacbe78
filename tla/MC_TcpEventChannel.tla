------------------------- MODULE MC_TcpEventChannel -------------------------
EXTENDS TcpEventChannel, TLC

CONSTANTS l1, c1, x1

\* a channel may be a listener, a client or an accepted one: the roles
\* are fixed, so no symmetry between them
====
