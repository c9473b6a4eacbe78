--------------------------- MODULE TcpEventChannel ---------------------------
(***************************************************************************)
(* The TCP transport of src/src/pwr/tcpEventChannel.cc: channels, the      *)
(* process-wide descriptor registry m_chanFdMap, the lazy client connect   *)
(* with bounded retry (xx), accept, close and the destructor, and the      *)
(* multiplexer TcpChannelSelect whose wait() resolves the lowest ready     *)
(* descriptor back to its channel through the registry.                    *)
(*                                                                         *)
(* The process hands out the lowest free descriptor (POSIX socket() and    *)
(* accept()).  A frame is abstracted to one unit in the socket's receive   *)
(* queue: how a frame is read is the subject of TcpFraming.  The peer is   *)
(* the environment: it connects to listeners, sends frames, and closes.    *)
(* The owner of the channels (config, router, daemon loop: not in src)     *)
(* is a nondeterministic caller of the public operations.  An assert()     *)
(* that fails ends the process: aborted records which one.                 *)
(***************************************************************************)
EXTENDS Naturals, FiniteSets, FiniteSetsExt

CONSTANTS
  Listeners,   \* channels built with a listenPort (server side)
  Clients,     \* channels built with server=/serverPort= (lazy client)
  AcceptSlots, \* channel objects accept() may create
  NoChan,      \* no channel: an empty registry slot
  NFds,        \* descriptors the process may still open
  Count,       \* the retry budget of xx (count = 60 in the code)
  MaxIn,       \* frames or connections queued per descriptor
  MaxSends     \* frames, connections and hang-ups of the peers in all

ASSUME /\ NFds \in Nat \ {0}
       /\ Count \in Nat
       /\ MaxIn \in Nat \ {0}
       /\ MaxSends \in Nat

Chans == Listeners \cup Clients \cup AcceptSlots
Fds   == 0 .. NFds - 1
NoFd  == -1

\* why the process stopped: the assert() that failed
Aborts == {"none", "socket", "connect", "write", "close", "select", "accept",
           "bind"}

VARIABLES
  life,        \* life[c]: "none" (not built), "live" or "deleted"
  m_fd,        \* m_fd[c]: the channel's descriptor or NoFd
  open,        \* descriptors open in the process
  m_chanFdMap, \* the registry: descriptor -> channel
  m_chanMap,   \* channels added to the TcpChannelSelect
  inbox,       \* inbox[f]: frames (or pending connections) queued on f
  eof,         \* eof[f]: the peer closed the connection of f
  sel,         \* the channel wait() returned, not yet handled, or NoChan
  sent,        \* frames and connections the peers sent
  aborted,     \* the assert() that ended the process, or "none"
  lastWait     \* history: what the last wait() returned and what was ready

vars == <<life, m_fd, open, m_chanFdMap, m_chanMap, inbox, eof, sel, sent,
          aborted, lastWait>>

-----------------------------------------------------------------------------
(* Helpers                                                                 *)

Free == Fds \ open

\* the n lowest descriptors of S
LowestN(S, n) == {f \in S : Cardinality({g \in S : g < f}) < n}

\* the descriptor a successful socket()/accept() returns after n others
\* were taken before it
NthFree(n) == Min(Free \ LowestN(Free, n))

Running == aborted = "none"

\* the caller thread is not inside a wait()/handle step
CallerFree == Running /\ sel = NoChan

\* a fresh descriptor f: its receive queue is empty and the peer is there
FreshFd(f) ==
  /\ inbox' = [inbox EXCEPT ![f] = 0]
  /\ eof'   = [eof EXCEPT ![f] = FALSE]

\* the descriptors getSelectFd() offers select(): fd > -1 (:285)
Polled == {m_fd[c] : c \in m_chanMap} \ {NoFd}

\* a descriptor select() reports readable
Readable(f) == inbox[f] > 0 \/ eof[f]

-----------------------------------------------------------------------------
(* Construction, connect, accept, close, destruction                       *)

\* initServer/setupRecv (:104-146): socket() is asserted (:119); a bind()
\* that fails (the port is taken: bindOk = FALSE) closes the descriptor
\* and asserts (:134-138); otherwise the descriptor listens.
InitServer(bindOk) ==
  CASE Free = {} -> [fd |-> NoFd, abort |-> "socket"]
    [] ~bindOk   -> [fd |-> NoFd, abort |-> "bind"]
    [] OTHER     -> [fd |-> NthFree(0), abort |-> "none"]

\* The constructor (:23-39): a listener binds and listens at once and
\* registers its descriptor; a client only records the server address.
Construct(c, bindOk) ==
  LET s == InitServer(bindOk) IN
  /\ CallerFree
  /\ life[c] = "none"
  /\ c \in Listeners \cup Clients
  /\ c \in Clients => bindOk
  /\ life' = [life EXCEPT ![c] = "live"]
  /\ IF c \in Clients
       THEN UNCHANGED <<m_fd, open, m_chanFdMap, inbox, eof, aborted>>
     ELSE IF s.abort # "none"
       THEN /\ aborted' = s.abort
            /\ UNCHANGED <<m_fd, open, m_chanFdMap, inbox, eof>>
     ELSE /\ m_fd' = [m_fd EXCEPT ![c] = s.fd]
          /\ open' = open \cup {s.fd}
          /\ m_chanFdMap' = [m_chanFdMap EXCEPT ![s.fd] = c]
          /\ FreshFd(s.fd)
          /\ UNCHANGED aborted
  /\ UNCHANGED <<m_chanMap, sel, sent, lastWait>>

\* variant of XX: the descriptor is not registered after a connect
XXNoRegister(c, k, ok) ==
  LET need   == k + (IF ok THEN 1 ELSE 0)
      leaked == LowestN(Free, k)
      f      == NthFree(k)
  IN
  IF Cardinality(Free) < need
    THEN /\ aborted' = "socket"
         /\ open' = open \cup Free
         /\ UNCHANGED <<m_fd, m_chanFdMap, inbox, eof>>
  ELSE IF ok
    THEN /\ m_fd' = [m_fd EXCEPT ![c] = f]
         /\ open' = open \cup leaked \cup {f}
         /\ m_chanFdMap' = m_chanFdMap
         /\ FreshFd(f)
         /\ UNCHANGED aborted
    ELSE /\ aborted' = "connect"
         /\ open' = open \cup leaked
         /\ UNCHANGED <<m_fd, m_chanFdMap, inbox, eof>>

\* xx() (:51-63): initClient (:77-102) is tried until it connects or the
\* budget is spent (count = Count: Count + 1 attempts).  Every attempt
\* takes the lowest free descriptor from socket() (assert :86) and, when
\* connect() fails, returns -1 leaving that socket open.  k attempts fail;
\* ok says whether attempt k + 1 connects.  On success the descriptor is
\* registered (:58-60); on failure m_fd stays -1 and the read() or write()
\* that follows on -1 fails its assert (:196, :224).
XX(c, k, ok) ==
  LET need   == k + (IF ok THEN 1 ELSE 0)
      leaked == LowestN(Free, k)
      f      == NthFree(k)
  IN
  IF Cardinality(Free) < need
    THEN /\ aborted' = "socket"
         /\ open' = open \cup Free
         /\ UNCHANGED <<m_fd, m_chanFdMap, inbox, eof>>
  ELSE IF ok
    THEN /\ m_fd' = [m_fd EXCEPT ![c] = f]
         /\ open' = open \cup leaked \cup {f}
         /\ m_chanFdMap' = [m_chanFdMap EXCEPT ![f] = c]
         /\ FreshFd(f)
         /\ UNCHANGED aborted
    ELSE /\ aborted' = "connect"
         /\ open' = open \cup leaked
         /\ UNCHANGED <<m_fd, m_chanFdMap, inbox, eof>>

\* outcomes of the retry loop: success after k <= Count failures, or
\* Count + 1 failures
XXOutcomes == {<<k, TRUE>> : k \in 0 .. Count} \cup {<<Count + 1, FALSE>>}

\* sendEvent (:214-239): connect first if m_fd is -1, then write the
\* frame.  A write on a connection the peer closed may fail (EPIPE), and
\* the assert at :224 ends the process; a write on a healthy connection
\* changes no state modelled here.
SendEvent(c, k, ok, wok) ==
  /\ CallerFree
  /\ life[c] = "live"
  /\ c \in Clients \/ (c \in AcceptSlots /\ m_fd[c] # NoFd)
  /\ IF m_fd[c] = NoFd
       THEN XX(c, k, ok)
       ELSE /\ eof[m_fd[c]]
            /\ aborted' = IF wok THEN aborted ELSE "write"
            /\ UNCHANGED <<m_fd, open, m_chanFdMap, inbox, eof>>
  /\ UNCHANGED <<life, m_chanMap, sel, sent, lastWait>>

\* close() (:42-49): assert m_fd != -1, erase the registry entry, close.
Close(c) ==
  /\ CallerFree
  /\ life[c] = "live"
  /\ IF m_fd[c] = NoFd
       THEN /\ aborted' = "close"
            /\ UNCHANGED <<m_fd, open, m_chanFdMap>>
       ELSE /\ m_chanFdMap' = [m_chanFdMap EXCEPT ![m_fd[c]] = NoChan]
            /\ open' = open \ {m_fd[c]}
            /\ m_fd' = [m_fd EXCEPT ![c] = NoFd]
            /\ UNCHANGED aborted
  /\ UNCHANGED <<life, m_chanMap, inbox, eof, sel, sent, lastWait>>

\* ~TcpEventChannel (:72-76): closes the descriptor but leaves the
\* registry entry.  The owner deletes only a channel it has taken out of
\* the select (the TcpChannelSelect holds it, it does not own it).
Delete(c) ==
  /\ CallerFree
  /\ life[c] = "live"
  /\ c \notin m_chanMap
  /\ life' = [life EXCEPT ![c] = "deleted"]
  /\ open' = open \ {m_fd[c]}
  /\ UNCHANGED <<m_fd, m_chanFdMap, m_chanMap, inbox, eof, sel, sent,
                 aborted, lastWait>>

\* TcpChannelSelect::addChannel (:247-255) and delChannel (:257-265); the
\* asserts against a duplicate add and a missing remove are the caller's
\* preconditions.  The owner does not add back a channel whose peer hung up.
AddChannel(c) ==
  /\ CallerFree
  /\ life[c] = "live"
  /\ c \notin m_chanMap
  /\ m_fd[c] # NoFd => ~eof[m_fd[c]]
  /\ m_chanMap' = m_chanMap \cup {c}
  /\ UNCHANGED <<life, m_fd, open, m_chanFdMap, inbox, eof, sel, sent,
                 aborted, lastWait>>

DelChannel(c) ==
  /\ CallerFree
  /\ c \in m_chanMap
  /\ m_chanMap' = m_chanMap \ {c}
  /\ UNCHANGED <<life, m_fd, open, m_chanFdMap, inbox, eof, sel, sent,
                 aborted, lastWait>>

-----------------------------------------------------------------------------
(* The multiplexer and the dispatch loop                                   *)

\* variant of Wait: select() is given every registered descriptor, not
\* only those of the channels added to the select
WaitAllRegistered ==
  LET ready == {f \in Fds : m_chanFdMap[f] # NoChan /\ f \in open /\ Readable(f)}
      c     == m_chanFdMap[Min(ready)]
  IN
  /\ CallerFree
  /\ ready # {}
  /\ IF c = NoChan
       THEN /\ aborted' = "select"
            /\ UNCHANGED <<sel, m_chanMap, lastWait>>
       ELSE /\ sel' = c
            /\ m_chanMap' = m_chanMap \cup {c}
            /\ lastWait' = [chan  |-> c,
                            ready |-> {d \in m_chanMap : m_fd[d] \in ready}]
            /\ UNCHANGED aborted
  /\ UNCHANGED <<life, m_fd, open, m_chanFdMap, inbox, eof, sent>>

\* TcpChannelSelect::wait() (:267-308): select() over the descriptors of
\* the added channels that are > -1 blocks until one is readable; the loop
\* at :298-304 takes the lowest readable descriptor, selected() (:148-154)
\* asserts it is registered and returns m_chanFdMap[fd], and
\* m_chanMap[chan] is returned (operator[] adds chan if it was missing).
Wait ==
  LET ready == {f \in Polled : Readable(f)}
      c     == m_chanFdMap[Min(ready)]
  IN
  /\ CallerFree
  /\ ready # {}
  /\ IF c = NoChan
       THEN /\ aborted' = "select"
            /\ UNCHANGED <<sel, m_chanMap, lastWait>>
       ELSE /\ sel' = c
            /\ m_chanMap' = m_chanMap \cup {c}
            /\ lastWait' = [chan  |-> c,
                            ready |-> {d \in m_chanMap : m_fd[d] \in ready}]
            /\ UNCHANGED aborted
  /\ UNCHANGED <<life, m_fd, open, m_chanFdMap, inbox, eof, sent>>

\* variant of Handle: a NULL event from getEvent is taken as a frame
HandleEofConsumes ==
  LET c == sel
      f == m_fd[c]
  IN
  /\ Running
  /\ c # NoChan
  /\ sel' = NoChan
  /\ IF c \in Listeners
       THEN IF Free = {}
              THEN /\ aborted' = "accept"
                   /\ UNCHANGED <<life, m_fd, open, m_chanFdMap, inbox, eof>>
              ELSE LET s == CHOOSE s \in AcceptSlots : life[s] = "none"
                       g == NthFree(0)
                   IN
                   /\ life' = [life EXCEPT ![s] = "live"]
                   /\ m_fd' = [m_fd EXCEPT ![s] = g]
                   /\ open' = open \cup {g}
                   /\ m_chanFdMap' = [m_chanFdMap EXCEPT ![g] = s]
                   /\ inbox' = [inbox EXCEPT ![f] = @ - 1, ![g] = 0]
                   /\ eof' = [eof EXCEPT ![g] = FALSE]
                   /\ UNCHANGED aborted
       ELSE /\ inbox' = [inbox EXCEPT ![f] = @ - 1]
            /\ UNCHANGED <<life, m_fd, open, m_chanFdMap, eof, aborted>>
  /\ UNCHANGED <<m_chanMap, sent, lastWait>>

\* The owner handles the channel wait() returned: accept() (:156-163) on a
\* listener, which takes the lowest free descriptor (assert :160) and
\* builds a registered channel (:65-70); getEvent() (:183-212) on any
\* other, which reads one frame, or returns NULL when read() gives 0 bytes
\* because the peer closed.
Handle ==
  LET c == sel
      f == m_fd[c]
  IN
  /\ Running
  /\ c # NoChan
  /\ sel' = NoChan
  /\ IF c \in Listeners
       THEN IF Free = {}
              THEN /\ aborted' = "accept"
                   /\ UNCHANGED <<life, m_fd, open, m_chanFdMap, inbox, eof>>
              ELSE LET s == CHOOSE s \in AcceptSlots : life[s] = "none"
                       g == NthFree(0)
                   IN
                   /\ life' = [life EXCEPT ![s] = "live"]
                   /\ m_fd' = [m_fd EXCEPT ![s] = g]
                   /\ open' = open \cup {g}
                   /\ m_chanFdMap' = [m_chanFdMap EXCEPT ![g] = s]
                   /\ inbox' = [inbox EXCEPT ![f] = @ - 1, ![g] = 0]
                   /\ eof' = [eof EXCEPT ![g] = FALSE]
                   /\ UNCHANGED aborted
       ELSE /\ inbox' = IF inbox[f] > 0 THEN [inbox EXCEPT ![f] = @ - 1]
                                        ELSE inbox
            /\ UNCHANGED <<life, m_fd, open, m_chanFdMap, eof, aborted>>
  /\ UNCHANGED <<m_chanMap, sent, lastWait>>

-----------------------------------------------------------------------------
(* The peers                                                               *)

Budget == sent < MaxSends
Spend  == sent' = sent + 1

\* descriptors of live, connected, non-listening channels
Connected == {m_fd[c] : c \in {d \in (Clients \cup AcceptSlots) :
                                 life[d] = "live"}} \ {NoFd}

\* a remote client connects to a listener; one accept slot is kept per
\* pending connection
PeerConnect(l) ==
  LET f == m_fd[l] IN
  /\ Running
  /\ life[l] = "live"
  /\ f # NoFd
  /\ Budget
  /\ inbox[f] < MaxIn
  /\ inbox[f] < Cardinality({s \in AcceptSlots : life[s] = "none"})
  /\ inbox' = [inbox EXCEPT ![f] = @ + 1]
  /\ Spend
  /\ UNCHANGED <<life, m_fd, open, m_chanFdMap, m_chanMap, eof, sel,
                 aborted, lastWait>>

\* the peer of a connection sends a frame
PeerSend(f) ==
  /\ Running
  /\ f \in Connected
  /\ ~eof[f]
  /\ Budget
  /\ inbox[f] < MaxIn
  /\ inbox' = [inbox EXCEPT ![f] = @ + 1]
  /\ Spend
  /\ UNCHANGED <<life, m_fd, open, m_chanFdMap, m_chanMap, eof, sel,
                 aborted, lastWait>>

\* the peer of a connection closes it
PeerClose(f) ==
  /\ Running
  /\ f \in Connected
  /\ ~eof[f]
  /\ Budget
  /\ eof' = [eof EXCEPT ![f] = TRUE]
  /\ Spend
  /\ UNCHANGED <<life, m_fd, open, m_chanFdMap, m_chanMap, inbox, sel,
                 aborted, lastWait>>

\* a failed assert() ended the process, or the owner has deleted every
\* channel it built and nothing is left to run
Halted ==
  /\ ~Running \/ \A c \in Chans : life[c] # "live"
  /\ UNCHANGED vars

-----------------------------------------------------------------------------
Init ==
  /\ life = [c \in Chans |-> "none"]
  /\ m_fd = [c \in Chans |-> NoFd]
  /\ open = {}
  /\ m_chanFdMap = [f \in Fds |-> NoChan]
  /\ m_chanMap = {}
  /\ inbox = [f \in Fds |-> 0]
  /\ eof = [f \in Fds |-> FALSE]
  /\ sel = NoChan
  /\ sent = 0
  /\ aborted = "none"
  /\ lastWait = [chan |-> NoChan, ready |-> {}]

Next ==
  \/ \E c \in Chans :
       \/ \E ok \in BOOLEAN : Construct(c, ok)
       \/ \E o \in XXOutcomes, wok \in BOOLEAN : SendEvent(c, o[1], o[2], wok)
       \/ Close(c)
       \/ Delete(c)
       \/ AddChannel(c)
       \/ DelChannel(c)
  \/ Wait
  \/ Handle
  \/ \E l \in Listeners : PeerConnect(l)
  \/ \E f \in Fds : PeerSend(f) \/ PeerClose(f)
  \/ Halted

Spec == Init /\ [][Next]_vars

-----------------------------------------------------------------------------
(* Properties                                                              *)

TypeOK ==
  /\ life \in [Chans -> {"none", "live", "deleted"}]
  /\ m_fd \in [Chans -> Fds \cup {NoFd}]
  /\ open \subseteq Fds
  /\ m_chanFdMap \in [Fds -> Chans \cup {NoChan}]
  /\ m_chanMap \subseteq Chans
  /\ inbox \in [Fds -> 0 .. MaxIn]
  /\ eof \in [Fds -> BOOLEAN]
  /\ sel \in Chans \cup {NoChan}
  /\ aborted \in Aborts

\* spec.md 3, invariant 6 and 8: every live channel with a descriptor
\* (the listener of the constructor :33, a client after xx :59, an
\* accepted channel :69) owns an open descriptor that the registry maps
\* back to it, however descriptors were closed (:46-47, :75) and reused.
RegistryExact ==
  \A c \in Chans :
    life[c] = "live" /\ m_fd[c] # NoFd =>
      /\ m_fd[c] \in open
      /\ m_chanFdMap[m_fd[c]] = c

\* spec.md 8: wait() (:267-308) returns the data of a channel of the
\* select that was ready, and never meets a ready descriptor the registry
\* does not know (assert :151).
WaitReturnsReady ==
  /\ aborted # "select"
  /\ lastWait.chan # NoChan => lastWait.chan \in lastWait.ready

\* spec.md 8 (no partial registry entry, connect fails cleanly): every
\* open descriptor belongs to a live channel; initClient (:85-101) does
\* not close the socket of a failed connect.
NoLeakedFd ==
  open = {m_fd[c] : c \in {d \in Chans : life[d] = "live"}} \ {NoFd}

====
