-------------------------- MODULE RouterGetSamples --------------------------
(***************************************************************************)
(* The router's forwarding of getSamples requests and responses           *)
(* (src/tools/pwrdaemon/router/commGetSamplesEvent.h).                     *)
(*                                                                         *)
(* RtrCommGetSamplesReqEvent::process allocates a CommReqInfo holding the  *)
(* client channel and the client's event id, replaces the event id by the  *)
(* CommReqInfo's address and forwards the event to every server of the     *)
(* comm list of its commID.  RtrCommGetSamplesRespEvent::process takes the *)
(* address back from the response, restores the client's id, sends the     *)
(* response to the client and deletes the CommReqInfo.                     *)
(*                                                                         *)
(* Heap cells that may hold a CommReqInfo are the model values of Slots:   *)
(* new returns any free cell, and a cell keeps the values last written to  *)
(* it after delete.  A response for a deleted CommReqInfo reads those      *)
(* stale values (one outcome of the undefined behaviour) and deletes the   *)
(* cell again.                                                             *)
(***************************************************************************)
EXTENDS Naturals, FiniteSets, Bags

CONSTANTS
  RClients,  \* client channels of the router
  Servers,   \* ObjIDs the router forwards to
  CommIDs,   \* comm groups a request may name
  CommList,  \* CommList[k]: the servers of client.getCommList(k)
  Slots,     \* heap cells for CommReqInfo objects
  NoClient,  \* the client field of a never written cell
  MaxReqs    \* getSamples requests each client sends

ASSUME /\ CommList \in [CommIDs -> SUBSET Servers]
       /\ MaxReqs \in Nat \ {0}
       /\ NoClient \notin RClients

Ids == 1 .. MaxReqs  \* a client's event ids

VARIABLES
  issued,     \* issued[c]: requests client c sent (its ids 1..issued[c])
  toRouter,   \* client requests in flight: [src, id, comm]
  toServer,   \* forwarded requests in flight: [srv, slot]
  fromServer, \* server responses in flight: [srv, slot]
  infoLive,   \* infoLive[s]: cell s holds an undeleted CommReqInfo
  infoSrc,    \* infoSrc[s]: info->src last written to cell s
  infoId,     \* infoId[s]: info->id last written to cell s
  delivered,  \* bag of the responses the router sent clients: [dst, id]
  freedTwice  \* a CommReqInfo was deleted twice

vars == <<issued, toRouter, toServer, fromServer, infoLive, infoSrc, infoId,
          delivered, freedTwice>>

-----------------------------------------------------------------------------
\* a client sends getSamples for comm group k with its next id
ClientSend(c, k) ==
  /\ issued[c] < MaxReqs
  /\ issued' = [issued EXCEPT ![c] = @ + 1]
  /\ toRouter' = toRouter \cup {[src |-> c, id |-> issued[c] + 1, comm |-> k]}
  /\ UNCHANGED <<toServer, fromServer, infoLive, infoSrc, infoId, delivered,
                 freedTwice>>

\* variant of RouterReq: the event goes to every server, whatever the
\* commID
RouterReqAllServers(m) ==
  \E s \in Slots :
    /\ m \in toRouter
    /\ ~infoLive[s]
    /\ infoLive' = [infoLive EXCEPT ![s] = TRUE]
    /\ infoSrc' = [infoSrc EXCEPT ![s] = m.src]
    /\ infoId' = [infoId EXCEPT ![s] = m.id]
    /\ toRouter' = toRouter \ {m}
    /\ toServer' = toServer \cup {[srv |-> v, slot |-> s] : v \in Servers}
    /\ UNCHANGED <<issued, fromServer, delivered, freedTwice>>

\* RtrCommGetSamplesReqEvent::process (:16-40): new CommReqInfo in a free
\* cell s with src = ec and id = the client's id (:20-23), id = info
\* (:25), and sendEvent to every server of the comm list (:32-38).
RouterReq(m) ==
  \E s \in Slots :
    /\ m \in toRouter
    /\ ~infoLive[s]
    /\ infoLive' = [infoLive EXCEPT ![s] = TRUE]
    /\ infoSrc' = [infoSrc EXCEPT ![s] = m.src]
    /\ infoId' = [infoId EXCEPT ![s] = m.id]
    /\ toRouter' = toRouter \ {m}
    /\ toServer' = toServer \cup {[srv |-> v, slot |-> s] : v \in CommList[m.comm]}
    /\ UNCHANGED <<issued, fromServer, delivered, freedTwice>>

\* a server answers a forwarded request, echoing its id
Serve(m) ==
  /\ m \in toServer
  /\ toServer' = toServer \ {m}
  /\ fromServer' = fromServer \cup {m}
  /\ UNCHANGED <<issued, toRouter, infoLive, infoSrc, infoId, delivered,
                 freedTwice>>

\* variant of RouterResp: the client's id is not put back (:52 missing)
RouterRespNoRestore(m) ==
  LET s == m.slot IN
  /\ m \in fromServer
  /\ fromServer' = fromServer \ {m}
  /\ delivered' = delivered (+) SetToBag({[dst |-> infoSrc[s], id |-> s]})
  /\ freedTwice' = (freedTwice \/ ~infoLive[s])
  /\ infoLive' = [infoLive EXCEPT ![s] = FALSE]
  /\ UNCHANGED <<issued, toRouter, toServer, infoSrc, infoId>>

\* variant of RouterResp: the response goes back on ec, the server's
\* channel, instead of info->src
RouterRespToServer(m) ==
  LET s == m.slot IN
  /\ m \in fromServer
  /\ fromServer' = fromServer \ {m}
  /\ delivered' = delivered
  /\ freedTwice' = (freedTwice \/ ~infoLive[s])
  /\ infoLive' = [infoLive EXCEPT ![s] = FALSE]
  /\ UNCHANGED <<issued, toRouter, toServer, infoSrc, infoId>>

\* RtrCommGetSamplesRespEvent::process (:47-56): info = id, id = info->id,
\* info->src->sendEvent(this), delete info.
RouterResp(m) ==
  LET s == m.slot IN
  /\ m \in fromServer
  /\ fromServer' = fromServer \ {m}
  /\ delivered' = delivered (+) SetToBag({[dst |-> infoSrc[s], id |-> infoId[s]]})
  /\ freedTwice' = (freedTwice \/ ~infoLive[s])
  /\ infoLive' = [infoLive EXCEPT ![s] = FALSE]
  /\ UNCHANGED <<issued, toRouter, toServer, infoSrc, infoId>>

\* every client has sent all its requests and all have been answered
Done ==
  /\ \A c \in RClients : issued[c] = MaxReqs
  /\ toRouter = {} /\ toServer = {} /\ fromServer = {}
  /\ UNCHANGED vars

-----------------------------------------------------------------------------
Init ==
  /\ issued = [c \in RClients |-> 0]
  /\ toRouter = {}
  /\ toServer = {}
  /\ fromServer = {}
  /\ infoLive = [s \in Slots |-> FALSE]
  /\ infoSrc = [s \in Slots |-> NoClient]
  /\ infoId = [s \in Slots |-> 0]
  /\ delivered = EmptyBag
  /\ freedTwice = FALSE

Next ==
  \/ \E c \in RClients, k \in CommIDs : ClientSend(c, k)
  \/ \E m \in toRouter : RouterReq(m)
  \/ \E m \in toServer : Serve(m)
  \/ \E m \in fromServer : RouterResp(m)
  \/ Done

\* The router's event loop processes every event it receives and every
\* server answers what it is sent.
Fairness ==
  /\ WF_vars(\E m \in toRouter : RouterReq(m))
  /\ WF_vars(\E m \in toServer : Serve(m))
  /\ WF_vars(\E m \in fromServer : RouterResp(m))

Spec == Init /\ [][Next]_vars /\ Fairness

-----------------------------------------------------------------------------
(* Properties                                                              *)

TypeOK ==
  /\ issued \in [RClients -> 0 .. MaxReqs]
  /\ infoLive \in [Slots -> BOOLEAN]
  /\ \A m \in toServer \cup fromServer : m.srv \in Servers /\ m.slot \in Slots
  /\ IsABag(delivered)
  /\ BagToSet(delivered) \subseteq [dst : RClients, id : Ids]

\* spec.md 3 (invariant 2) and 8: the router is transparent; every
\* response it sends a client (:52-53) answers a request that client
\* sent, with that request's id, at most once, and no CommReqInfo is
\* deleted twice (:54).
OneResponsePerRequest ==
  /\ ~freedTwice
  /\ \A r \in BagToSet(delivered) :
       /\ r.dst \in RClients
       /\ r.id \in 1 .. issued[r.dst]
       /\ CopiesIn(r, delivered) = 1

\* The router implements GetSamplesRelay: the clients' view is their
\* issued counts and, for each of their ids, how many responses carrying
\* it the router sent them (:52-53).
answersBar ==
  [c \in RClients |-> [n \in Ids |-> CopiesIn([dst |-> c, id |-> n], delivered)]]

Relay == INSTANCE GetSamplesRelay WITH Clients <- RClients, answers <- answersBar

\* spec.md 3 (invariant 2) and 8: every step of the router, its servers
\* and its clients is a step of the transparent relay (a client sends, or
\* one outstanding request of one client is answered, once, with its own
\* id), and under the router loop's fairness every request sent is
\* eventually answered.
RelaySpec == Relay!Spec
====
