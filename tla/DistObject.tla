----------------------------- MODULE DistObject -----------------------------
(***************************************************************************)
(* The distributed attribute-access protocol of one caller thread.         *)
(*                                                                         *)
(* DistObject (src/src/pwr/distObject.cc) turns every attribute call into  *)
(* a local part, resolved at once, and at most one remote sub-operation    *)
(* (a CommRequest) inserted into a Request.  A peer answers each           *)
(* sub-operation with a response event; the thread that pumps the          *)
(* channels routes the response back to its Request, which completes when *)
(* no child is left: a blocking caller then returns from wait(), a         *)
(* Request with a completion callback runs it and deletes itself.          *)
(*                                                                         *)
(* The Request/CommRequest/Status classes (distRequest.h, status.h) are    *)
(* not part of the sources; their operations are modelled from spec.md     *)
(* section 4.1.  The peer and the transport are abstracted to a pool of    *)
(* in-flight events (TCP delivers every event; responses of different      *)
(* sub-operations may come back in any order).                             *)
(***************************************************************************)
EXTENDS Naturals, Sequences, FiniteSets, SequencesExt

CONSTANTS
  Objs,          \* DistObjects of the topology
  Attrs,         \* attribute names
  Comms,         \* comm handlers an AttrInfo may point to
  NoComm,        \* the null comm handler: the attribute is local
  AttrComm,      \* AttrComm[o][a] = m_attrInfo[a]->comm of object o
  Errs,          \* error codes of a failed attribute access
  MaxCalls,      \* bound on the attribute calls the caller makes
  MaxBatch,      \* calls batched under one caller-supplied Request
  MaxAsyncBatch, \* the same, for a Request with a completion callback
  AllowMixed     \* may a call name local and remote attributes together

ASSUME /\ NoComm \notin Comms
       /\ AttrComm \in [Objs -> [Attrs -> Comms \cup {NoComm}]]
       /\ Errs # {}
       /\ MaxCalls \in Nat \ {0}
       /\ MaxBatch \in Nat \ {0}
       /\ MaxAsyncBatch \in Nat \ {0}
       /\ AllowMixed \in BOOLEAN

StatusOps == {"get", "set"}                       \* attr{Get,Set}Values
LogOps    == {"startLog", "stopLog", "getSamples"} \* one attribute, no Status
Ops       == StatusOps \cup LogOps

ReqIds     == 1..MaxCalls
CommReqIds == 1..MaxCalls
NoReq      == 0

\* a PWR_AttrAccessError: one Status entry
Entry == [obj : Objs, attr : Attrs, err : Errs]

RetVals == {"SUCCESS", "STATUS"} \cup Errs

VARIABLES
  reqState,    \* [ReqIds -> {"unused", "live", "freed"}]
  hasCallback, \* does the Request carry a completion callback
  pending,     \* children (CommRequests) of a Request not yet finished
  reqStatus,   \* errors the responses reported to a Request, in order
  fired,       \* history: how often the Request's callback has run
  batch,       \* the caller-supplied Request being filled, or NoReq
  batched,     \* calls made so far under a caller-supplied Request
  parent,      \* parent[c]: the Request CommRequest c was inserted into
  net,         \* request and response events in flight
  pc,          \* the caller thread: "idle", "wait" or "aborted"
  cur,         \* the Request the caller is blocked on in wait()
  curKind,     \* which wrapper runs the wait(): "status", "single",
               \* "log" or "batch"
  status,      \* the caller's Status object of the running call
  nCalls,      \* attribute calls made
  localFail,   \* history: local failures of the running blocking call
  remoteFail,  \* history: failures the peer reported per Request
  lastCall     \* history: what the last call returned to its caller

reqVars    == <<reqState, hasCallback, pending, reqStatus, fired, batch, batched>>
callerVars == <<pc, cur, curKind, status, nCalls, localFail, lastCall>>
vars == <<reqVars, parent, net, callerVars, remoteFail>>

-----------------------------------------------------------------------------
(* Helpers                                                                 *)

\* info = m_attrInfo[names[0]]: the comm handler the call is sent through
CommOf(o, names) == AttrComm[o][CHOOSE a \in names : TRUE]

\* the assert of distObject.cc:156 and :197 holds for this name list
SameComm(o, names) == \A a, b \in names : AttrComm[o][a] = AttrComm[o][b]

\* name lists the caller passes to attr{Get,Set}Values
CallNames(o) ==
  { N \in SUBSET Attrs : N # {} /\ (AllowMixed \/ SameComm(o, N)) }

\* m_local of the constructor: no attribute has a comm handler
m_local(o) == \A a \in Attrs : AttrComm[o][a] = NoComm

\* DistRequest::finished(): no child outstanding
finished(r) == pending[r] = {}

FreshReq == CHOOSE r \in ReqIds : reqState[r] = "unused"
FreshCommReq == CHOOSE c \in CommReqIds : parent[c] = NoReq

\* Status entries for the attributes in F that failed with code e
Errors(o, F, e) == SetToSeq({[obj |-> o, attr |-> a, err |-> e] : a \in F})

\* variant: the wrapper returns PWR_RET_FAILURE instead of error.error
FirstCodeGeneric(s) == IF s = <<>> THEN "SUCCESS" ELSE "FAILURE"

\* the single code the blocking Log/Samples wrappers get from wait(&status)
FirstCode(s) == IF s = <<>> THEN "SUCCESS" ELSE Head(s).err

-----------------------------------------------------------------------------
(* variant of Issue: the callback check omits distReq->finished()        *)
IssueNoFinishedCheck(r, o, op, names, errs, rv) ==
  LET early  == op \in LogOps /\ rv # "SUCCESS"
      remote == ~early /\ CommOf(o, names) # NoComm
      c      == FreshCommReq
      pend   == IF remote THEN pending[r] \cup {c} ELSE pending[r]
      ret    == IF early THEN rv
                ELSE IF errs = <<>> THEN "SUCCESS" ELSE "STATUS"
  IN [ret |-> ret, remote |-> remote, pend |-> pend,
      fire |-> ~early /\ ret = "SUCCESS" /\ hasCallback[r],
      msg |-> [type |-> "req", cr |-> c, obj |-> o, names |-> names]]

(* The Request overloads of distObject.cc (attrGetValues :138, attr-       *)
(* SetValues :183, attrStartLog :219, attrStopLog :262, attrGetSamples     *)
(* :305) run op of object o on Request r.  errs is the Status the local    *)
(* part left (Object::attr*Values), rv what Object::attr{Start,Stop}Log or *)
(* Object::attrGetSamples returned.  Issue is the outcome as a record.     *)
Issue(r, o, op, names, errs, rv) ==
  LET early  == op \in LogOps /\ rv # "SUCCESS"
      remote == ~early /\ CommOf(o, names) # NoComm
      c      == FreshCommReq
      pend   == IF remote THEN pending[r] \cup {c} ELSE pending[r]
      ret    == IF early THEN rv
                ELSE IF errs = <<>> THEN "SUCCESS" ELSE "STATUS"
  IN [ret    |-> ret,
      remote |-> remote,
      pend   |-> pend,
      \* retval == SUCCESS && finished() && execCallback(): delete
      fire   |-> ~early /\ ret = "SUCCESS" /\ pend = {} /\ hasCallback[r],
      msg    |-> [type |-> "req", cr |-> c, obj |-> o, names |-> names]]

\* variant of ApplyIssue: the event is sent but distReq->insert() is lost
ApplyIssueNoInsert(r, x) ==
  /\ pending' = pending
  /\ parent'  = IF x.remote THEN [parent EXCEPT ![x.msg.cr] = r] ELSE parent
  /\ net'     = IF x.remote THEN net \cup {x.msg} ELSE net
  /\ fired'   = IF x.fire THEN [fired EXCEPT ![r] = @ + 1] ELSE fired

\* the part of an Issue that changes the Request and the network:
\* distReq->insert(commReq), info->comm->getValues(...) sending the event,
\* and execCallback() followed by delete
ApplyIssue(r, x) ==
  /\ pending' = [pending EXCEPT ![r] = x.pend]
  /\ parent'  = IF x.remote THEN [parent EXCEPT ![x.msg.cr] = r] ELSE parent
  /\ net'     = IF x.remote THEN net \cup {x.msg} ELSE net
  /\ fired'   = IF x.fire THEN [fired EXCEPT ![r] = @ + 1] ELSE fired

\* local outcomes of op: failed attributes (only a local attribute is
\* read or written by the base Object) and Object::attr*Log's retval
LocalFails(o, op, names) ==
  IF op \in StatusOps /\ CommOf(o, names) = NoComm THEN SUBSET names ELSE {{}}
LocalRvs(op) == IF op \in LogOps THEN {"SUCCESS"} \cup Errs ELSE {"SUCCESS"}

-----------------------------------------------------------------------------
(* Caller actions                                                          *)

\* The blocking wrappers: attrGetValue :31 / attrSetValue :49 (single),
\* attrGetValues :66 / attrSetValues :85, attrStartLog :244,
\* attrStopLog :287, attrGetSamples :336.  A DistRequest on the stack runs
\* the Request overload and is then waited on.
BlockingCall(o, op, names, single, F, e, rv) ==
  LET r    == FreshReq
      errs == Errors(o, F, e)
      x    == Issue(r, o, op, names, errs, rv)
  IN
  /\ pc = "idle"
  /\ nCalls < MaxCalls
  /\ \E u \in ReqIds : reqState[u] = "unused"
  /\ batch = NoReq
  /\ single => op \in StatusOps /\ Cardinality(names) = 1
  /\ SameComm(o, names)
  /\ nCalls' = nCalls + 1
  /\ ApplyIssue(r, x)
  /\ IF op \in LogOps /\ rv # "SUCCESS"
       \* early return: the Request is never waited on and goes out of scope
       THEN /\ reqState' = [reqState EXCEPT ![r] = "freed"]
            /\ lastCall' = [ret |-> rv, failures |-> 1, multi |-> FALSE,
                            statusLen |-> 0]
            /\ UNCHANGED <<pc, cur, curKind, status, localFail>>
       ELSE /\ reqState' = [reqState EXCEPT ![r] = "live"]
            /\ pc' = "wait"
            /\ cur' = r
            /\ curKind' = CASE op \in LogOps -> "log"
                             [] single        -> "single"
                             [] OTHER         -> "status"
            /\ status' = errs
            /\ localFail' = Cardinality(F)
            /\ UNCHANGED lastCall
  /\ UNCHANGED <<hasCallback, reqStatus, batch, batched, remoteFail>>

\* the assert(info->comm == m_attrInfo[names[i]]->comm) of :156 and :197
\* fails: the process aborts before any remote work is sent
AbortMixed(o, op, names) ==
  /\ pc = "idle"
  /\ nCalls < MaxCalls
  /\ op \in StatusOps
  /\ ~SameComm(o, names)
  /\ pc' = "aborted"
  /\ nCalls' = nCalls + 1
  /\ UNCHANGED <<reqVars, parent, net, cur, curKind, status, localFail,
                 lastCall, remoteFail>>

\* A higher layer creates a Request for a batch of calls, with or without
\* a completion callback.
NewRequest(cb) ==
  LET r == FreshReq IN
  /\ pc = "idle"
  /\ nCalls < MaxCalls
  /\ \E u \in ReqIds : reqState[u] = "unused"
  /\ reqState' = [reqState EXCEPT ![r] = "live"]
  /\ hasCallback' = [hasCallback EXCEPT ![r] = cb]
  /\ batch = NoReq
  /\ batch' = r
  /\ UNCHANGED <<pending, reqStatus, fired, batched, parent, net,
                 callerVars, remoteFail>>

BatchBound(r) == IF hasCallback[r] THEN MaxAsyncBatch ELSE MaxBatch

\* A call on a caller-supplied Request: attrGetValues :106 and
\* attrSetValues :122 keep their local Status and return its first error;
\* the Log/Samples overloads return retval.  The caller holds r whether or
\* not the call already deleted it.
BatchCall(r, o, op, names, F, e, rv) ==
  LET errs == Errors(o, F, e)
      x    == Issue(r, o, op, names, errs, rv)
      ret  == IF x.ret = "STATUS" THEN Head(errs).err ELSE x.ret
  IN
  /\ pc = "idle"
  /\ nCalls < MaxCalls
  /\ r = batch
  /\ batched[r] < BatchBound(r)
  /\ SameComm(o, names)
  /\ nCalls' = nCalls + 1
  /\ batched' = [batched EXCEPT ![r] = @ + 1]
  /\ ApplyIssue(r, x)
  /\ reqState' = IF x.fire THEN [reqState EXCEPT ![r] = "freed"] ELSE reqState
  /\ lastCall' = [ret |-> ret,
                  failures |-> IF rv # "SUCCESS" THEN 1 ELSE Cardinality(F),
                  multi |-> FALSE, statusLen |-> 0]
  /\ UNCHANGED <<hasCallback, reqStatus, batch, pc, cur, curKind, status,
                 localFail, remoteFail>>

\* The higher layer blocks once on a batch without callback: req.wait().
BatchWait(r) ==
  /\ pc = "idle"
  /\ r = batch
  /\ ~hasCallback[r]
  /\ batched[r] > 0
  /\ batch' = NoReq
  /\ pc' = "wait"
  /\ cur' = r
  /\ curKind' = "batch"
  /\ status' = <<>>
  /\ localFail' = 0
  /\ UNCHANGED <<reqState, hasCallback, pending, reqStatus, fired, batched,
                 parent, net, nCalls, lastCall, remoteFail>>

\* The higher layer is done with a batch on a Request with a callback and
\* leaves it to complete on its own.
ReleaseBatch ==
  /\ pc = "idle"
  /\ batch # NoReq
  /\ hasCallback[batch]
  /\ batched[batch] > 0
  /\ batch' = NoReq
  /\ UNCHANGED <<reqState, hasCallback, pending, reqStatus, fired, batched,
                 parent, net, callerVars, remoteFail>>

\* variant of WaitReturn: wait() returns without checking finished()
WaitReturnEarly ==
  LET all == status \o reqStatus[cur]
      ret == CASE curKind = "log"    -> FirstCode(reqStatus[cur])
               [] curKind = "single" -> FirstCode(all)
               [] OTHER               -> IF all = <<>> THEN "SUCCESS"
                                                       ELSE "STATUS"
  IN
  /\ pc = "wait"
  /\ pc' = "idle"
  /\ reqState' = [reqState EXCEPT ![cur] = "freed"]
  /\ status' = <<>>
  /\ lastCall' = [ret |-> ret,
                  failures |-> localFail + remoteFail[cur],
                  multi |-> curKind \in {"status", "batch"},
                  statusLen |-> Len(all)]
  /\ UNCHANGED <<hasCallback, pending, reqStatus, fired, batch, batched,
                 parent, net, cur, curKind, nCalls, localFail, remoteFail>>

\* DistRequest::wait() returns once no child is left: the errors of the
\* responses are handed to the caller's Status and the wrapper turns it
\* into its return code (:39-43, :77-82, :256-259); the stack Request dies.
WaitReturn ==
  LET all == status \o reqStatus[cur]
      ret == CASE curKind = "log"    -> FirstCode(reqStatus[cur])
               [] curKind = "single" -> FirstCode(all)
               [] OTHER               -> IF all = <<>> THEN "SUCCESS"
                                                       ELSE "STATUS"
  IN
  /\ pc = "wait"
  /\ finished(cur)
  /\ pc' = "idle"
  /\ reqState' = [reqState EXCEPT ![cur] = "freed"]
  /\ status' = <<>>
  /\ lastCall' = [ret |-> ret,
                  failures |-> localFail + remoteFail[cur],
                  multi |-> curKind \in {"status", "batch"},
                  statusLen |-> Len(all)]
  /\ UNCHANGED <<hasCallback, pending, reqStatus, fired, batch, batched,
                 parent, net, cur, curKind, nCalls, localFail, remoteFail>>

-----------------------------------------------------------------------------
(* The peer and the dispatch loop                                          *)

\* The owning peer performs the sub-operation; attributes in F fail.
Serve(m) ==
  /\ m \in net
  /\ m.type = "req"
  /\ \E F \in SUBSET m.names, e \in Errs :
       /\ net' = (net \ {m}) \cup
                 {[type |-> "resp", cr |-> m.cr, errs |-> Errors(m.obj, F, e)]}
       /\ remoteFail' = [remoteFail EXCEPT ![parent[m.cr]] =
                           @ + Cardinality(F)]
  /\ UNCHANGED <<reqVars, parent, callerVars>>

\* variant of Dispatch: the errors of the response are not recorded
DispatchDropErrors(m) ==
  LET r    == parent[m.cr]
      left == pending[r] \ {m.cr}
      fire == left = {} /\ hasCallback[r]
  IN
  /\ pc # "aborted"
  /\ m \in net
  /\ m.type = "resp"
  /\ net' = net \ {m}
  /\ pending' = [pending EXCEPT ![r] = left]
  /\ reqStatus' = reqStatus
  /\ fired' = IF fire THEN [fired EXCEPT ![r] = @ + 1] ELSE fired
  /\ reqState' = IF fire THEN [reqState EXCEPT ![r] = "freed"] ELSE reqState
  /\ UNCHANGED <<hasCallback, batch, batched, parent, callerVars, remoteFail>>

Dispatch(m) ==
  LET r    == parent[m.cr]
      left == pending[r] \ {m.cr}
      fire == left = {} /\ hasCallback[r]
  IN
  /\ pc # "aborted"
  /\ m \in net
  /\ m.type = "resp"
  /\ net' = net \ {m}
  /\ pending' = [pending EXCEPT ![r] = left]
  /\ reqStatus' = [reqStatus EXCEPT ![r] = @ \o m.errs]
  /\ fired' = IF fire THEN [fired EXCEPT ![r] = @ + 1] ELSE fired
  /\ reqState' = IF fire THEN [reqState EXCEPT ![r] = "freed"] ELSE reqState
  /\ UNCHANGED <<hasCallback, batch, batched, parent, callerVars, remoteFail>>

\* the process aborted and only responses nobody will read are left, or
\* nothing is in flight and the caller has stopped calling, or it blocks
\* in wait() on a Request no event will ever complete
Quiescent ==
  /\ \/ pc = "aborted" /\ \A m \in net : m.type = "resp"
     \/ /\ net = {}
        /\ \/ pc = "idle" /\ batch = NoReq
           \/ pc = "wait"
  /\ UNCHANGED vars

-----------------------------------------------------------------------------
Init ==
  /\ reqState = [r \in ReqIds |-> "unused"]
  /\ hasCallback = [r \in ReqIds |-> FALSE]
  /\ pending = [r \in ReqIds |-> {}]
  /\ reqStatus = [r \in ReqIds |-> <<>>]
  /\ fired = [r \in ReqIds |-> 0]
  /\ batch = NoReq
  /\ batched = [r \in ReqIds |-> 0]
  /\ parent = [c \in CommReqIds |-> NoReq]
  /\ net = {}
  /\ pc = "idle"
  /\ cur = NoReq
  /\ curKind = "status"
  /\ status = <<>>
  /\ nCalls = 0
  /\ localFail = 0
  /\ remoteFail = [r \in ReqIds |-> 0]
  /\ lastCall = [ret |-> "SUCCESS", failures |-> 0, multi |-> FALSE,
                 statusLen |-> 0]

Caller ==
  \/ \E o \in Objs, op \in Ops, single \in BOOLEAN, e \in Errs :
       \E names \in (IF op \in StatusOps THEN CallNames(o)
                     ELSE {{a} : a \in Attrs}) :
         \/ \E F \in LocalFails(o, op, names), rv \in LocalRvs(op) :
              BlockingCall(o, op, names, single, F, e, rv)
         \/ AbortMixed(o, op, names)
  \/ \E cb \in BOOLEAN : NewRequest(cb)
  \/ \E r \in ReqIds, o \in Objs, op \in Ops, e \in Errs :
       \E names \in (IF op \in StatusOps THEN CallNames(o)
                     ELSE {{a} : a \in Attrs}) :
         \E F \in LocalFails(o, op, names), rv \in LocalRvs(op) :
           BatchCall(r, o, op, names, F, e, rv)
  \/ \E r \in ReqIds : BatchWait(r)
  \/ ReleaseBatch
  \/ WaitReturn

Next ==
  \/ Caller
  \/ \E m \in net : Serve(m)
  \/ \E m \in net : Dispatch(m)
  \/ Quiescent

\* The peer answers every request it receives, the blocked caller pumps
\* the channels until its Request completes (spec.md 4.1 wait()), and the
\* thread keeps dispatching responses.  The caller's own calls are not fair.
Fairness ==
  /\ WF_vars(\E m \in net : Serve(m))
  /\ WF_vars(\E m \in net : Dispatch(m))
  /\ WF_vars(WaitReturn)

Spec == Init /\ [][Next]_vars /\ Fairness

-----------------------------------------------------------------------------
(* Properties                                                              *)

TypeOK ==
  /\ reqState \in [ReqIds -> {"unused", "live", "freed"}]
  /\ hasCallback \in [ReqIds -> BOOLEAN]
  /\ pending \in [ReqIds -> SUBSET CommReqIds]
  /\ \A r \in ReqIds : reqStatus[r] \in Seq(Entry)
  /\ fired \in [ReqIds -> Nat]
  /\ batch \in ReqIds \cup {NoReq}
  /\ batched \in [ReqIds -> Nat]
  /\ parent \in [CommReqIds -> ReqIds \cup {NoReq}]
  /\ \A m \in net : m.cr \in CommReqIds /\ m.type \in {"req", "resp"}
  /\ pc \in {"idle", "wait", "aborted"}
  /\ cur \in ReqIds \cup {NoReq}
  /\ status \in Seq(Entry)
  /\ nCalls \in 0..MaxCalls
  /\ lastCall.ret \in RetVals

\* events of Request r's children still in flight
InFlight(r) == {m.cr : m \in {n \in net : parent[n.cr] = r}}

\* spec.md 3, invariant 2: a CommRequest inserted by a DistObject call
\* (distObject.cc:164, :203, :233, :276, :325) lives within its parent
\* Request: while it is pending or its request or response event is in
\* flight, the Request has not been deleted by execCallback (:174-176).
CommReqLifetime ==
  \A c \in CommReqIds :
    /\ parent[c] # NoReq
    /\ c \in pending[parent[c]] \/ \E m \in net : m.cr = c
    => reqState[parent[c]] = "live"

\* spec.md 8: a Request's pending count equals the number of its
\* CommRequests not yet finished.  The children a Request waits for are
\* exactly those whose request or response event is in flight, so the
\* insert of a DistObject call and the completion of a response keep the
\* Request's view and the network in step.
PendingAccounting ==
  \A r \in ReqIds : pending[r] = InFlight(r)

\* spec.md 8: a call returns SUCCESS exactly when none of its attributes
\* failed, locally or at the peer, and a multi-attribute call leaves one
\* Status entry per failed attribute (the return paths of distObject.cc
\* :39-46, :77-82, :113-119, :168, :256-259).
ReturnReflectsFailures ==
  /\ lastCall.ret = "SUCCESS" <=> lastCall.failures = 0
  /\ lastCall.multi => lastCall.statusLen = lastCall.failures

\* spec.md 3, invariant 1 and 8: the completion callback runs at most once,
\* and only once every child CommRequest has finished; the early check of
\* distObject.cc:173-177 must not run it while calls are still to come.
CallbackOnceAfterAll ==
  \A r \in ReqIds :
    /\ fired[r] <= 1
    /\ fired[r] = 1 => pending[r] = {}

CallbackEventuallyRuns ==
  \A r \in ReqIds : (hasCallback[r] /\ batched[r] > 0) ~> fired[r] > 0


-----------------------------------------------------------------------------
(* Refinement of the Request abstraction                                   *)

\* errors of responses for Request r that are in flight, not yet dispatched
InFlightErrs(r) ==
  FoldSet(LAMBDA m, acc : ToBag(m.errs) (+) acc, EmptyBag,
          {m \in net : m.type = "resp" /\ parent[m.cr] = r})

\* a live DistRequest is open, a deleted or returned one is done; its
\* outstanding sub-operations are its pending children; its errors are
\* those in its Status and those on their way to it
reqStateBar == [r \in ReqIds |-> CASE reqState[r] = "unused" -> "unused"
                                    [] reqState[r] = "live"   -> "open"
                                    [] reqState[r] = "freed"  -> "done"]
outBar  == [r \in ReqIds |-> Cardinality(pending[r])]
errsBar == [r \in ReqIds |-> ToBag(reqStatus[r]) (+) InFlightErrs(r)]

Req == INSTANCE Request WITH state <- reqStateBar, out <- outBar,
                             errs <- errsBar

\* spec.md 4.1: the Requests DistObject drives behave as Requests: a call
\* (distObject.cc :164, :203, :233) adds a child only to a Request that is
\* not yet complete, the dispatch of a response removes one child and
\* keeps every error the peer reported, wait() (:38, :76, :256) and the
\* callback (:174-176) complete a Request only with no child left, and a
\* completed Request is never touched again.
RequestSpec == Req!Spec

=============================================================================
