--------------------------- MODULE RpcConnection ---------------------------
(***************************************************************************)
(* The call contract of shv::chainpack::AbstractRpcConnection              *)
(* (src/libshvchainpack/src/chainpack/abstractrpcconnection.cpp).          *)
(*                                                                         *)
(* Several execution contexts (Callers) of one process use a connection:   *)
(* they send notifications, fire asynchronous requests with callMethod()   *)
(* and block in callShvMethodSync().  Request ids come from the function-  *)
(* local static counter of next_rqid(), shared by the whole process, an    *)
(* `unsigned` of IdBits bits whose `++n` is a load and a store.            *)
(*                                                                         *)
(* sendMessage()/sendMessageSync() are supplied by a transport collaborator *)
(* that is not part of the source; they are modelled from the spec (§4.5,  *)
(* §5): a table of blocked synchronous waiters keyed by request id, a     *)
(* timer per waiter, and the discarding of responses nobody waits for.     *)
(* The application's own dispatch table for callMethod() ids (asyncTable)  *)
(* is modelled the same way.  The peer answers a request with a result, an *)
(* error, a message that is not a response, or not at all.                 *)
(***************************************************************************)
EXTENDS Integers, FiniteSets

CONSTANTS
    Callers,            \* execution contexts issuing calls
    IdBits,             \* width of `unsigned` (and of `int`) in bits
    MaxCallsPerCaller,  \* bound: calls a context makes in one behaviour
    Timeouts,           \* values setDefaultRpcTimeout() may be given
    ConcurrentCallers,  \* TRUE: contexts are threads; FALSE: one event loop
    NoId                \* the absent RequestId meta tag

ASSUME IdBits \in Nat \ {0}
ASSUME MaxCallsPerCaller \in Nat
ASSUME ConcurrentCallers \in BOOLEAN

IdRange == 2 ^ IdBits

(* The two's-complement `int` an `unsigned` of the same width converts to  *)
(* (`return id;` in callMethod, whose return type is int).                 *)
ToInt(u) == IF u >= IdRange \div 2 THEN u - IdRange ELSE u

(* `++n` on the static `unsigned n`: wraps at 2^IdBits.                    *)
NextRqId(v) == (v + 1) % IdRange

(* A message: its RequestId meta value (an RpcValue::Int holding the       *)
(* unsigned id), whether Method is set, whether Result is set, its Error   *)
(* code ("none" when no valid RpcError), and a ghost naming the call it    *)
(* belongs to, <<caller, call number>>, used only by the properties.       *)
Calls == Callers \X (1 .. MaxCallsPerCaller)
ErrorCodes == {"none", "MethodCallException", "MethodCallTimeout"}
Msg == [rqid : (0 .. IdRange - 1) \cup {NoId}, method : BOOLEAN,
        result : BOOLEAN, error : ErrorCodes, call : Calls]

(* RpcMessage classification (spec §4.4; rpcmessage.cpp is not in src).   *)
IsResponse(m) == m.rqid # NoId /\ ~m.method

VARIABLES
    n,                  \* static unsigned n of next_rqid()
    defaultRpcTimeout,  \* s_defaultRpcTimeout
    pc,                 \* control point of each caller
    op,                 \* the call a caller is executing
    loaded,             \* value of n a caller loaded for ++n
    callNo,             \* ghost: calls the caller has started
    got,                \* {message sendMessageSync() returned}, or {}
    result,             \* outcome of the caller's last synchronous call
    pending,            \* transport: blocked sync waiters [id, caller]
    asyncTable,         \* application: outstanding callMethod() ids
    asyncDelivered,     \* ghost: <<entry call, message call>> dispatched
    toPeer,             \* messages sent and not yet handled by the peer
    fromPeer            \* messages from the peer not yet dispatched

vars == <<n, defaultRpcTimeout, pc, op, loaded, callNo, got, result,
          pending, asyncTable, asyncDelivered, toPeer, fromPeer>>

(* A caller's pc is "idle", "alloc", "inc", "wait" or "woken".  An outcome *)
(* has kind "none" (no sync call finished yet), "response" (msg =          *)
(* {response}) or "exception" (the "Invalid response!" exception, msg =    *)
(* {}); `of` is a ghost naming the call that returned it.                  *)
NoOutcome == [kind |-> "none", msg |-> {}, of |-> <<>>]

Init ==
    /\ n = 0
    /\ defaultRpcTimeout = 5000
    /\ pc = [c \in Callers |-> "idle"]
    /\ op = [c \in Callers |-> "none"]
    /\ loaded = [c \in Callers |-> 0]
    /\ callNo = [c \in Callers |-> 0]
    /\ got = [c \in Callers |-> {}]
    /\ result = [c \in Callers |-> NoOutcome]
    /\ pending = {}
    /\ asyncTable = {}
    /\ asyncDelivered = {}
    /\ toPeer = {}
    /\ fromPeer = {}

Request(id, c) == [rqid |-> id, method |-> TRUE, result |-> FALSE,
                   error |-> "none", call |-> <<c, callNo[c]>>]
-----------------------------------------------------------------------------
(* sendNotify(): a request without RequestId, sent at once.                *)
SendNotify(c) ==
    /\ pc[c] = "idle"
    /\ callNo[c] < MaxCallsPerCaller
    /\ callNo' = [callNo EXCEPT ![c] = @ + 1]
    /\ toPeer' = toPeer \cup
         {[rqid |-> NoId, method |-> TRUE, result |-> FALSE,
           error |-> "none", call |-> <<c, callNo[c] + 1>>]}
    /\ UNCHANGED <<n, defaultRpcTimeout, pc, op, loaded, got, result,
                   pending, asyncTable, asyncDelivered, fromPeer>>

(* Entry of callMethod() or callShvMethodSync(): both begin with           *)
(* next_rqid().                                                            *)
StartCall(c) ==
    /\ pc[c] = "idle"
    /\ callNo[c] < MaxCallsPerCaller
    /\ \E o \in {"callMethod", "callShvMethodSync"} : op' = [op EXCEPT ![c] = o]
    /\ callNo' = [callNo EXCEPT ![c] = @ + 1]
    /\ pc' = [pc EXCEPT ![c] = "alloc"]
    /\ result' = [result EXCEPT ![c] = NoOutcome]
    /\ UNCHANGED <<n, defaultRpcTimeout, loaded, got, pending,
                   asyncTable, asyncDelivered, toPeer, fromPeer>>

(* The load half of `++n`.  On one event loop nothing runs between the    *)
(* load and the store, so no other context may be between them.           *)
LoadRqId(c) ==
    /\ pc[c] = "alloc"
    /\ ConcurrentCallers \/ \A d \in Callers : pc[d] # "inc"
    /\ loaded' = [loaded EXCEPT ![c] = n]
    /\ pc' = [pc EXCEPT ![c] = "inc"]
    /\ UNCHANGED <<n, defaultRpcTimeout, op, callNo, got, result,
                   pending, asyncTable, asyncDelivered, toPeer, fromPeer>>

(* Mutant: the request is stamped with the value loaded before `++n`.    *)
CallMethodStampsOld(c) ==
    LET id == NextRqId(loaded[c]) IN
    /\ pc[c] = "inc"
    /\ op[c] = "callMethod"
    /\ n' = id
    /\ toPeer' = toPeer \cup {Request(loaded[c], c)}
    /\ asyncTable' = asyncTable \cup {[id |-> ToInt(id), call |-> <<c, callNo[c]>>]}
    /\ pc' = [pc EXCEPT ![c] = "idle"]
    /\ op' = [op EXCEPT ![c] = "none"]
    /\ loaded' = [loaded EXCEPT ![c] = 0]
    /\ UNCHANGED <<defaultRpcTimeout, callNo, got, result,
                   pending, asyncDelivered, fromPeer>>

(* callMethod(): store of `++n`, the request stamped with the id, sent,    *)
(* and the id returned as `int`; the application records the returned id. *)
CallMethod(c) ==
    LET id == NextRqId(loaded[c]) IN
    /\ pc[c] = "inc"
    /\ op[c] = "callMethod"
    /\ n' = id
    /\ toPeer' = toPeer \cup {Request(id, c)}
    /\ asyncTable' = asyncTable \cup {[id |-> ToInt(id), call |-> <<c, callNo[c]>>]}
    /\ pc' = [pc EXCEPT ![c] = "idle"]
    /\ op' = [op EXCEPT ![c] = "none"]
    /\ loaded' = [loaded EXCEPT ![c] = 0]
    /\ UNCHANGED <<defaultRpcTimeout, callNo, got, result,
                   pending, asyncDelivered, fromPeer>>

(* callShvMethodSync(): store of `++n`, the request stamped and handed to  *)
(* sendMessageSync(), which registers the caller as the waiter for the id  *)
(* and blocks it.                                                          *)
CallShvMethodSync(c) ==
    LET id == NextRqId(loaded[c]) IN
    /\ pc[c] = "inc"
    /\ op[c] = "callShvMethodSync"
    /\ n' = id
    /\ toPeer' = toPeer \cup {Request(id, c)}
    /\ pending' = pending \cup {[id |-> id, caller |-> c]}
    /\ pc' = [pc EXCEPT ![c] = "wait"]
    /\ loaded' = [loaded EXCEPT ![c] = 0]
    /\ UNCHANGED <<defaultRpcTimeout, op, callNo, got, result,
                   asyncTable, asyncDelivered, fromPeer>>

(* Mutant: a message that is not a response is ignored and the caller    *)
(* goes on waiting instead of throwing.                                    *)
FinishSyncKeepsWaiting(c) ==
    /\ pc[c] = "woken"
    /\ \E m \in got[c] :
        IF IsResponse(m)
        THEN /\ result' = [result EXCEPT ![c] =
                    [kind |-> "response", msg |-> {m}, of |-> <<c, callNo[c]>>]]
             /\ pc' = [pc EXCEPT ![c] = "idle"]
             /\ op' = [op EXCEPT ![c] = "none"]
        ELSE /\ pc' = [pc EXCEPT ![c] = "wait"]
             /\ UNCHANGED <<result, op>>
    /\ got' = [got EXCEPT ![c] = {}]
    /\ UNCHANGED <<n, defaultRpcTimeout, loaded, callNo, pending,
                   asyncTable, asyncDelivered, toPeer, fromPeer>>

(* The rest of callShvMethodSync() once sendMessageSync() returned:        *)
(* `if(!ret.isResponse()) SHVCHP_EXCEPTION("Invalid response!")`.         *)
FinishSync(c) ==
    /\ pc[c] = "woken"
    /\ \E m \in got[c] :
        result' = [result EXCEPT ![c] =
                    IF IsResponse(m)
                    THEN [kind |-> "response", msg |-> {m}, of |-> <<c, callNo[c]>>]
                    ELSE [kind |-> "exception", msg |-> {}, of |-> <<c, callNo[c]>>]]
    /\ got' = [got EXCEPT ![c] = {}]
    /\ pc' = [pc EXCEPT ![c] = "idle"]
    /\ op' = [op EXCEPT ![c] = "none"]
    /\ UNCHANGED <<n, defaultRpcTimeout, loaded, callNo, pending,
                   asyncTable, asyncDelivered, toPeer, fromPeer>>

(* setDefaultRpcTimeout(): replaces the process-wide default.              *)
SetDefaultRpcTimeout(t) ==
    /\ defaultRpcTimeout' = t
    /\ UNCHANGED <<n, pc, op, loaded, callNo, got, result, pending,
                   asyncTable, asyncDelivered, toPeer, fromPeer>>
-----------------------------------------------------------------------------
(* Mutant: the timer wakes the caller but leaves it registered as waiter. *)
SyncTimeoutKeepsWaiter(c) ==
    /\ pc[c] = "wait"
    /\ \E e \in pending :
        /\ e.caller = c
        /\ got' = [got EXCEPT ![c] = {[rqid |-> e.id, method |-> FALSE,
                     result |-> FALSE, error |-> "MethodCallTimeout",
                     call |-> <<c, callNo[c]>>]}]
    /\ pc' = [pc EXCEPT ![c] = "woken"]
    /\ UNCHANGED <<n, defaultRpcTimeout, op, loaded, callNo, result, pending,
                   asyncTable, asyncDelivered, toPeer, fromPeer>>

(* Transport (spec §4.5, §5): the timer of a blocked sync call fires; the  *)
(* waiter is unregistered and gets a MethodCallTimeout response.           *)
SyncTimeout(c) ==
    /\ pc[c] = "wait"
    /\ \E e \in pending :
        /\ e.caller = c
        /\ pending' = pending \ {e}
        /\ got' = [got EXCEPT ![c] = {[rqid |-> e.id, method |-> FALSE,
                     result |-> FALSE, error |-> "MethodCallTimeout",
                     call |-> <<c, callNo[c]>>]}]
    /\ pc' = [pc EXCEPT ![c] = "woken"]
    /\ UNCHANGED <<n, defaultRpcTimeout, op, loaded, callNo, result,
                   asyncTable, asyncDelivered, toPeer, fromPeer>>

(* Transport: a message from the peer whose id has a blocked waiter wakes  *)
(* that waiter with it, whatever kind of message it is.                    *)
DeliverSync(m, e) ==
    /\ m.rqid = e.id
    /\ pending' = pending \ {e}
    /\ got' = [got EXCEPT ![e.caller] = {m}]
    /\ pc' = [pc EXCEPT ![e.caller] = "woken"]
    /\ UNCHANGED <<asyncTable, asyncDelivered>>

(* Application dispatch of a callMethod() answer by the returned id.       *)
DeliverAsync(m, a) ==
    /\ \A e \in pending : m.rqid # e.id
    /\ m.rqid = a.id
    /\ asyncTable' = asyncTable \ {a}
    /\ asyncDelivered' = asyncDelivered \cup {<<a.call, m.call>>}
    /\ UNCHANGED <<pending, got, pc>>

(* A message nobody waits for any more (e.g. after a timeout) is dropped.  *)
DropStale(m) ==
    /\ \A e \in pending : m.rqid # e.id
    /\ \A a \in asyncTable : m.rqid # a.id
    /\ UNCHANGED <<pending, got, pc, asyncTable, asyncDelivered>>

Dispatch ==
    \E m \in fromPeer :
        /\ fromPeer' = fromPeer \ {m}
        /\ \/ \E e \in pending : DeliverSync(m, e)
           \/ \E a \in asyncTable : DeliverAsync(m, a)
           \/ DropStale(m)
        /\ UNCHANGED <<n, defaultRpcTimeout, op, loaded, callNo,
                       result, toPeer>>

(* The peer handles one message: a notification is consumed; a request is *)
(* answered with a result, an error, a non-response carrying the id, or   *)
(* lost.                                                                   *)
PeerReplies(m) ==
    {[m EXCEPT !.method = FALSE, !.result = TRUE],
     [m EXCEPT !.method = FALSE, !.error = "MethodCallException"],
     m}

PeerHandle ==
    \E m \in toPeer :
        /\ toPeer' = toPeer \ {m}
        /\ \/ m.rqid = NoId /\ UNCHANGED fromPeer
           \/ m.rqid # NoId /\ \E r \in PeerReplies(m) : fromPeer' = fromPeer \cup {r}
           \/ m.rqid # NoId /\ UNCHANGED fromPeer
        /\ UNCHANGED <<n, defaultRpcTimeout, pc, op, loaded, callNo, got,
                       result, pending, asyncTable, asyncDelivered>>
-----------------------------------------------------------------------------
Next ==
    \/ \E c \in Callers :
        \/ SendNotify(c)
        \/ StartCall(c)
        \/ LoadRqId(c)
        \/ CallMethod(c)
        \/ CallShvMethodSync(c)
        \/ SyncTimeout(c)
        \/ FinishSync(c)
    \/ \E t \in Timeouts : SetDefaultRpcTimeout(t)
    \/ Dispatch
    \/ PeerHandle

(* A started call runs its own code to the end, and the timer of a         *)
(* blocked sync call eventually fires: both are the process's own threads  *)
(* or event loop, which the scheduler runs.                                *)
Fairness ==
    \A c \in Callers :
        /\ WF_vars(LoadRqId(c))
        /\ WF_vars(CallMethod(c))
        /\ WF_vars(CallShvMethodSync(c))
        /\ WF_vars(SyncTimeout(c))
        /\ WF_vars(FinishSync(c))

Spec == Init /\ [][Next]_vars /\ Fairness
-----------------------------------------------------------------------------
(* A synchronous call returns the answer to its own request and never the *)
(* answer to another context's call or to one of its own earlier calls     *)
(* that timed out (spec §5: "each call must observe only the Response      *)
(* whose RequestId matches its own"; a late response is not delivered to a *)
(* stale waiter).                                                          *)
SyncCallGetsOwnResponse ==
    \A c \in Callers : \A m \in result[c].msg : m.call = result[c].of

(* The application's dispatch of callMethod() answers by the id callMethod *)
(* returned hands every caller the answer to its own request.              *)
AsyncCallGetsOwnResponse ==
    \A d \in asyncDelivered : d[1] = d[2]

(* Every blocked synchronous call eventually returns: with a response, a  *)
(* timeout, or the "Invalid response!" exception.                         *)
SyncCallTerminates ==
    \A c \in Callers : pc[c] = "wait" ~> pc[c] = "idle"
=============================================================================
