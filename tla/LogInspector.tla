---------------------------- MODULE LogInspector ----------------------------
(***************************************************************************)
(* DlgLogInspector's log download (src/libshvvisu/src/logview/             *)
(* dlgloginspector.cpp): downloadLog() takes a request id, creates an      *)
(* RpcResponseCallBack for it with a timeout, starts it with a lambda and  *)
(* sends the getLog request.  The lambda shows an error for an error       *)
(* response, a timeout for the invalid response the callback object hands  *)
(* it when its timer fires, and otherwise hides the info label and runs    *)
(* parseLog() on the result.  parseLog() clears the graph model and reads  *)
(* the rows, which LogShortTime models step by step.                       *)
(*                                                                         *)
(* Everything runs on the GUI thread's event loop: a click, a received     *)
(* message and a timer event are handled one at a time, and no other event *)
(* is handled while parseLog() reads the rows.  The peer answering the     *)
(* requests is another process: it answers with a result or an error, or  *)
(* never.  RpcResponseCallBack is not in src/; it is modelled from the     *)
(* contract the connection layer states for a call with a timeout: the    *)
(* callback runs once, for the response with its id or for the timeout,    *)
(* whichever comes first, and a later response for that id is discarded.  *)
(***************************************************************************)
EXTENDS Integers, FiniteSets

CONSTANTS
    ShortBits, PathNames, Dict, PathIds, ShortPaths, DataPath, AncaPath,
    ShortOffset, DtSteps, FirstDt, MaxRows,     \* as in LogShortTime
    MaxDownloads    \* bound: clicks on the download button

VARIABLES
    dt, rowsRead, shortTimes, anca, prev, last, first,  \* parseLog() (LogShortTime)
    lastRqId,       \* the last id conn->nextRequestId() handed out
    callbacks,      \* ids of the RpcResponseCallBack objects still waiting
    peer,           \* id -> what the peer did with the request
    wire,           \* responses sent by the peer and not yet received
    info,           \* the info label: [kind, rq]
    parsing,        \* the request whose result parseLog() is reading, or 0
    shown,          \* the request whose log the graph model holds, or 0
    timedOut        \* ghost: requests whose callback ran for the timeout

Parse == INSTANCE LogShortTime

parseVars == <<dt, rowsRead, shortTimes, anca, prev, last, first>>

(* parseLog() starts: its locals (short_times, anca_hook_short_time) are  *)
(* new, m_graphModel->clear() empties the graph, and the rows are read    *)
(* from the first, as in LogShortTime's Init.                              *)
ParseStart ==
    LET none == [p \in Parse!OutPaths |-> Parse!NoSample] IN
    /\ dt' = FirstDt
    /\ rowsRead' = 0
    /\ shortTimes' = [p \in ShortPaths |-> Parse!NewShortTime]
    /\ anca' = Parse!NewShortTime
    /\ prev' = none /\ last' = none /\ first' = none
dlVars == <<lastRqId, callbacks, peer, wire, info, parsing, shown, timedOut>>
vars == <<parseVars, dlVars>>

Requests == 1 .. MaxDownloads

(* RpcResponse kinds: a result, an error, or RpcResponse() (invalid).     *)
RespKinds == {"result", "error"}

(* The DlgLogInspector constructor: the info label hidden, a new, empty    *)
(* graph model and no response callback; the connection has handed out no *)
(* request id and the peer has been asked nothing.                         *)
Init ==
    /\ Parse!Init
    /\ lastRqId = 0
    /\ callbacks = {}
    /\ peer = [r \in Requests |-> "none"]
    /\ wire = {}
    /\ info = [kind |-> "hidden", rq |-> 0]
    /\ parsing = 0
    /\ shown = 0
    /\ timedOut = {}

(* The GUI thread is free: no parseLog() in progress.                      *)
Idle == parsing = 0

(* showInfo(msg, is_error): an empty message hides the label, any other is *)
(* shown (the colour for is_error and the text are left out).             *)
ShowInfo(kind, rq) ==
    info' = IF kind = "hidden" THEN [kind |-> "hidden", rq |-> 0]
            ELSE [kind |-> kind, rq |-> rq]

-----------------------------------------------------------------------------
(* downloadLog(): showInfo("Downloading ..."), rq_id =                     *)
(* conn->nextRequestId(), a new RpcResponseCallBack started with the       *)
(* timeout, and conn->callShvMethod(rq_id, ...).                           *)
DownloadLog ==
    /\ Idle
    /\ lastRqId < MaxDownloads
    /\ LET rq == lastRqId + 1 IN
       /\ lastRqId' = rq
       /\ callbacks' = callbacks \cup {rq}
       /\ peer' = [peer EXCEPT ![rq] = "asked"]
       /\ ShowInfo("downloading", rq)
    /\ UNCHANGED <<parseVars, wire, parsing, shown, timedOut>>

(* Mutant: the lambda checks only resp.isValid() and parses an error too. *)
CallBackNoErrorCheck(rq, resp) ==
    IF resp = "invalid"
    THEN /\ ShowInfo("timeout", rq)
         /\ UNCHANGED <<parseVars, parsing, shown>>
    ELSE /\ ShowInfo("hidden", 0)
         /\ parsing' = rq
         /\ shown' = rq
         /\ ParseStart

(* Mutant: the lambda has no else branch and says nothing when the        *)
(* callback runs for the timeout.                                          *)
CallBackNoTimeoutInfo(rq, resp) ==
    CASE resp = "error" ->
            /\ ShowInfo("error", rq)
            /\ UNCHANGED <<parseVars, parsing, shown>>
      [] resp = "result" ->
            /\ ShowInfo("hidden", 0)
            /\ parsing' = rq
            /\ shown' = rq
            /\ ParseStart
      [] OTHER ->
            UNCHANGED <<parseVars, info, parsing, shown>>

(* The lambda downloadLog() starts the callback with: resp.isValid() and  *)
(* resp.isError() give an error label; a valid result hides the label      *)
(* (showInfo()) and parseLog() clears the graph model and starts on the    *)
(* result's rows; an invalid response gives a timeout label.              *)
CallBack(rq, resp) ==
    CASE resp = "error" ->
            /\ ShowInfo("error", rq)
            /\ UNCHANGED <<parseVars, parsing, shown>>
      [] resp = "result" ->
            /\ ShowInfo("hidden", 0)
            /\ parsing' = rq
            /\ shown' = rq
            /\ ParseStart
      [] OTHER ->
            /\ ShowInfo("timeout", rq)
            /\ UNCHANGED <<parseVars, parsing, shown>>

(* RpcResponseCallBack on rpcMessageReceived: a response with its id runs *)
(* the callback once and ends the object; a response whose callback has   *)
(* already ended is discarded.                                             *)
ReceiveResponse(rq, resp) ==
    /\ Idle
    /\ [rq |-> rq, resp |-> resp] \in wire
    /\ wire' = wire \ {[rq |-> rq, resp |-> resp]}
    /\ IF rq \in callbacks
       THEN /\ callbacks' = callbacks \ {rq}
            /\ CallBack(rq, resp)
       ELSE UNCHANGED <<parseVars, callbacks, info, parsing, shown>>
    /\ UNCHANGED <<lastRqId, peer, timedOut>>

(* RpcResponseCallBack's timer fires: the callback runs with RpcResponse() *)
(* and the object ends.                                                    *)
TimeOut(rq) ==
    /\ Idle
    /\ rq \in callbacks
    /\ callbacks' = callbacks \ {rq}
    /\ timedOut' = timedOut \cup {rq}
    /\ CallBack(rq, "invalid")
    /\ UNCHANGED <<lastRqId, peer, wire>>

(* parseLog() reads one more row of the log it was given.                  *)
ParseRow ==
    /\ parsing # 0
    /\ Parse!Next
    /\ UNCHANGED dlVars

(* parseLog() returns after the last row.                                  *)
EndParse ==
    /\ parsing # 0
    /\ parsing' = 0
    /\ UNCHANGED <<parseVars, lastRqId, callbacks, peer, wire, info, shown, timedOut>>

(* The peer answers a request it got with a result or an error, or drops  *)
(* it.                                                                     *)
PeerAnswer(rq, resp) ==
    /\ peer[rq] = "asked"
    /\ peer' = [peer EXCEPT ![rq] = resp]
    /\ wire' = wire \cup {[rq |-> rq, resp |-> resp]}
    /\ UNCHANGED <<parseVars, lastRqId, callbacks, info, parsing, shown, timedOut>>

PeerDrop(rq) ==
    /\ peer[rq] = "asked"
    /\ peer' = [peer EXCEPT ![rq] = "dropped"]
    /\ UNCHANGED <<parseVars, lastRqId, callbacks, wire, info, parsing, shown, timedOut>>

Next ==
    \/ DownloadLog
    \/ \E rq \in Requests, resp \in RespKinds :
          \/ ReceiveResponse(rq, resp)
          \/ PeerAnswer(rq, resp)
    \/ \E rq \in Requests : TimeOut(rq) \/ PeerDrop(rq)
    \/ ParseRow
    \/ EndParse

Spec == Init /\ [][Next]_vars

(* The GUI thread's event loop runs every due event: a callback's timer    *)
(* fires once no handler is running, and parseLog() reads its rows to the  *)
(* end without waiting.  The peer and the network get no fairness.        *)
FairSpec == Spec /\ WF_vars(ParseRow) /\ WF_vars(EndParse)
                 /\ \A rq \in Requests : WF_vars(TimeOut(rq))

-----------------------------------------------------------------------------
(* Every sample of a parsed log keeps the spacing of its timestamps while  *)
(* they lie less than one counter period apart (addShortTime), whichever   *)
(* downloads, answers and timeouts came before the parse.                  *)
RelativeTimesPreserved == Parse!RelativeTimesPreserved

(* The graph holds only a log the peer sent as a result, for a request     *)
(* whose callback had not yet run for its timeout: an error response is    *)
(* never parsed, and an answer arriving after the timeout is discarded.    *)
ShownLogIsLiveResult ==
    shown # 0 => peer[shown] = "result" /\ shown \notin timedOut

(* The info label does not stay on "Downloading ..." for ever: after a     *)
(* click, some callback of downloadLog()'s lambda replaces it with an      *)
(* error, a timeout or the parsed log, even when the peer drops the        *)
(* request or its answer never arrives.                                    *)
DownloadSettles == info.kind = "downloading" ~> info.kind # "downloading"

=============================================================================
