------------------------------ MODULE Channel ------------------------------
(***************************************************************************)
(* One TCP channel of the Go client (client/goAPI/channel): application    *)
(* goroutines that share the channel, the reader goroutines, the socket    *)
(* and the server behind it.                                               *)
(*                                                                         *)
(* The processes are the goroutines.  pc[p] names the next statement of p  *)
(* that touches shared state; everything up to the following one is a      *)
(* single action.  Locks are sync.Mutex: a goroutine that locks a mutex it *)
(* already holds blocks for ever.                                          *)
(***************************************************************************)
EXTENDS Integers, Sequences, FiniteSets

CONSTANTS
    Apps,         \* goroutines that use the channel through its connections
    Readers,      \* slots for goroutines that run readAndProcessLoop
    None,         \* no goroutine: the value of a free lock
    HasFT,        \* the channel property ftHosts is not empty
    UrlCount,     \* len(primaryUrl.ftUrls)
    RetryCount,   \* the property ftRetryCount
    Calls,        \* the methods the applications call
    EnvEvents,    \* what the network and the server may do wrong
    Unwritable,   \* requests whose ToBytes fails, 0 among them for messages
    CredentialsFit, \* whether the user name can be written
    MaxReq,       \* bound: requests sent in a behaviour
    MaxConnects,  \* bound: calls of Connect in a behaviour
    MaxStops,     \* bound: calls of Disconnect and ForceStop in a behaviour
    MaxSock,      \* bound: sockets opened in a behaviour
    MaxEvents     \* bound: environment events in a behaviour

Procs == Apps \cup Readers
ReqId == 1 .. MaxReq

AllEvents == {"ping", "terminate", "exception", "break", "timeout",
              "coalesce", "refuse", "reject"}

AllCalls == {"SendRequest", "SendMessage", "Connect", "Disconnect", "ForceStop"}

ASSUME ProcsAssumption ==
    /\ Apps \cap Readers = {} /\ None \notin Procs
ASSUME BoundsAssumption ==
    /\ HasFT \in BOOLEAN /\ UrlCount \in Nat /\ RetryCount \in Nat \ {0}
    /\ EnvEvents \subseteq AllEvents /\ Calls \subseteq AllCalls
    /\ Unwritable \subseteq {0} \cup ReqId /\ CredentialsFit \in BOOLEAN
    /\ MaxReq \in Nat /\ MaxConnects \in Nat /\ MaxSock \in Nat
    /\ MaxStops \in Nat /\ MaxEvents \in Nat

-----------------------------------------------------------------------------
(* Link states and exception results *)

LinkStates == {"NotConnected", "Connected", "Closing", "Closed",
               "Reconnecting", "Terminated"}
ClosedStates == {"Closing", "Closed", "Terminated"}   \* isChannelClosed

RethrowException == 0
RetryOperation   == 1
Disconnected     == 2

\* The values of types.TGError*, the codes a reply of type exception carries.
TGErrorChannelDisconnected == 4
TGErrorGeneralException    == 6
TGErrorRetryIOException    == 10

\* ExceptionHandleResult.ExceptionType holds a TGError code, not one of the
\* three channel codes above that its readers compare it with.
ChannelException(code) ==
    CASE code = RethrowException -> TGErrorGeneralException
      [] code = RetryOperation   -> TGErrorRetryIOException
      [] code = Disconnected     -> TGErrorChannelDisconnected

ErrorCodes == {TGErrorChannelDisconnected, TGErrorGeneralException,
               TGErrorRetryIOException}

\* Does a sender return an error after channelHandleException, or go round
\* its loop again?
SenderGivesUp(result) == result \in {RethrowException, Disconnected}

\* Does the reader leave its loop after channelHandleException?
ReaderGivesUp(result) == result # RetryOperation

Waiting      == [kind |-> "waiting",   val |-> 0]
Response(r)  == [kind |-> "response",  val |-> r]
Exception(c) == [kind |-> "exception", val |-> c]
Replies == {Waiting} \cup {Response(r) : r \in ReqId}
                     \cup {Exception(c) : c \in ErrorCodes}

Handshake == [kind |-> "handshake", val |-> 0]
Ping      == [kind |-> "ping",      val |-> 0]
Terminate == [kind |-> "terminate", val |-> 0]
ServerException == [kind |-> "exception", val |-> TGErrorGeneralException]
Messages == {Handshake, Ping, Terminate, ServerException}
                \cup {Response(r) : r \in ReqId}
-----------------------------------------------------------------------------
VARIABLES
    link,        \* channelLinkState
    num,         \* numOfConnections of the channel
    sendLock, exceptionLock,
    isRunning,   \* reader.isRunning
    responses,   \* the keys of the responses map
    reply,       \* reply and status of each request's BlockingChannelResponse
    outcome,     \* what SendRequest returned to its caller
    socket,      \* the open socket, 0 when there is none (isSocketClosed)
    sockets,     \* how many sockets have been opened
    broken,      \* the peer has gone
    inflight,    \* requests the server has read and not answered
    received,    \* requests the server has ever read
    wire,        \* messages from the server not yet read
    pc,
    req,         \* request of an application goroutine, 0 for a SendMessage
    force,       \* argument of Stop
    attempt, exchange, nested,  \* locals of channelTryRepeatConnect/OnConnect
    result,      \* what channelHandleException returned
    readSock,    \* the socket a goroutine is blocked on in ReadWireMsg
    msg,         \* the response a reader is about to deliver
    todo,        \* the responses a reader has still to fail
    nextReq, connects, stops, events   \* the counters that the bounds cap

linkVars  == <<link, num, isRunning>>
lockVars  == <<sendLock, exceptionLock>>
respVars  == <<responses, reply, outcome>>
netVars   == <<socket, sockets, broken, inflight, received, wire>>
connVars  == <<attempt, exchange, nested, result>>
readVars  == <<readSock, msg, todo>>
callVars  == <<req, force>>
countVars == <<nextReq, connects, stops, events>>
vars == <<linkVars, lockVars, respVars, netVars, connVars, readVars,
          callVars, countVars, pc>>

AppPCs == {"idle", "check", "lock", "send", "excLock", "excWait", "await",
           "delete", "connect", "start", "disconnect", "stop", "stopFlag",
           "stopSend", "stopClose"}
ReaderPCs == {"off", "spawned", "mark", "top", "read", "reading", "readError",
              "handleLock", "notify", "process", "terminate", "exit"}
ConnectPCs == {"reconnect", "tryConnect", "rrLock", "rrSend", "rrRead",
               "rrFailed", "rrRejected", "connected", "failed", "panic"}

Init ==
    /\ link = "NotConnected" /\ num = 0 /\ isRunning = FALSE
    /\ sendLock = None /\ exceptionLock = None
    /\ responses = {}
    /\ reply = [r \in ReqId |-> Waiting]
    /\ outcome = [r \in ReqId |-> "none"]
    /\ socket = 0 /\ sockets = 0 /\ broken = FALSE
    /\ inflight = {} /\ received = {} /\ wire = <<>>
    /\ pc = [p \in Procs |-> IF p \in Apps THEN "idle" ELSE "off"]
    /\ req = [a \in Apps |-> 0] /\ force = [a \in Apps |-> FALSE]
    /\ attempt = [p \in Procs |-> 0] /\ exchange = [p \in Procs |-> 1]
    /\ nested = [p \in Procs |-> FALSE]
    /\ result = [p \in Procs |-> TGErrorGeneralException]
    /\ readSock = [p \in Procs |-> 0] /\ msg = [g \in Readers |-> 0]
    /\ todo = [g \in Readers |-> {}]
    /\ nextReq = 1 /\ connects = 0 /\ stops = 0 /\ events = 0

\* A panic of any goroutine ends the program.
NoPanic == \A p \in Procs : pc[p] # "panic"

Goto(p, from, to) ==
    /\ NoPanic
    /\ pc[p] = from
    /\ pc' = [pc EXCEPT ![p] = to]

\* `go f()`: a free slot g starts at label l while p moves on.
GotoAndSpawn(p, from, to, g, l) ==
    /\ NoPanic
    /\ pc[p] = from /\ pc[g] = "off"
    /\ pc' = [pc EXCEPT ![p] = to, ![g] = l]

Return(a, res) ==
    outcome' = IF req[a] = 0 THEN outcome ELSE [outcome EXCEPT ![req[a]] = res]

Event(e) == e \in EnvEvents /\ events < MaxEvents /\ events' = events + 1
-----------------------------------------------------------------------------
(* SendRequest and SendMessage *)

SendRequest(a) ==
    /\ "SendRequest" \in Calls
    /\ Goto(a, "idle", "check")
    /\ nextReq <= MaxReq
    /\ req' = [req EXCEPT ![a] = nextReq]
    /\ nextReq' = nextReq + 1
    /\ UNCHANGED <<linkVars, lockVars, respVars, netVars, connVars, readVars,
                   force, connects, stops, events>>

SendMessage(a) ==
    /\ "SendMessage" \in Calls
    /\ Goto(a, "idle", "check")
    /\ req' = [req EXCEPT ![a] = 0]
    /\ UNCHANGED <<linkVars, lockVars, respVars, netVars, connVars, readVars,
                   force, countVars>>

\* Mutant: the error is set and the `return` forgotten.
CheckConnectedNoReturn(a) ==
    /\ Goto(a, "check", "lock")
    /\ IF link = "Connected" THEN UNCHANGED outcome ELSE Return(a, "error")
    /\ UNCHANGED <<linkVars, lockVars, responses, reply, netVars, connVars,
                   readVars, callVars, countVars>>

\* Top of the loop.  After a reply of type RetryIOException the goroutine is
\* here with sendLock still held: a failed check returns without unlocking.
CheckConnected(a) ==
    /\ IF link = "Connected"
         THEN Goto(a, "check", "lock") /\ UNCHANGED outcome
         ELSE Goto(a, "check", "idle") /\ Return(a, "error")
    /\ UNCHANGED <<linkVars, lockVars, responses, reply, netVars, connVars,
                   readVars, callVars, countVars>>

\* Mutant: ChannelLock does not wait.
RegisterUnlocked(a) ==
    /\ Goto(a, "lock", "send")
    /\ sendLock' = a
    /\ responses' = responses \cup ({req[a]} \ {0})
    /\ UNCHANGED <<linkVars, exceptionLock, reply, outcome, netVars, connVars,
                   readVars, callVars, countVars>>

\* ChannelLock and SetResponse.
LockAndRegister(a) ==
    /\ Goto(a, "lock", "send")
    /\ sendLock = None
    /\ sendLock' = a
    /\ responses' = responses \cup ({req[a]} \ {0})
    /\ UNCHANGED <<linkVars, exceptionLock, reply, outcome, netVars, connVars,
                   readVars, callVars, countVars>>

\* A Send that returns nil.  A write to a socket whose peer has gone may
\* still succeed, and is lost.
SendOk(a) ==
    /\ socket # 0 /\ req[a] \notin Unwritable
    /\ IF req[a] = 0
         THEN /\ Goto(a, "send", "idle")
              /\ sendLock' = None
              /\ UNCHANGED <<inflight, received>>
         ELSE /\ Goto(a, "send", "await")
              /\ IF broken
                   THEN UNCHANGED <<inflight, received>>
                   ELSE /\ inflight' = inflight \cup {req[a]}
                        /\ received' = received \cup {req[a]}
              /\ UNCHANGED sendLock
    /\ UNCHANGED <<linkVars, exceptionLock, respVars, socket, sockets, broken,
                   wire, connVars, readVars, callVars, countVars>>

\* A Send that fails: unlock, then channelHandleException(err, false).  A message
\* that cannot be written fails on a healthy socket too, each time it is tried.
SendFailed(a) ==
    /\ Goto(a, "send", "excLock")
    /\ socket = 0 \/ broken \/ req[a] \in Unwritable
    /\ sendLock' = None
    /\ UNCHANGED <<linkVars, exceptionLock, respVars, netVars, connVars,
                   readVars, callVars, countVars>>

LockException(a) ==
    /\ Goto(a, "excLock", "excWait")
    /\ exceptionLock = None
    /\ exceptionLock' = a
    /\ UNCHANGED <<linkVars, sendLock, respVars, netVars, connVars, readVars,
                   callVars, countVars>>

\* One round of the sleeping loop of channelHandleException(err, false),
\* which holds exceptionLock while it sleeps.
WaitForLink(a) ==
    /\ pc[a] = "excWait"
    /\ link = "Connected" \/ link \in ClosedStates
    /\ LET res == ChannelException(IF link = "Connected" THEN RetryOperation
                                                         ELSE Disconnected)
       IN  /\ result' = [result EXCEPT ![a] = res]
           /\ IF SenderGivesUp(res)
                THEN Goto(a, "excWait", "idle") /\ Return(a, "error")
                ELSE Goto(a, "excWait", "check") /\ UNCHANGED outcome
    /\ exceptionLock' = None
    /\ UNCHANGED <<linkVars, sendLock, responses, reply, netVars, attempt,
                   exchange, nested, readVars, callVars, countVars>>

\* Mutant: StatusTester.Test is not consulted.
AwaitNothing(a) ==
    /\ Goto(a, "await", "delete")
    /\ UNCHANGED <<linkVars, lockVars, respVars, netVars, connVars, readVars,
                   callVars, countVars>>

\* BlockingChannelResponse.Await polls the status, sendLock held.
Await(a) ==
    /\ Goto(a, "await", "delete")
    /\ reply[req[a]] # Waiting
    /\ UNCHANGED <<linkVars, lockVars, respVars, netVars, connVars, readVars,
                   callVars, countVars>>

\* Mutant: no delete(responses, reqId).
TakeReplyNoDelete(a) ==
    LET r == req[a] IN
    /\ Goto(a, "delete", "idle")
    /\ sendLock' = None
    /\ Return(a, IF reply[r].kind = "response" THEN "ok" ELSE "error")
    /\ UNCHANGED <<linkVars, exceptionLock, responses, reply, netVars, connVars,
                   readVars, callVars, countVars>>

\* delete(responses, reqId) and the test of the reply.  The branch that
\* retries does not unlock.
TakeReply(a) ==
    LET r == req[a] IN
    /\ pc[a] = "delete"
    /\ responses' = responses \ {r}
    /\ IF reply[r] = Exception(TGErrorRetryIOException)
         THEN Goto(a, "delete", "check") /\ UNCHANGED <<sendLock, outcome>>
         ELSE /\ Goto(a, "delete", "idle")
              /\ sendLock' = None
              /\ Return(a, IF reply[r].kind = "response" THEN "ok" ELSE "error")
    /\ UNCHANGED <<linkVars, exceptionLock, reply, netVars, connVars, readVars,
                   callVars, countVars>>
-----------------------------------------------------------------------------
(* Connect, Disconnect, Stop *)

Connect(a) ==
    /\ "Connect" \in Calls
    /\ Goto(a, "idle", "connect")
    /\ connects < MaxConnects
    /\ connects' = connects + 1
    /\ UNCHANGED <<linkVars, lockVars, respVars, netVars, connVars, readVars,
                   callVars, nextReq, stops, events>>

\* channelConnect, up to the call of channelTryRepeatConnect.
ChannelConnect(a) ==
    /\ CASE link = "Connected" ->
              /\ Goto(a, "connect", "start")
              /\ num' = num + 1
              /\ UNCHANGED attempt
         [] link \in ClosedStates \cup {"NotConnected"} ->
              /\ Goto(a, "connect", "tryConnect")
              /\ attempt' = [attempt EXCEPT ![a] = 0]
              /\ UNCHANGED num
         [] OTHER ->
              Goto(a, "connect", "idle") /\ UNCHANGED <<num, attempt>>
    /\ UNCHANGED <<link, isRunning, lockVars, respVars, netVars, exchange,
                   nested, result, readVars, callVars, countVars>>

\* channelStart: `go reader.Start()`.
ChannelStart(a) ==
    /\ IF link = "Connected"
         THEN \E g \in Readers : GotoAndSpawn(a, "start", "idle", g, "spawned")
         ELSE Goto(a, "start", "idle")
    /\ UNCHANGED <<linkVars, lockVars, respVars, netVars, connVars, readVars,
                   callVars, countVars>>

\* TGDBConnection.Disconnect is channelDisConnect, then Stop(false).
Disconnect(a) ==
    /\ "Disconnect" \in Calls
    /\ Goto(a, "idle", "disconnect")
    /\ stops < MaxStops
    /\ stops' = stops + 1
    /\ force' = [force EXCEPT ![a] = FALSE]
    /\ UNCHANGED <<linkVars, lockVars, respVars, netVars, connVars, readVars,
                   req, nextReq, connects, events>>

ForceStop(a) ==
    /\ "ForceStop" \in Calls
    /\ Goto(a, "idle", "stop")
    /\ stops < MaxStops
    /\ stops' = stops + 1
    /\ force' = [force EXCEPT ![a] = TRUE]
    /\ UNCHANGED <<linkVars, lockVars, respVars, netVars, connVars, readVars,
                   req, nextReq, connects, events>>

ChannelDisConnect(a) ==
    /\ Goto(a, "disconnect", "stop")
    /\ sendLock = None
    /\ num' = IF link = "Connected" /\ num # 0 THEN num - 1 ELSE num
    /\ UNCHANGED <<link, isRunning, lockVars, respVars, netVars, connVars,
                   readVars, callVars, countVars>>

\* channelStop when it finds nothing to stop.
StopSkipped(a) ==
    /\ Goto(a, "stop", "idle")
    /\ sendLock = None
    /\ link # "Connected" \/ (~force[a] /\ num # 0)
    /\ UNCHANGED <<linkVars, lockVars, respVars, netVars, connVars, readVars,
                   callVars, countVars>>

\* Mutant: channelStop does not take sendLock.
StopReaderUnlocked(a) ==
    /\ link = "Connected" /\ (force[a] \/ num = 0)
    /\ IF isRunning
         THEN \E g \in Readers : GotoAndSpawn(a, "stop", "stopFlag", g, "top")
         ELSE Goto(a, "stop", "stopSend")
    /\ UNCHANGED <<linkVars, lockVars, respVars, netVars, connVars, readVars,
                   callVars, countVars>>

\* channelStop, up to the `go readAndProcessLoop()` of reader.Stop.
StopReader(a) ==
    /\ sendLock = None
    /\ link = "Connected" /\ (force[a] \/ num = 0)
    /\ sendLock' = a
    /\ IF isRunning
         THEN \E g \in Readers : GotoAndSpawn(a, "stop", "stopFlag", g, "top")
         ELSE Goto(a, "stop", "stopSend")
    /\ UNCHANGED <<linkVars, exceptionLock, respVars, netVars, connVars,
                   readVars, callVars, countVars>>

ClearRunning(a) ==
    /\ Goto(a, "stopFlag", "stopSend")
    /\ isRunning' = FALSE
    /\ UNCHANGED <<link, num, lockVars, respVars, netVars, connVars, readVars,
                   callVars, countVars>>

CloseSocket ==
    /\ socket' = 0 /\ broken' = FALSE /\ inflight' = {} /\ wire' = <<>>
    /\ UNCHANGED <<sockets, received>>

\* The disconnect request goes out and the link is marked Closing.
StopSent(a) ==
    /\ Goto(a, "stopSend", "stopClose")
    /\ socket # 0
    /\ link' = "Closing"
    /\ UNCHANGED <<num, isRunning, lockVars, respVars, netVars, connVars,
                   readVars, callVars, countVars>>

StopSendFailed(a) ==
    /\ Goto(a, "stopSend", "idle")
    /\ socket = 0 \/ broken
    /\ CloseSocket
    /\ link' = IF link = "Closing" THEN "Closed" ELSE link
    /\ sendLock' = None
    /\ UNCHANGED <<num, isRunning, exceptionLock, respVars, connVars, readVars,
                   callVars, countVars>>

\* Mutant: channelStop returns without ChannelUnlock.
StopCloseKeepsLock(a) ==
    /\ Goto(a, "stopClose", "idle")
    /\ CloseSocket
    /\ UNCHANGED <<linkVars, lockVars, respVars, connVars, readVars, callVars,
                   countVars>>

StopClose(a) ==
    /\ Goto(a, "stopClose", "idle")
    /\ CloseSocket
    /\ sendLock' = None
    /\ UNCHANGED <<linkVars, exceptionLock, respVars, connVars, readVars,
                   callVars, countVars>>
-----------------------------------------------------------------------------
(* channelTryRepeatConnect, channelReconnect, channelRequestReply: run by an *)
(* application goroutine inside Connect and by a reader inside               *)
(* channelHandleException(err, true).  nested[a]: an application goroutine   *)
(* is inside the channelHandleException of its own channelRequestReply.      *)

InHandler(p) == p \in Readers \/ nested[p]

\* channelHandleException returns: exceptionLock is released, a reader goes
\* on to fail the responses it finds, a requester tests the result.
EndHandler(p, from, res) ==
    /\ exceptionLock' = None
    /\ result' = [result EXCEPT ![p] = res]
    /\ IF p \in Readers
         THEN /\ Goto(p, from, "notify")
              /\ todo' = [todo EXCEPT ![p] = responses]
              /\ UNCHANGED nested
         ELSE /\ Goto(p, from, IF SenderGivesUp(res) THEN "rrRejected"
                                                     ELSE "rrSend")
              /\ nested' = [nested EXCEPT ![p] = FALSE]
              /\ UNCHANGED todo

Reconnect(p) ==
    /\ CloseSocket
    /\ IF HasFT
         THEN /\ Goto(p, "reconnect", "tryConnect")
              /\ link' = "Reconnecting"
              /\ attempt' = [attempt EXCEPT ![p] = 0]
              /\ UNCHANGED <<exceptionLock, result, todo, nested>>
         ELSE /\ EndHandler(p, "reconnect", ChannelException(Disconnected))
              /\ UNCHANGED <<link, attempt>>
    /\ UNCHANGED <<num, isRunning, sendLock, respVars, exchange, readSock, msg,
                   callVars, countVars>>

CreateSocket(p) ==
    /\ Goto(p, "tryConnect", "rrLock")
    /\ sockets < MaxSock
    /\ sockets' = sockets + 1 /\ socket' = sockets'
    /\ broken' = FALSE /\ inflight' = {} /\ wire' = <<>>
    /\ link' = "NotConnected"
    /\ exchange' = [exchange EXCEPT ![p] = 1]
    /\ UNCHANGED <<num, isRunning, lockVars, respVars, received, attempt,
                   nested, result, readVars, callVars, countVars>>

\* Mutant: one attempt too many.
NextAttemptOneMore(p, from) ==
    IF attempt[p] < RetryCount
      THEN /\ Goto(p, from, "tryConnect")
           /\ attempt' = [attempt EXCEPT ![p] = @ + 1]
      ELSE /\ Goto(p, from, IF UrlCount = 1 THEN "tryConnect" ELSE "failed")
           /\ attempt' = [attempt EXCEPT ![p] = 0]

\* The end of one attempt: the next one, or the next URL, which is the same
\* one when there is only one and ends the search when there are more.
NextAttempt(p, from) ==
    IF attempt[p] + 1 < RetryCount
      THEN /\ Goto(p, from, "tryConnect")
           /\ attempt' = [attempt EXCEPT ![p] = @ + 1]
      ELSE /\ Goto(p, from, IF UrlCount = 1 THEN "tryConnect" ELSE "failed")
           /\ attempt' = [attempt EXCEPT ![p] = 0]

CreateSocketFailed(p) ==
    /\ NextAttempt(p, "tryConnect")
    /\ \/ Event("refuse")
       \/ sockets = MaxSock /\ UNCHANGED events
    /\ CloseSocket
    /\ link' = "NotConnected"
    /\ UNCHANGED <<num, isRunning, lockVars, respVars, exchange, nested,
                   result, readVars, callVars, nextReq, connects, stops>>

RequestReplyLock(p) ==
    /\ Goto(p, "rrLock", "rrSend")
    /\ sendLock = None
    /\ sendLock' = p
    /\ UNCHANGED <<linkVars, exceptionLock, respVars, netVars, connVars,
                   readVars, callVars, countVars>>

\* The third exchange has the user name.
CannotBeWritten(p) == exchange[p] = 3 /\ ~CredentialsFit

RequestReplySend(p) ==
    /\ Goto(p, "rrSend", "rrRead")
    /\ socket # 0 /\ ~CannotBeWritten(p)
    /\ wire' = IF broken THEN wire ELSE Append(wire, Handshake)
    /\ readSock' = [readSock EXCEPT ![p] = socket]
    /\ UNCHANGED <<linkVars, lockVars, respVars, socket, sockets, broken,
                   inflight, received, connVars, msg, todo, callVars,
                   countVars>>

RequestReplySendFailed(p) ==
    /\ Goto(p, "rrSend", "rrFailed")
    /\ socket = 0 \/ broken \/ CannotBeWritten(p)
    /\ UNCHANGED <<linkVars, lockVars, respVars, netVars, connVars, readVars,
                   callVars, countVars>>

\* ReadWireMsg returns the message at the head of the socket.
ReadMessage(p) ==
    /\ readSock[p] = socket /\ socket # 0 /\ ~broken /\ wire # <<>>
    /\ wire' = Tail(wire)
    /\ UNCHANGED <<socket, sockets, broken, inflight, received>>

\* ReadWireMsg returns an error: the socket was closed or the peer has gone,
\* the deadline passed, or one read returned two messages, which are lost.
ReadFails(p) ==
    \/ /\ readSock[p] # socket \/ broken
       /\ UNCHANGED <<netVars, events>>
    \/ Event("timeout") /\ UNCHANGED netVars
    \/ /\ Event("coalesce")
       /\ readSock[p] = socket /\ Len(wire) > 1
       /\ wire' = <<>>
       /\ UNCHANGED <<socket, sockets, broken, inflight, received>>

\* Mutant: channelRequestReply returns its answer without ChannelUnlock.
RequestReplyKeepsLock(p) ==
    /\ ReadMessage(p) /\ Head(wire) = Handshake
    /\ Goto(p, "rrRead", IF exchange[p] < 3 THEN "rrLock" ELSE "connected")
    /\ exchange' = [exchange EXCEPT ![p] = IF @ < 3 THEN @ + 1 ELSE 1]
    /\ UNCHANGED <<linkVars, lockVars, respVars, attempt, nested, result,
                   readVars, callVars, countVars>>

\* The three exchanges of performHandshake and doAuthenticate.
RequestReplyRead(p) ==
    /\ ReadMessage(p)
    /\ CASE Head(wire) = Handshake ->
              /\ sendLock' = None
              /\ Goto(p, "rrRead", IF exchange[p] < 3 THEN "rrLock"
                                                     ELSE "connected")
              /\ exchange' = [exchange EXCEPT ![p] = IF @ < 3 THEN @ + 1 ELSE 1]
         [] Head(wire) = ServerException ->
              Goto(p, "rrRead", "rrFailed") /\ UNCHANGED <<sendLock, exchange>>
         [] OTHER ->     \* not the type the caller asserts
              /\ Goto(p, "rrRead", IF exchange[p] < 3 THEN "rrRejected"
                                                     ELSE "panic")
              /\ UNCHANGED <<sendLock, exchange>>
    /\ UNCHANGED <<linkVars, exceptionLock, respVars, attempt, nested, result,
                   readVars, callVars, countVars>>

\* The server answers, and the answer refuses the client.
HandshakeRefused(p) ==
    /\ Goto(p, "rrRead", "rrRejected")
    /\ Event("reject")
    /\ ReadMessage(p) /\ Head(wire) = Handshake
    /\ UNCHANGED <<linkVars, lockVars, respVars, connVars, readVars, callVars,
                   nextReq, connects, stops>>

RequestReplyReadFailed(p) ==
    /\ Goto(p, "rrRead", "rrFailed")
    /\ ReadFails(p)
    /\ UNCHANGED <<linkVars, lockVars, respVars, connVars, readVars, callVars,
                   nextReq, connects, stops>>

\* ReadWireMsg finds isSocketClosed and returns a nil message.
RequestReplyNoMessage(p) ==
    /\ Goto(p, "rrRead", "panic")
    /\ socket = 0
    /\ UNCHANGED <<linkVars, lockVars, respVars, netVars, connVars, readVars,
                   callVars, countVars>>

\* channelRequestReply returns with an unusable answer; OnConnect fails.
OnConnectFailed(p) ==
    /\ NextAttempt(p, "rrRejected")
    /\ sendLock' = None
    /\ CloseSocket
    /\ UNCHANGED <<linkVars, exceptionLock, respVars, exchange, nested, result,
                   readVars, callVars, countVars>>

\* channelHandleException(err, true) inside channelRequestReply.  A reader
\* already holds exceptionLock, and stops here for ever.
RequestReplyHandle(p) ==
    /\ Goto(p, "rrFailed", "reconnect")
    /\ exceptionLock = None
    /\ exceptionLock' = p
    /\ nested' = [nested EXCEPT ![p] = TRUE]
    /\ UNCHANGED <<linkVars, sendLock, respVars, netVars, attempt, exchange,
                   result, readVars, callVars, countVars>>

TryConnectOk(p) ==
    /\ link' = "Connected"
    /\ IF InHandler(p)
         THEN /\ EndHandler(p, "connected", ChannelException(RetryOperation))
              /\ UNCHANGED num
         ELSE /\ Goto(p, "connected", "start")
              /\ num' = num + 1
              /\ UNCHANGED <<exceptionLock, result, todo, nested>>
    /\ UNCHANGED <<isRunning, sendLock, respVars, netVars, attempt, exchange,
                   readSock, msg, callVars, countVars>>

TryConnectFailed(p) ==
    /\ IF InHandler(p)
         THEN /\ link' = "Closed"
              /\ EndHandler(p, "failed", ChannelException(Disconnected))
         ELSE /\ Goto(p, "failed", "idle")
              /\ UNCHANGED <<link, exceptionLock, result, todo, nested>>
    /\ UNCHANGED <<num, isRunning, sendLock, respVars, netVars, attempt,
                   exchange, readSock, msg, callVars, countVars>>
-----------------------------------------------------------------------------
(* The reader: Start and readAndProcessLoop *)

ReaderStart(g) ==
    /\ Goto(g, "spawned", IF isRunning THEN "off" ELSE "mark")
    /\ UNCHANGED <<linkVars, lockVars, respVars, netVars, connVars, readVars,
                   callVars, countVars>>

ReaderMark(g) ==
    /\ Goto(g, "mark", "top")
    /\ isRunning' = TRUE
    /\ UNCHANGED <<link, num, lockVars, respVars, netVars, connVars, readVars,
                   callVars, countVars>>

ReaderTop(g) ==
    /\ Goto(g, "top", IF ~isRunning \/ link \in ClosedStates THEN "exit"
                                                            ELSE "read")
    /\ UNCHANGED <<linkVars, lockVars, respVars, netVars, connVars, readVars,
                   callVars, countVars>>

\* ReadWireMsg: with the socket closed it returns no message and the loop
\* spins; otherwise the goroutine blocks on the socket of that moment.
ReaderRead(g) ==
    /\ IF socket = 0
         THEN Goto(g, "read", "top") /\ UNCHANGED readSock
         ELSE /\ Goto(g, "read", "reading")
              /\ readSock' = [readSock EXCEPT ![g] = socket]
    /\ UNCHANGED <<linkVars, lockVars, respVars, netVars, connVars, msg, todo,
                   callVars, countVars>>

ReaderGets(g) ==
    /\ ReadMessage(g)
    /\ LET m == Head(wire) IN
       /\ Goto(g, "reading", CASE m = Ping -> "top"
                               [] m = Terminate -> "terminate"
                               [] m = ServerException -> "readError"
                               [] OTHER -> "process")
       /\ msg' = [msg EXCEPT ![g] = m.val]
    /\ UNCHANGED <<linkVars, lockVars, respVars, connVars, readSock, todo,
                   callVars, countVars>>

ReaderReadFailed(g) ==
    /\ Goto(g, "reading", "readError")
    /\ ReadFails(g)
    /\ UNCHANGED <<linkVars, lockVars, respVars, connVars, readVars, callVars,
                   nextReq, connects, stops>>

\* channelProcessMessage: an answer nobody waits for is an error.
ProcessMessage(g) ==
    LET r == msg[g] IN
    /\ IF r \in responses
         THEN /\ Goto(g, "process", "top")
              /\ reply' = [reply EXCEPT ![r] = Response(r)]
         ELSE Goto(g, "process", "readError") /\ UNCHANGED reply
    /\ UNCHANGED <<linkVars, lockVars, responses, outcome, netVars, connVars,
                   readVars, callVars, countVars>>

ReaderError(g) ==
    /\ Goto(g, "readError", IF isRunning THEN "handleLock" ELSE "exit")
    /\ UNCHANGED <<linkVars, lockVars, respVars, netVars, connVars, readVars,
                   callVars, countVars>>

ReaderHandle(g) ==
    /\ Goto(g, "handleLock", "reconnect")
    /\ exceptionLock = None
    /\ exceptionLock' = g
    /\ UNCHANGED <<linkVars, sendLock, respVars, netVars, connVars, readVars,
                   callVars, countVars>>

\* One turn of the loop over GetResponses, which sets an exception reply.
NotifyOne(g) ==
    /\ NoPanic
    /\ pc[g] = "notify"
    /\ \E r \in todo[g] \cap responses :
         /\ reply' = [reply EXCEPT ![r] = Exception(result[g])]
         /\ todo' = [todo EXCEPT ![g] = @ \ {r}]
    /\ UNCHANGED <<linkVars, lockVars, responses, outcome, netVars, connVars,
                   readSock, msg, callVars, countVars, pc>>

NotifyDone(g) ==
    /\ Goto(g, "notify", IF ReaderGivesUp(result[g]) THEN "exit" ELSE "top")
    /\ todo[g] \cap responses = {}
    /\ todo' = [todo EXCEPT ![g] = {}]
    /\ UNCHANGED <<linkVars, lockVars, respVars, netVars, connVars, readSock,
                   msg, callVars, countVars>>

\* channelTerminated.
ReaderTerminated(g) ==
    /\ Goto(g, "terminate", "exit")
    /\ exceptionLock = None
    /\ link' = "Terminated"
    /\ CloseSocket
    /\ UNCHANGED <<num, isRunning, lockVars, respVars, connVars, readVars,
                   callVars, countVars>>

ReaderExit(g) ==
    /\ Goto(g, "exit", "off")
    /\ isRunning' = FALSE
    /\ UNCHANGED <<link, num, lockVars, respVars, netVars, connVars, readVars,
                   callVars, countVars>>
-----------------------------------------------------------------------------
(* The server and the network *)

Answer(r) ==
    /\ r \in inflight /\ ~broken
    /\ inflight' = inflight \ {r}
    /\ wire' = Append(wire, Response(r))
    /\ UNCHANGED <<linkVars, lockVars, respVars, socket, sockets, broken,
                   received, connVars, readVars, callVars, countVars, pc>>

\* A message the server sends of its own accord.  It pings and terminates
\* only sessions that it has authenticated.
ServerSends(e, m) ==
    /\ Event(e)
    /\ socket # 0 /\ ~broken
    /\ e \in {"ping", "terminate"} => link = "Connected"
    /\ wire' = Append(wire, m)
    /\ UNCHANGED <<linkVars, lockVars, respVars, socket, sockets, broken,
                   inflight, received, connVars, readVars, callVars, nextReq,
                   connects, stops, pc>>

PeerGone ==
    /\ Event("break")
    /\ socket # 0 /\ ~broken
    /\ broken' = TRUE /\ inflight' = {} /\ wire' = <<>>
    /\ UNCHANGED <<linkVars, lockVars, respVars, socket, sockets, received,
                   connVars, readVars, callVars, nextReq, connects,
                   stops, pc>>
-----------------------------------------------------------------------------
AppStep(a) ==
    \/ CheckConnected(a) \/ SendOk(a) \/ SendFailed(a) \/ WaitForLink(a)
    \/ Await(a) \/ TakeReply(a) \/ ChannelConnect(a) \/ ChannelStart(a)
    \/ ClearRunning(a) \/ StopSent(a) \/ StopSendFailed(a) \/ StopClose(a)

AppLocks(a) ==
    \/ LockAndRegister(a) \/ LockException(a) \/ ChannelDisConnect(a)
    \/ StopSkipped(a) \/ StopReader(a)

AppCalls(a) ==
    \/ SendRequest(a) \/ SendMessage(a) \/ Connect(a) \/ Disconnect(a)
    \/ ForceStop(a)

ConnectStep(p) ==
    \/ Reconnect(p) \/ CreateSocket(p) \/ CreateSocketFailed(p)
    \/ RequestReplySend(p) \/ RequestReplySendFailed(p) \/ RequestReplyRead(p)
    \/ HandshakeRefused(p) \/ RequestReplyReadFailed(p)
    \/ RequestReplyNoMessage(p) \/ OnConnectFailed(p)
    \/ TryConnectOk(p) \/ TryConnectFailed(p)

ConnectLocks(p) == RequestReplyLock(p) \/ RequestReplyHandle(p)

ReaderStep(g) ==
    \/ ReaderStart(g) \/ ReaderMark(g) \/ ReaderTop(g) \/ ReaderRead(g)
    \/ ReaderGets(g) \/ ReaderReadFailed(g) \/ ProcessMessage(g)
    \/ ReaderError(g) \/ NotifyOne(g) \/ NotifyDone(g) \/ ReaderExit(g)

ReaderLocks(g) == ReaderHandle(g) \/ ReaderTerminated(g)

Environment ==
    \/ \E r \in ReqId : Answer(r)
    \/ ServerSends("ping", Ping)
    \/ ServerSends("terminate", Terminate)
    \/ ServerSends("exception", ServerException)
    \/ PeerGone

Next ==
    \/ \E a \in Apps : AppStep(a) \/ AppLocks(a) \/ AppCalls(a)
    \/ \E p \in Procs : ConnectStep(p) \/ ConnectLocks(p)
    \/ \E g \in Readers : ReaderStep(g) \/ ReaderLocks(g)
    \/ Environment

Spec == Init /\ [][Next]_vars

\* The goroutines are scheduled, sync.Mutex hands a lock over in turn once a
\* waiter starves, and a server that is up answers.  Applications need not
\* call anything.
Fairness ==
    /\ \A a \in Apps : /\ WF_vars(AppStep(a) \/ ConnectStep(a))
                       /\ SF_vars(AppLocks(a) \/ ConnectLocks(a))
    /\ \A g \in Readers : /\ WF_vars(ReaderStep(g) \/ ConnectStep(g))
                          /\ SF_vars(ReaderLocks(g) \/ ConnectLocks(g))
    /\ WF_vars(\E r \in ReqId : Answer(r))

FairSpec == Spec /\ Fairness
-----------------------------------------------------------------------------
(* Properties *)

PCTypeOK ==
    /\ pc \in [Procs -> AppPCs \cup ReaderPCs \cup ConnectPCs]
    /\ \A a \in Apps : pc[a] \in AppPCs \cup ConnectPCs
    /\ \A g \in Readers : pc[g] \in ReaderPCs \cup ConnectPCs

TypeOK ==
    /\ link \in LinkStates /\ num \in Nat /\ isRunning \in BOOLEAN
    /\ sendLock \in Procs \cup {None} /\ exceptionLock \in Procs \cup {None}
    /\ responses \subseteq ReqId
    /\ reply \in [ReqId -> Replies]
    /\ outcome \in [ReqId -> {"none", "ok", "error"}]
    /\ socket \in 0 .. MaxSock /\ sockets \in 0 .. MaxSock
    /\ broken \in BOOLEAN
    /\ inflight \subseteq ReqId /\ received \subseteq ReqId
    /\ wire \in Seq(Messages)
    /\ PCTypeOK
    /\ req \in [Apps -> {0} \cup ReqId] /\ force \in [Apps -> BOOLEAN]
    /\ attempt \in [Procs -> 0 .. RetryCount - 1]
    /\ exchange \in [Procs -> 1 .. 3]
    /\ nested \in [Procs -> BOOLEAN] /\ result \in [Procs -> ErrorCodes]
    /\ readSock \in [Procs -> 0 .. MaxSock] /\ msg \in [Readers -> Nat]
    /\ todo \in [Readers -> SUBSET ReqId]
    /\ nextReq \in 1 .. MaxReq + 1 /\ connects \in 0 .. MaxConnects
    /\ stops \in 0 .. MaxStops /\ events \in 0 .. MaxEvents

\* Every path that unlocks a mutex holds it (the unlock of a mutex that is
\* not locked ends a Go program), and no two goroutines write the socket or
\* run an exception handler together.
SendLockPCs == {"send", "await", "delete", "stopFlag", "stopSend",
                "stopClose", "rrSend", "rrRead", "rrFailed", "rrRejected"}
HandlerPCs == ConnectPCs \ {"panic"}

InSendLock(p) == pc[p] \in SendLockPCs \/ nested[p]
InExceptionLock(p) ==
    pc[p] = "excWait" \/ nested[p] \/ (p \in Readers /\ pc[p] \in HandlerPCs)

LockDiscipline ==
    \A p \in Procs : /\ InSendLock(p) => sendLock = p
                     /\ InExceptionLock(p) => exceptionLock = p

\* The inductive form: an application goroutine reconnects only inside the
\* handler of its own channelRequestReply, and there never gets further than
\* the lock it already holds.
LockInv ==
    /\ PCTypeOK
    /\ nested \in [Procs -> BOOLEAN]
    /\ \A p \in Procs : nested[p] =>
          /\ p \in Apps
          /\ pc[p] \in {"reconnect", "tryConnect", "rrLock", "failed"}
    /\ \A a \in Apps : pc[a] = "reconnect" => nested[a]
    /\ LockDiscipline

\* A SendRequest that returned a message returned the server's answer to that
\* very request (channelProcessMessage and BlockingChannelResponse together),
\* and no later message can reach its BlockingChannelResponse.
ReplyIntegrity ==
    \A r \in ReqId : outcome[r] = "ok" =>
        reply[r] = Response(r) /\ r \in received /\ r \notin responses

\* The inductive form.  CallInv: a request has one goroutine, whose call has
\* not returned as long as the outcome is not known.
SendPCs == {"check", "lock", "send", "excLock", "excWait", "await", "delete"}
Inside(a) == req[a] # 0 /\ pc[a] \in SendPCs

CallInv ==
    /\ req \in [Apps -> {0} \cup ReqId] /\ nextReq \in Nat \ {0}
    /\ outcome \in [ReqId -> {"none", "ok", "error"}]
    /\ \A a \in Apps : req[a] < nextReq
    /\ \A a, b \in Apps : req[a] = req[b] /\ req[a] # 0 => a = b
    /\ \A r \in ReqId : r >= nextReq => outcome[r] = "none"
    /\ \A a \in Apps : Inside(a) => outcome[req[a]] = "none"
    /\ \A a \in Apps : pc[a] \in {"await", "delete"} => req[a] # 0

\* AnswerInv: an answer on its way, on the wire, in a reader or in a
\* BlockingChannelResponse, answers a request that the server has read.
WireAnswers ==
    /\ wire \in Seq(Messages)
    /\ \A i \in 1 .. Len(wire) :
          wire[i].kind = "response" => wire[i].val \in received

AnswerInv ==
    /\ WireAnswers
    /\ reply \in [ReqId -> Replies] /\ result \in [Procs -> ErrorCodes]
    /\ msg \in [Readers -> Nat]
    /\ responses \subseteq ReqId /\ received \subseteq ReqId
    /\ inflight \subseteq received
    /\ \A g \in Readers : pc[g] = "process" /\ msg[g] \in ReqId
                            => msg[g] \in received
    /\ \A r \in ReqId : reply[r].kind = "response" =>
          reply[r] = Response(r) /\ r \in received

ReplyInv == LockInv /\ CallInv /\ AnswerInv /\ ReplyIntegrity

OnWire(r) == \E i \in 1 .. Len(wire) : wire[i] = Response(r)

\* A request in the hands of the server, or its answer on the wire, belongs
\* to a goroutine that holds sendLock in SendRequest: one exchange at a time.
OneOutstanding ==
    \A r \in ReqId : (r \in inflight \/ OnWire(r)) =>
        \E a \in Apps : req[a] = r /\ pc[a] = "await" /\ sendLock = a

\* The link is in use: its socket is open, the peer is there, nobody stops it.
InUse == socket # 0 /\ ~broken /\ link \notin ClosedStates

\* The responses map, which the reader uses without a lock, is never read by
\* a reader at the moment a requester is about to change it, while the link is
\* in use.
NoMapRace ==
    InUse =>
        \A g \in Readers, a \in Apps : pc[g] \in {"process", "notify"} =>
            ~(pc[a] = "delete" \/ (pc[a] = "lock" /\ sendLock = None))

\* Nothing stays in the responses map after its SendRequest has returned, while
\* the link is in use: that of a request which cannot be written stays as long as
\* its call, which is for ever.
NoLeakedResponse ==
    InUse => \A r \in responses : \E a \in Apps : req[a] = r /\ pc[a] \in SendPCs

\* A reader whose channel was reconnected, which channelHandleException
\* reports as RetryOperation, goes on reading.
ReaderSurvivesRetry ==
    [][\A g \in Readers :
         pc[g] = "notify" /\ result[g] = ChannelException(RetryOperation)
            => pc'[g] \in {"notify", "top"}]_vars

\* No goroutine waits for a mutex that it holds itself.
NoSelfDeadlock ==
    \A p \in Procs :
        /\ pc[p] \in {"lock", "rrLock", "disconnect", "stop"} => sendLock # p
        /\ pc[p] \in {"excLock", "rrFailed", "handleLock", "terminate"}
                => exceptionLock # p

\* Every call of the channel returns, but for that of a message which cannot be
\* written: as long as the link stays connected, it is tried again.
TriesAgain(a) == link = "Connected" /\ pc[a] \in SendPCs /\ req[a] \in Unwritable

CallsReturn ==
    \A a \in Apps : pc[a] # "idle" ~> pc[a] = "idle" \/ TriesAgain(a)
-----------------------------------------------------------------------------
(* What a channel promises of each request *)

Status(r) == IF outcome[r] # "none" THEN outcome[r]
             ELSE IF r < nextReq THEN "open" ELSE "unused"

Service == INSTANCE RequestService WITH
    Request <- ReqId, status <- [r \in ReqId |-> Status(r)]

\* The channel implements RequestService.
ServiceSpec == Service!Spec
=============================================================================
